---------------------------- MODULE AtomicInstall ----------------------------
(***************************************************************************)
(* What one installation promises to its user, whatever happens to the     *)
(* process that performs it: the application tree in use changes in a      *)
(* single step from one whole tree to the whole tree of the package that   *)
(* is being installed, a run that does not get that far leaves it alone,   *)
(* and a run that reports success has installed its package.               *)
(*                                                                         *)
(* This is the abstract specification; Updater is shown to implement it.   *)
(***************************************************************************)
CONSTANTS
    Packages,   \* the packages a run can be asked to install
    OldTree,    \* the tree that is installed before the first run
    NewTree     \* NewTree[p]: the whole tree of package p

VARIABLES
    current,    \* the application tree in use
    want,       \* the package of the run in progress, or of the last run
    running,    \* is a run in progress?
    outcome     \* how the last run ended; "none" while a run is in progress

vars == <<current, want, running, outcome>>

Init ==
    /\ current = OldTree
    /\ want \in Packages
    /\ running = FALSE
    /\ outcome = "none"

Start(p) ==
    /\ ~running
    /\ running' = TRUE
    /\ want' = p
    /\ outcome' = "none"
    /\ UNCHANGED current

Apply ==
    /\ running
    /\ current' = NewTree[want]
    /\ UNCHANGED <<want, running, outcome>>

Succeed ==
    /\ running
    /\ current = NewTree[want]
    /\ running' = FALSE
    /\ outcome' = "ok"
    /\ UNCHANGED <<current, want>>

Fail ==
    /\ running
    /\ running' = FALSE
    /\ outcome' \in {"error", "crashed"}
    /\ UNCHANGED <<current, want>>

Next ==
    \/ \E p \in Packages : Start(p)
    \/ Apply
    \/ Succeed
    \/ Fail

Spec == Init /\ [][Next]_vars
==============================================================================
