-------------------------- MODULE UpdaterProperties --------------------------
(***************************************************************************)
(* What the updater is to guarantee.  Each property holds under the faults *)
(* that its runs and theorems name, and not under all of them: the runs    *)
(* that TLC finds violated show where the line is.                         *)
(***************************************************************************)
EXTENDS Updater, Naturals

(***************************************************************************)
(* The application tree in use: the installed one, or the backup while the *)
(* install directory is renamed away.                                      *)
(***************************************************************************)
Current == IF "install" \in dirs THEN tree["install"] ELSE tree["backup"]

(***************************************************************************)
(* Safety.                                                                 *)
(***************************************************************************)

\* The application is never lost: whenever the install directory is away its
\* backup is there, in every run, between runs, and in the run that recovers
\* (main.c:227-252; README.md:9 promises the copy under *.update_backup).
AlwaysACopy == "install" \in dirs \/ "backup" \in dirs

\* Nothing but the promotion of the staging tree (main.c:245, main.c:194)
\* changes the application tree in use: no removal, no recovery and no failure
\* of one ever reaches into it.
OnlyPromotion ==
    [][Current' # Current =>
          "staging" \in dirs /\ Current' = tree["staging"]]_vars

\* No directory is created, renamed, filled or emptied while the application
\* that started the run is alive (main.c:164), whatever state the run found.
WaitsForApp == [][parent = "alive" => UNCHANGED <<dirs, tree>>]_vars

\* Files of two packages never end up in one installed tree, whichever
\* packages earlier and killed runs were given (main.c:213 clears what they
\* left in the staging directory).
OneVersion(t) == \A e1, e2 \in t : e1[2] = e2[2]
NoMixedInstall == OneVersion(tree["install"])

\* A run that reports success leaves neither a second tree nor a state file
\* behind for the next run to misread (main.c:256-257, 177-178, 185-186).
CleanExit == status = "ok" => dirs = {"install"} /\ saved = NoFile

\* A run that reports success leaves a whole tree installed.
WholeInstall ==
    status = "ok" =>
        tree["install"] \in {OldTree} \cup {PkgTree(p) : p \in Packages}

\* The files of the application that its update does not list are still
\* installed after it.
KeepsUnlistedFiles ==
    status = "ok" => OldFiles \subseteq {e[1] : e \in tree["install"]}

\* A run that is neither killed nor denied an operation ends with its package
\* installed and nothing else left, whatever killed runs left behind: it gives
\* up on nothing it finds, and takes nothing half-done for done
\* (main.c:172-209 go on from each of the states, update_state.c:156-215).
InstallsUnlessKilled ==
    status \in {"ok", "error"} =>
        /\ status = "ok"
        /\ Current = PkgTree(pkg)
        /\ dirs = {"install"} /\ saved = NoFile

(***************************************************************************)
(* The order of the calls of a run.  Failures and recoveries leave calls   *)
(* out; none goes back.                                                    *)
(***************************************************************************)
CallOrder ==
    <<"load", "drop_state", "wait", "clear_staging", "open_archive",
      "extract", "save_extracted", "commit_extracted", "clear_backup",
      "swap_out", "save_backed_up", "commit_backed_up", "swap_in",
      "save_installed", "commit_installed", "drop_backup", "undo",
      "abort_staging", "abort_state", "roll_back", "rolled_staging",
      "finish_state", "relaunch">>

Precedes(a, b) ==
    \E i, j \in DOMAIN CallOrder :
        i < j /\ CallOrder[i] = a /\ CallOrder[j] = b

\* One entry less to extract, one less to remove, or one process less to wait
\* for.
LessToDo ==
    \/ todo' # todo /\ todo' \subseteq todo
    \/ /\ todo' = todo
       /\ tree' # tree /\ \A d \in Dirs : tree'[d] \subseteq tree[d]
    \/ UNCHANGED <<todo, tree>> /\ parent = "alive" /\ parent' = "gone"

\* No failure, and no recovery from one, takes a run back to a call it is past,
\* and at each call it gets closer to the next: the number of its steps is
\* bounded by the directories and the package (main.c:151-263 has no loop, but
\* four tails that clean up and two that resume).
RunsForward ==
    [][pc # "idle" /\ pc' # "idle" =>
          Precedes(pc, pc') \/ (pc' = pc /\ LessToDo)]_vars

(***************************************************************************)
(* The runs of the updater, killed and resumed at any call, are one atomic *)
(* change of the application tree.                                         *)
(***************************************************************************)
AI == INSTANCE AtomicInstall WITH
        OldTree <- OldTree,
        NewTree <- [p \in Packages |-> PkgTree(p)],
        current <- Current,
        want <- pkg,
        running <- (pc # "idle"),
        outcome <- status

\* However a run is killed and resumed, the tree in use goes in one step from
\* a whole tree to the whole package, and only a run that has got there
\* reports success (main.c:133-263).
ImplementsAtomicInstall == AI!Spec

(***************************************************************************)
(* Liveness, under FairSpec.                                               *)
(***************************************************************************)

\* Every run ends, whatever fails: no retry, no recovery and no wait for the
\* application keeps it forever (main.c:164, update_ops.c:474-512).
Terminates == (pc # "idle") ~> (pc = "idle")

\* A run that is neither killed nor denied an operation installs its package
\* and cleans up, whatever an earlier killed run of it left behind.
RecoversAndInstalls ==
    (pc = "load") ~>
        \/ status = "crashed"
        \/ Current = PkgTree(pkg) /\ dirs = {"install"} /\ saved = NoFile
==============================================================================
