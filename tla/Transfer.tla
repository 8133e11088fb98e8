------------------------------ MODULE Transfer -------------------------------
(***************************************************************************)
(* What a download promises to its caller: all or nothing.  What the       *)
(* caller holds under the destination changes in one step, to the whole    *)
(* page the server has, and only when the download reports success; a      *)
(* download that fails leaves it alone.  Two things are not promised: the  *)
(* end of a page whose length the server does not announce, and a page     *)
(* above the limit when the destination is memory.                         *)
(*                                                                         *)
(* This is the abstract specification; Http is shown to implement it.      *)
(***************************************************************************)
EXTENDS Naturals, Sequences

CONSTANTS
    Pages,      \* the pages a server may have, sequences of symbols
    MaxFetch,   \* the largest page that is fetched to memory
    None

VARIABLES
    dest,       \* what the caller holds: a page, part of one, or None
    page,       \* the page asked for
    kind,       \* "file" or "memory"
    announced,  \* does the server say where the page ends?
    busy,
    result      \* of the last call; "none" while one is running

vars == <<dest, page, kind, announced, busy, result>>

Init ==
    /\ dest = None
    /\ page \in Pages
    /\ kind \in {"file", "memory"}
    /\ announced \in BOOLEAN
    /\ busy = FALSE
    /\ result = "none"

\* A call that fetches to memory forgets what the last one returned.
Start(k, p) ==
    /\ ~busy
    /\ busy' = TRUE
    /\ kind' = k
    /\ page' = p
    /\ announced' \in BOOLEAN
    /\ dest' = IF k = "memory" THEN None ELSE dest
    /\ result' = "none"

Succeed(n) ==
    /\ busy
    /\ n = Len(page) \/ ~announced
    /\ kind = "memory" => n <= MaxFetch
    /\ busy' = FALSE
    /\ dest' = SubSeq(page, 1, n)
    /\ result' = "ok"
    /\ UNCHANGED <<page, kind, announced>>

Fail ==
    /\ busy
    /\ busy' = FALSE
    /\ result' \in {"error", "killed"}
    /\ UNCHANGED <<dest, page, kind, announced>>

Next ==
    \/ \E k \in {"file", "memory"}, p \in Pages : Start(k, p)
    \/ \E n \in 0..Len(page) : Succeed(n)
    \/ Fail

Spec == Init /\ [][Next]_vars
==============================================================================
