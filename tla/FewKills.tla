------------------------------- MODULE FewKills -------------------------------
(***************************************************************************)
(* The updater under an environment that kills at most MaxKills runs       *)
(* between two successful ones.  A success leaves nothing behind (see      *)
(* CleanExit), so the count starts again after it.                         *)
(***************************************************************************)
EXTENDS UpdaterProperties

CONSTANT MaxKills
ASSUME MaxKillsAssumption == MaxKills \in Nat

VARIABLE kills      \* runs killed since the last success

KInit == Init /\ kills = 0

Count ==
    /\ kills' = CASE status' = "ok" -> 0
                  [] status' = "crashed" /\ pc # "idle" -> kills + 1
                  [] OTHER -> kills
    /\ kills' <= MaxKills

KNext == Next /\ Count
KSpec == KInit /\ [][KNext]_<<vars, kills>>

KFairness ==
    /\ WF_<<vars, kills>>(Step /\ Count)
    /\ WF_<<vars, kills>>(ParentExit /\ Count)

KFairSpec == KSpec /\ KFairness
===============================================================================
