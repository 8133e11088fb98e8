----------------------------- MODULE SpawnProofs -----------------------------
(***************************************************************************)
(* Theorems about Spawn: what a call says of the program it started is     *)
(* true, and a caller waits for no program of its own, for any number of   *)
(* callers.                                                                *)
(***************************************************************************)
EXTENDS Spawn, TLAPS

Pcs == {"idle", "fork", "close", "read", "reap", "done"}
Fates == {"none", "forked", "running", "failed", "killed", "ended"}

SpawnTypeOK ==
    /\ spawnPc \in [Callers -> Pcs]
    /\ child \in [Callers -> Fates]
    /\ open \subseteq Callers
    /\ inherited \in [Callers -> SUBSET Callers]
    /\ told \subseteq Callers
    /\ spawned \in [Callers -> {"none", "ok", "error"}]
    /\ gone \in BOOLEAN

\* A call that is not past the fork has no child, one that waits has one, and
\* a result is there only when the call is done.
Begun ==
    \A t \in Callers :
        /\ spawnPc[t] \in {"idle", "fork"} => child[t] = "none"
        /\ spawnPc[t] \in {"close", "read", "reap"} => child[t] # "none"
        /\ spawned[t] # "none" => spawnPc[t] = "done"

\* A caller that is about to fork has its own write end, so its child has it
\* until it is the program, has failed or was killed.
HoldsEnd ==
    \A t \in Callers :
        /\ ~gone /\ spawnPc[t] = "fork" => t \in open
        /\ child[t] = "forked" => t \in inherited[t]

\* A byte is in the pipe exactly when exec failed, and a caller that waits for
\* its child to end has read one.
Said ==
    \A t \in Callers :
        /\ t \in told <=> child[t] = "failed"
        /\ spawnPc[t] = "reap" => t \in told

SInv == SpawnTypeOK /\ Begun /\ HoldsEnd /\ Said /\ SpawnTruth

LEMMA SInvInit == SpawnInit => SInv
  BY DEF SpawnInit, SInv, SpawnTypeOK, Begun, HoldsEnd, Said, SpawnTruth, Pcs, Fates

LEMMA CallerStep ==
  ASSUME SInv, NEW t \in Callers, OpenPipe(t) \/ CallSteps(t)
  PROVE  SInv'
<1> USE DEF SInv, SpawnTypeOK, Pcs, Fates, At, Goto, SpawnReturns
<1>1. CASE OpenPipe(t)
  BY <1>1 DEF OpenPipe, Begun, HoldsEnd, Said, SpawnTruth
<1>2. CASE Fork(t)
  BY <1>2 DEF Fork, Begun, HoldsEnd, Said, SpawnTruth
<1>3. CASE CloseEnd(t)
  BY <1>3 DEF CloseEnd, Begun, HoldsEnd, Said, SpawnTruth
<1>4. CASE ReadByte(t)
  BY <1>4 DEF ReadByte, Begun, HoldsEnd, Said, SpawnTruth
<1>5. CASE ReadEnd(t)
  <2>1. child[t] \in {"running", "ended", "killed"}
    BY <1>5 DEF ReadEnd, Begun, HoldsEnd, Said
  <2> QED
    BY <1>5, <2>1 DEF ReadEnd, Begun, HoldsEnd, Said, SpawnTruth
<1>6. CASE Reap(t)
  BY <1>6 DEF Reap, Begun, HoldsEnd, Said, SpawnTruth
<1> QED
  BY <1>1, <1>2, <1>3, <1>4, <1>5, <1>6 DEF CallSteps

LEMMA ChildStep ==
  ASSUME SInv, NEW c \in Callers, ChildSteps(c) \/ ChildKilled(c)
  PROVE  SInv'
<1> USE DEF SInv, SpawnTypeOK, Pcs, Fates
<1>1. CASE Exec(c)
  BY <1>1 DEF Exec, Begun, HoldsEnd, Said, SpawnTruth
<1>2. CASE ExecFails(c)
  BY <1>2 DEF ExecFails, Begun, HoldsEnd, Said, SpawnTruth
<1>3. CASE ProgramEnds(c)
  BY <1>3 DEF ProgramEnds, Begun, HoldsEnd, Said, SpawnTruth
<1>4. CASE ChildKilled(c)
  BY <1>4 DEF ChildKilled, Begun, HoldsEnd, Said, SpawnTruth
<1> QED
  BY <1>1, <1>2, <1>3, <1>4 DEF ChildSteps

LEMMA ExitStep ==
  ASSUME SInv, AppExits
  PROVE  SInv'
BY DEF AppExits, SInv, SpawnTypeOK, Begun, HoldsEnd, Said, SpawnTruth

LEMMA SInvStep ==
  ASSUME SInv, [SpawnNext]_spawnVars
  PROVE  SInv'
<1>1. CASE UNCHANGED spawnVars
  BY <1>1 DEF spawnVars, SInv, SpawnTypeOK, Begun, HoldsEnd, Said, SpawnTruth
<1>2. CASE SpawnNext
  BY <1>2, CallerStep, ChildStep, ExitStep DEF SpawnNext
<1> QED
  BY <1>1, <1>2

\* Whatever happens between them, no step makes a call say what is not so:
\* "ok" only if the program was started or killed on the way there, "error"
\* only if no child is left (platform_process.c:350-380).
THEOREM SpawnTellsTruth == SpawnSpec => []SpawnTruth
<1>1. SInv /\ [SpawnNext]_spawnVars => SInv'
  BY SInvStep
<1>2. SInv => SpawnTruth
  BY DEF SInv
<1> QED
  BY SInvInit, <1>1, <1>2, PTL DEF SpawnSpec

\* A child holds ends while it is on its way or runs, and not its own when it
\* runs; a caller that is past closing its end has it closed.
EndsHeld ==
    \A t \in Callers :
        /\ spawnPc[t] \in {"read", "reap"} => t \notin open
        /\ inherited[t] # {} => child[t] \in {"forked", "running"}
        /\ child[t] = "running" => t \notin inherited[t]

LEMMA EndsHeldStep ==
  ASSUME SInv, EndsHeld, [SpawnNext]_spawnVars
  PROVE  EndsHeld'
<1> USE DEF SInv, SpawnTypeOK, EndsHeld, Pcs, Fates, At, Goto, SpawnReturns
<1>1. ASSUME NEW t \in Callers, OpenPipe(t) PROVE EndsHeld'
  BY <1>1 DEF OpenPipe
<1>2. ASSUME NEW t \in Callers, CallSteps(t) PROVE EndsHeld'
  <2>1. CASE Fork(t)
    BY <1>2, <2>1 DEF Fork
  <2>2. CASE CloseEnd(t)
    BY <1>2, <2>2 DEF CloseEnd
  <2>3. CASE ReadByte(t)
    BY <1>2, <2>3 DEF ReadByte
  <2>4. CASE ReadEnd(t)
    BY <1>2, <2>4 DEF ReadEnd
  <2>5. CASE Reap(t)
    BY <1>2, <2>5 DEF Reap
  <2> QED
    BY <1>2, <2>1, <2>2, <2>3, <2>4, <2>5 DEF CallSteps
<1>3. ASSUME NEW c \in Callers, ChildSteps(c) \/ ChildKilled(c)
      PROVE  EndsHeld'
  BY <1>3 DEF ChildSteps, Exec, ExecFails, ProgramEnds, ChildKilled
<1>4. CASE AppExits
  BY <1>4 DEF AppExits
<1>5. CASE UNCHANGED spawnVars
  BY <1>5 DEF spawnVars
<1> QED
  BY <1>1, <1>2, <1>3, <1>4, <1>5 DEF SpawnNext

\* With one caller at a time nothing but its child, before exec, keeps it
\* waiting, whatever the program does afterwards; with several, the others'
\* children do (platform_process.c:350-370).
THEOREM NoSelfWait == SpawnSpec => []WaitsForOthers
<1>1. SpawnInit => EndsHeld
  BY DEF SpawnInit, EndsHeld
<1>2. SInv /\ [SpawnNext]_spawnVars => SInv'
  BY SInvStep
<1>3. SInv /\ EndsHeld /\ [SpawnNext]_spawnVars => EndsHeld'
  BY EndsHeldStep
<1>4. SInv /\ EndsHeld => WaitsForOthers
  BY DEF SInv, SpawnTypeOK, Said, EndsHeld, WaitsForOthers, At, Fates
<1> QED
  BY SInvInit, <1>1, <1>2, <1>3, <1>4, PTL DEF SpawnSpec
==============================================================================
