---------------------------- MODULE UpdaterProofs ----------------------------
(***************************************************************************)
(* Theorems about the updater for every set of files and packages, every   *)
(* content of the packages, and runs killed any number of times.           *)
(***************************************************************************)
EXTENDS FewKills, TLAPS

(***************************************************************************)
(* Type correctness.                                                       *)
(***************************************************************************)
LEMMA GotoType ==
    ASSUME TypeOK, NEW l, Goto(l)
    PROVE  pc' \in Calls /\ status' \in {"none"} \cup Exits
BY DEF TypeOK, Goto, Calls, Exits

LEMMA RemoveTreeType ==
    ASSUME TypeOK, NEW here, NEW d \in Dirs, NEW next,
           RemoveTree(here, d, next)
    PROVE  TypeOK'
<1>1. pc' \in Calls /\ status' \in {"none"} \cup Exits
    BY GotoType DEF RemoveTree, TypeOK
<1>2. dirs' \subseteq Dirs /\ tree' \in [Dirs -> SUBSET (Files \X Versions)]
    BY DEF RemoveTree, TypeOK
<1> QED
    BY <1>1, <1>2 DEF RemoveTree, TypeOK, args

LEMMA MovePathType ==
    ASSUME TypeOK, NEW here, NEW src \in Dirs, NEW dst \in Dirs,
           NEW next, NEW fail, MovePath(here, src, dst, next, fail)
    PROVE  TypeOK'
<1>1. pc' \in Calls /\ status' \in {"none"} \cup Exits
    BY GotoType DEF MovePath
<1>2. dirs' \subseteq Dirs /\ tree' \in [Dirs -> SUBSET (Files \X Versions)]
    BY DEF MovePath, TypeOK
<1> QED
    BY <1>1, <1>2 DEF MovePath, TypeOK, args

LEMMA WritePartType ==
    ASSUME TypeOK, NEW here, NEW phase \in Phases, NEW next, NEW fail,
           WritePart(here, phase, next, fail)
    PROVE  TypeOK'
<1>1. pc' \in Calls /\ status' \in {"none"} \cup Exits
    BY GotoType DEF WritePart
<1>2. part' \in StateRec \cup {NoFile}
    BY DEF WritePart, TypeOK, StateRec
<1> QED
    BY <1>1, <1>2 DEF WritePart, TypeOK, args

LEMMA CommitPartType ==
    ASSUME TypeOK, NEW here, NEW next, NEW fail, CommitPart(here, next, fail)
    PROVE  TypeOK'
<1>1. pc' \in Calls /\ status' \in {"none"} \cup Exits
    BY GotoType DEF CommitPart
<1> QED
    BY <1>1 DEF CommitPart, TypeOK, args

LEMMA RemoveStateType ==
    ASSUME TypeOK, NEW here, NEW next, RemoveState(here, next)
    PROVE  TypeOK'
<1>1. pc' \in Calls /\ status' \in {"none"} \cup Exits
    BY GotoType DEF RemoveState
<1> QED
    BY <1>1 DEF RemoveState, TypeOK, args

LEMMA OpenArchiveType == TypeOK /\ OpenArchive => TypeOK'
<1> SUFFICES ASSUME TypeOK, OpenArchive PROVE TypeOK'
    OBVIOUS
<1>1. pc' \in Calls /\ status' \in {"none"} \cup Exits
    BY GotoType DEF OpenArchive
<1>2. dirs' \subseteq Dirs
    BY DEF OpenArchive, TypeOK, Dirs
<1>3. todo' \subseteq Files
    BY UpdaterAssumption DEF OpenArchive, TypeOK
<1> QED
    BY <1>1, <1>2, <1>3 DEF OpenArchive, TypeOK, args

LEMMA ExtractEntryType == TypeOK /\ ExtractEntry => TypeOK'
<1> SUFFICES ASSUME TypeOK, ExtractEntry PROVE TypeOK'
    OBVIOUS
<1>1. pc' \in Calls /\ status' \in {"none"} \cup Exits
    BY GotoType DEF ExtractEntry, TypeOK
<1>2. dirs' \subseteq Dirs /\ todo' \subseteq Files
    BY DEF ExtractEntry, TypeOK, Dirs
<1>3. tree' \in [Dirs -> SUBSET (Files \X Versions)]
    <2>1. CASE UNCHANGED tree
        BY <2>1 DEF TypeOK
    <2>2. ASSUME NEW f \in todo,
                 tree' = [tree EXCEPT !["staging"] =
                             {e \in @ : e[1] # f} \cup {<<f, pkg>>}]
          PROVE  tree' \in [Dirs -> SUBSET (Files \X Versions)]
        <3>1. <<f, pkg>> \in Files \X Versions
            BY DEF TypeOK, Versions
        <3>2. {e \in tree["staging"] : e[1] # f} \in SUBSET (Files \X Versions)
            BY DEF TypeOK, Dirs
        <3> QED
            BY <2>2, <3>1, <3>2 DEF TypeOK
    <2> QED
        BY <2>1, <2>2 DEF ExtractEntry
<1> QED
    BY <1>1, <1>2, <1>3 DEF ExtractEntry, TypeOK, args

LEMMA StepType == TypeOK /\ Step => TypeOK'
<1> SUFFICES ASSUME TypeOK, Step PROVE TypeOK'
    OBVIOUS
<1> USE DEF Dirs, Phases
<1>1. CASE Load
    <2>1. pc' \in Calls /\ status' \in {"none"} \cup Exits
        BY <1>1, GotoType DEF Load
    <2>2. resume' \in Resumes
        BY <1>1 DEF Load, DetermineResume, Resumes
    <2> QED
        BY <1>1, <2>1, <2>2 DEF Load, TypeOK, disk, args
<1>2. CASE DropState
    BY <1>2, RemoveStateType DEF DropState
<1>3. CASE WaitForParentExit
    <2>1. pc' \in Calls /\ status' \in {"none"} \cup Exits
        BY <1>3, GotoType DEF WaitForParentExit
    <2> QED
        BY <1>3, <2>1 DEF WaitForParentExit, TypeOK, disk, args
<1>4. CASE ClearStaging
    BY <1>4, RemoveTreeType DEF ClearStaging
<1>5. CASE OpenArchive
    BY <1>5, OpenArchiveType
<1>6. CASE ExtractEntry
    BY <1>6, ExtractEntryType
<1>7. CASE SaveExtracted
    BY <1>7, WritePartType, CommitPartType DEF SaveExtracted
<1>8. CASE ClearBackup
    BY <1>8, RemoveTreeType DEF ClearBackup
<1>9. CASE SwapOut
    BY <1>9, MovePathType DEF SwapOut
<1>10. CASE SaveBackedUp
    BY <1>10, WritePartType, CommitPartType DEF SaveBackedUp
<1>11. CASE SwapIn
    BY <1>11, MovePathType DEF SwapIn
<1>12. CASE SaveInstalled
    BY <1>12, WritePartType, CommitPartType DEF SaveInstalled
<1>13. CASE DropBackup
    BY <1>13, RemoveTreeType DEF DropBackup
<1>14. CASE FinishState
    BY <1>14, RemoveStateType DEF FinishState
<1>15. CASE Relaunch
    <2>1. pc' \in Calls /\ status' \in {"none"} \cup Exits
        BY <1>15, GotoType DEF Relaunch
    <2> QED
        BY <1>15, <2>1 DEF Relaunch, TypeOK, disk, args
<1>16. CASE Undo
    BY <1>16, MovePathType DEF Undo
<1>17. CASE AbortStaging
    BY <1>17, RemoveTreeType DEF AbortStaging
<1>18. CASE AbortState
    BY <1>18, RemoveStateType DEF AbortState
<1>19. CASE RollBack
    BY <1>19, MovePathType DEF RollBack
<1>20. CASE RolledStaging
    BY <1>20, RemoveTreeType DEF RolledStaging
<1> QED
    BY <1>1, <1>2, <1>3, <1>4, <1>5, <1>6, <1>7, <1>8, <1>9, <1>10, <1>11,
       <1>12, <1>13, <1>14, <1>15, <1>16, <1>17, <1>18, <1>19, <1>20 DEF Step

LEMMA InitType == Init => TypeOK
<1> SUFFICES ASSUME Init PROVE TypeOK
    OBVIOUS
<1>1. OldTree \subseteq Files \X Versions
    BY UpdaterAssumption DEF OldTree, Versions
<1>2. tree \in [Dirs -> SUBSET (Files \X Versions)]
    BY <1>1 DEF Init
<1> QED
    BY <1>2 DEF Init, TypeOK, Dirs, Calls, Resumes

LEMMA NextType == TypeOK /\ [Next]_vars => TypeOK'
<1> SUFFICES ASSUME TypeOK, [Next]_vars PROVE TypeOK'
    OBVIOUS
<1>1. ASSUME NEW p \in Packages, Launch(p) PROVE TypeOK'
    BY <1>1 DEF Launch, TypeOK, Resumes, Calls, disk
<1>2. CASE Step
    BY <1>2, StepType
<1>3. CASE ParentExit
    BY <1>3 DEF ParentExit, TypeOK, disk
<1>4. CASE Crash
    BY <1>4, GotoType DEF Crash, TypeOK, disk, args
<1>5. CASE UNCHANGED vars
    BY <1>5 DEF TypeOK, vars
<1> QED
    BY <1>1, <1>2, <1>3, <1>4, <1>5 DEF Next

\* Every reachable state of the updater has the types its declarations say:
\* in particular every state file read back has a phase that
\* updater_determine_resume knows (update_state.c:156-215).
THEOREM TypeCorrect == Spec => []TypeOK
BY InitType, NextType, PTL DEF Spec

(***************************************************************************)
(* The application is waited for.                                          *)
(***************************************************************************)
Waiting == parent = "alive" => pc \in {"idle", "load", "drop_state", "wait"}

LEMMA WaitingStep == Waiting /\ [Next]_vars => Waiting'
<1> SUFFICES ASSUME Waiting, [Next]_vars PROVE Waiting'
    OBVIOUS
<1> USE DEF Waiting, Goto, Calls, Exits, args
<1>1. ASSUME NEW p \in Packages, Launch(p) PROVE Waiting'
    BY <1>1 DEF Launch
<1>2. CASE Load
    BY <1>2 DEF Load
<1>3. CASE DropState
    BY <1>3 DEF DropState, RemoveState
<1>4. CASE WaitForParentExit
    BY <1>4 DEF WaitForParentExit
<1>5. CASE ParentExit
    BY <1>5 DEF ParentExit
<1>6. CASE Crash
    BY <1>6 DEF Crash
<1>7. CASE UNCHANGED vars
    BY <1>7 DEF vars
<1>8. CASE \/ ClearStaging \/ OpenArchive \/ ExtractEntry \/ SaveExtracted
           \/ ClearBackup \/ SwapOut \/ SaveBackedUp \/ SwapIn
           \/ SaveInstalled \/ DropBackup \/ FinishState \/ Relaunch
           \/ Undo \/ AbortStaging \/ AbortState \/ RollBack \/ RolledStaging
    <2>1. pc \notin {"idle", "load", "drop_state", "wait"}
        BY <1>8 DEF ClearStaging, OpenArchive, ExtractEntry, SaveExtracted,
            ClearBackup, SwapOut, SaveBackedUp, SwapIn, SaveInstalled,
            DropBackup, FinishState, Relaunch, Undo, AbortStaging,
            AbortState, RollBack, RolledStaging, RemoveTree, MovePath,
            WritePart, CommitPart, RemoveState
    <2>2. UNCHANGED parent
        BY <1>8 DEF ClearStaging, OpenArchive, ExtractEntry, SaveExtracted,
            ClearBackup, SwapOut, SaveBackedUp, SwapIn, SaveInstalled,
            DropBackup, FinishState, Relaunch, Undo, AbortStaging,
            AbortState, RollBack, RolledStaging, RemoveTree, MovePath,
            WritePart, CommitPart, RemoveState
    <2> QED
        BY <2>1, <2>2
<1> QED
    BY <1>1, <1>2, <1>3, <1>4, <1>5, <1>6, <1>7, <1>8 DEF Next, Step

\* While the application runs no directory is touched, whatever a run finds
\* when it starts and whatever fails (main.c:151-164).
THEOREM AppIsWaitedFor == Spec => WaitsForApp
<1>1. Init => Waiting
    BY DEF Init, Waiting
<1>2. Waiting /\ [Next]_vars => (parent = "alive" => UNCHANGED <<dirs, tree>>)
    BY DEF Waiting, Next, Step, vars, disk, Launch, ParentExit, Crash, Load,
        DropState, WaitForParentExit, ClearStaging, OpenArchive,
        ExtractEntry, SaveExtracted, ClearBackup, SwapOut, SaveBackedUp,
        SwapIn, SaveInstalled, DropBackup, FinishState, Relaunch, Undo,
        AbortStaging, AbortState, RollBack, RolledStaging, RemoveTree,
        MovePath, WritePart, CommitPart, RemoveState
<1> QED
    BY <1>1, <1>2, WaitingStep, PTL DEF Spec, WaitsForApp

(***************************************************************************)
(* A run goes forward.                                                     *)
(***************************************************************************)
LEMMA OrderOf ==
    /\ DOMAIN CallOrder = 1..23
    /\ CallOrder[1] = "load" /\ CallOrder[2] = "drop_state"
    /\ CallOrder[3] = "wait" /\ CallOrder[4] = "clear_staging"
    /\ CallOrder[5] = "open_archive" /\ CallOrder[6] = "extract"
    /\ CallOrder[7] = "save_extracted" /\ CallOrder[8] = "commit_extracted"
    /\ CallOrder[9] = "clear_backup" /\ CallOrder[10] = "swap_out"
    /\ CallOrder[11] = "save_backed_up" /\ CallOrder[12] = "commit_backed_up"
    /\ CallOrder[13] = "swap_in" /\ CallOrder[14] = "save_installed"
    /\ CallOrder[15] = "commit_installed" /\ CallOrder[16] = "drop_backup"
    /\ CallOrder[17] = "undo" /\ CallOrder[18] = "abort_staging"
    /\ CallOrder[19] = "abort_state" /\ CallOrder[20] = "roll_back"
    /\ CallOrder[21] = "rolled_staging" /\ CallOrder[22] = "finish_state"
    /\ CallOrder[23] = "relaunch"
BY DEF CallOrder

\* No call is listed twice, so no run goes round in what Precedes orders.
LEMMA OrderIsStrict == \A a, b : ~(Precedes(a, b) /\ Precedes(b, a))
<1>1. \A i, j \in 1..23 : CallOrder[i] = CallOrder[j] => i = j
    BY OrderOf
<1> QED
    BY <1>1, OrderOf DEF Precedes

LEMMA FirstCalls ==
    \A l \in {"clear_staging", "save_extracted", "swap_in", "drop_backup",
               "roll_back"} : Precedes("wait", l)
<1>1. Precedes("wait", "clear_staging")
    BY OrderOf DEF Precedes
<1>2. Precedes("wait", "save_extracted")
    BY OrderOf DEF Precedes
<1>3. Precedes("wait", "swap_in")
    BY OrderOf DEF Precedes
<1>4. Precedes("wait", "drop_backup")
    BY OrderOf DEF Precedes
<1>5. Precedes("wait", "roll_back")
    BY OrderOf DEF Precedes
<1> QED
    BY <1>1, <1>2, <1>3, <1>4, <1>5

Forward == Precedes(pc, pc') \/ (pc' = pc /\ LessToDo)

LEMMA RemoveTreeForward ==
    ASSUME TypeOK, NEW here, NEW d \in Dirs, NEW next \in Calls,
           RemoveTree(here, d, next), Precedes(here, next)
    PROVE  Forward
<1>1. ASSUME NEW e \in tree[d], tree' = [tree EXCEPT ![d] = @ \ {e}],
             UNCHANGED <<dirs, pc, status>>
      PROVE  LessToDo
    <2>1. tree'[d] = tree[d] \ {e} /\ e \in tree[d]
        BY <1>1 DEF TypeOK
    <2>2. tree' # tree
        BY <2>1
    <2>3. \A x \in Dirs : tree'[x] \subseteq tree[x]
        BY <1>1 DEF TypeOK
    <2> QED
        BY <2>2, <2>3 DEF LessToDo, RemoveTree
<1>2. CASE Goto(next)
    BY <1>2 DEF Goto, Calls, Exits, Forward, RemoveTree
<1> QED
    BY <1>1, <1>2 DEF RemoveTree, Forward

LEMMA MovePathForward ==
    ASSUME NEW here, NEW src, NEW dst, NEW next \in Calls, NEW fail,
           MovePath(here, src, dst, next, fail),
           Precedes(here, next), fail \in Calls => Precedes(here, fail)
    PROVE  pc' = "idle" \/ Forward
BY DEF MovePath, Goto, Calls, Exits, Forward

LEMMA WritePartForward ==
    ASSUME NEW here, NEW phase, NEW next \in Calls, NEW fail \in Calls,
           WritePart(here, phase, next, fail),
           Precedes(here, next), Precedes(here, fail)
    PROVE  Forward
BY DEF WritePart, Goto, Calls, Exits, Forward

LEMMA CommitPartForward ==
    ASSUME NEW here, NEW next \in Calls, NEW fail \in Calls,
           CommitPart(here, next, fail),
           Precedes(here, next), Precedes(here, fail)
    PROVE  Forward
BY DEF CommitPart, Goto, Calls, Exits, Forward

LEMMA RemoveStateForward ==
    ASSUME NEW here, NEW next, RemoveState(here, next),
           next \in Calls => Precedes(here, next)
    PROVE  pc' = "idle" \/ Forward
BY DEF RemoveState, Goto, Calls, Exits, Forward

LEMMA ExtractForward == TypeOK /\ ExtractEntry => Forward
<1> SUFFICES ASSUME TypeOK, ExtractEntry PROVE Forward
    OBVIOUS
<1>1. pc = "extract"
    BY DEF ExtractEntry
<1>2. ASSUME NEW f \in todo, todo' = todo \ {f}, UNCHANGED <<pc, status>>
      PROVE  Forward
    BY <1>2 DEF Forward, LessToDo
<1>3. Precedes("extract", "save_extracted")
    BY OrderOf DEF Precedes
<1>4. Precedes("extract", "abort_staging")
    BY OrderOf DEF Precedes
<1>5. CASE Goto("save_extracted") \/ Goto("abort_staging")
    BY <1>1, <1>3, <1>4, <1>5 DEF Goto, Calls, Exits, Forward
<1> QED
    BY <1>2, <1>5 DEF ExtractEntry

LEMMA StepForward == TypeOK /\ Step => pc' = "idle" \/ Forward
<1> SUFFICES ASSUME TypeOK, Step PROVE pc' = "idle" \/ Forward
    OBVIOUS
<1>1. CASE Load
    <2>1. Precedes("load", "wait")
        BY OrderOf DEF Precedes
    <2>2. Precedes("load", "drop_state")
        BY OrderOf DEF Precedes
    <2> QED
        BY <1>1, <2>1, <2>2 DEF Load, Goto, Calls, Exits, Forward
<1>2. CASE WaitForParentExit
    BY <1>2, FirstCalls DEF WaitForParentExit, FirstCall, TypeOK, Resumes,
        Goto, Calls, Exits, Forward
<1>3. CASE OpenArchive
    <2>1. Precedes("open_archive", "extract")
        BY OrderOf DEF Precedes
    <2>2. Precedes("open_archive", "abort_staging")
        BY OrderOf DEF Precedes
    <2> QED
        BY <1>3, <2>1, <2>2 DEF OpenArchive, Goto, Calls, Exits, Forward
<1>4. CASE ExtractEntry
    BY <1>4, ExtractForward
<1>5. CASE Relaunch
    BY <1>5 DEF Relaunch, Goto, Calls, Exits
<1>6. CASE ClearStaging
    <2>1. Precedes("clear_staging", "open_archive")
        BY OrderOf DEF Precedes
    <2> QED
        BY <1>6, <2>1, RemoveTreeForward DEF ClearStaging, Dirs, Calls
<1>7. CASE ClearBackup
    <2>1. Precedes("clear_backup", "swap_out")
        BY OrderOf DEF Precedes
    <2> QED
        BY <1>7, <2>1, RemoveTreeForward DEF ClearBackup, Dirs, Calls
<1>8. CASE DropBackup
    <2>1. Precedes("drop_backup", "finish_state")
        BY OrderOf DEF Precedes
    <2> QED
        BY <1>8, <2>1, RemoveTreeForward DEF DropBackup, Dirs, Calls
<1>9. CASE AbortStaging
    <2>1. Precedes("abort_staging", "abort_state")
        BY OrderOf DEF Precedes
    <2> QED
        BY <1>9, <2>1, RemoveTreeForward DEF AbortStaging, Dirs, Calls
<1>10. CASE RolledStaging
    <2>1. Precedes("rolled_staging", "finish_state")
        BY OrderOf DEF Precedes
    <2> QED
        BY <1>10, <2>1, RemoveTreeForward DEF RolledStaging, Dirs, Calls
<1>11. CASE SwapOut
    <2>1. Precedes("swap_out", "save_backed_up")
        BY OrderOf DEF Precedes
    <2>2. Precedes("swap_out", "abort_staging")
        BY OrderOf DEF Precedes
    <2> QED
        BY <1>11, <2>1, <2>2, MovePathForward DEF SwapOut, Calls
<1>12. CASE SwapIn
    <2>1. Precedes("swap_in", "save_installed")
        BY OrderOf DEF Precedes
    <2>2. Precedes("swap_in", "undo")
        BY OrderOf DEF Precedes
    <2> QED
        BY <1>12, <2>1, <2>2, MovePathForward DEF SwapIn, Calls
<1>13. CASE Undo
    <2>1. Precedes("undo", "abort_staging")
        BY OrderOf DEF Precedes
    <2> QED
        BY <1>13, <2>1, MovePathForward DEF Undo, Calls
<1>14. CASE RollBack
    <2>1. Precedes("roll_back", "rolled_staging")
        BY OrderOf DEF Precedes
    <2> QED
        BY <1>14, <2>1, MovePathForward DEF RollBack, Calls
<1>15. CASE SaveExtracted
    <2>1. Precedes("save_extracted", "commit_extracted")
        BY OrderOf DEF Precedes
    <2>2. Precedes("save_extracted", "abort_staging")
        BY OrderOf DEF Precedes
    <2>3. Precedes("commit_extracted", "clear_backup")
        BY OrderOf DEF Precedes
    <2>4. Precedes("commit_extracted", "abort_staging")
        BY OrderOf DEF Precedes
    <2> QED
        BY <1>15, <2>1, <2>2, <2>3, <2>4, WritePartForward,
           CommitPartForward DEF SaveExtracted, Calls
<1>16. CASE SaveBackedUp
    <2>1. Precedes("save_backed_up", "commit_backed_up")
        BY OrderOf DEF Precedes
    <2>2. Precedes("save_backed_up", "undo")
        BY OrderOf DEF Precedes
    <2>3. Precedes("commit_backed_up", "swap_in")
        BY OrderOf DEF Precedes
    <2>4. Precedes("commit_backed_up", "undo")
        BY OrderOf DEF Precedes
    <2> QED
        BY <1>16, <2>1, <2>2, <2>3, <2>4, WritePartForward,
           CommitPartForward DEF SaveBackedUp, Calls
<1>17. CASE SaveInstalled
    <2>1. Precedes("save_installed", "commit_installed")
        BY OrderOf DEF Precedes
    <2>2. Precedes("save_installed", "drop_backup")
        BY OrderOf DEF Precedes
    <2>3. Precedes("commit_installed", "drop_backup")
        BY OrderOf DEF Precedes
    <2> QED
        BY <1>17, <2>1, <2>2, <2>3, WritePartForward,
           CommitPartForward DEF SaveInstalled, Calls
<1>18. CASE DropState
    <2>1. Precedes("drop_state", "wait")
        BY OrderOf DEF Precedes
    <2> QED
        BY <1>18, <2>1, RemoveStateForward DEF DropState
<1>19. CASE FinishState
    <2>1. Precedes("finish_state", "relaunch")
        BY OrderOf DEF Precedes
    <2> QED
        BY <1>19, <2>1, RemoveStateForward DEF FinishState
<1>20. CASE AbortState
    BY <1>20, RemoveStateForward DEF AbortState, Calls
<1> QED
    BY <1>1, <1>2, <1>3, <1>4, <1>5, <1>6, <1>7, <1>8, <1>9, <1>10, <1>11, <1>12, <1>13, <1>14, <1>15, <1>16, <1>17, <1>18, <1>19, <1>20
    DEF Step

\* Whatever fails and whatever it finds, a run goes through its calls in one
\* direction, and is done with each one after finitely many steps
\* (main.c:151-263).
THEOREM RunsOnlyForward == Spec => RunsForward
<1>1. ASSUME TypeOK, [Next]_vars, pc # "idle", pc' # "idle"
      PROVE  Forward \/ UNCHANGED vars
    <2>1. CASE Step
        BY <1>1, <2>1, StepForward
    <2>2. CASE ParentExit
        BY <2>2 DEF ParentExit, disk, Forward, LessToDo
    <2>3. ~Crash
        BY <1>1 DEF Crash, Goto, Calls, Exits
    <2>4. \A p \in Packages : ~Launch(p)
        BY <1>1 DEF Launch
    <2> QED
        BY <1>1, <2>1, <2>2, <2>3, <2>4 DEF Next
<1>2. TypeOK /\ [Next]_vars =>
        [pc # "idle" /\ pc' # "idle" =>
            Precedes(pc, pc') \/ (pc' = pc /\ LessToDo)]_vars
    BY <1>1 DEF Forward
<1> QED
    BY <1>2, TypeCorrect, PTL DEF Spec, RunsForward

(***************************************************************************)
(* No tree is mixed.  The invariant says why the removal that ignores its  *)
(* result is enough: where nothing fails to be removed, the extraction     *)
(* starts from an empty directory, and renames move whole directories.     *)
(***************************************************************************)
MInv ==
    /\ \A d \in Dirs \ dirs : tree[d] = {}
    /\ \A d \in Dirs : OneVersion(tree[d])
    /\ pc = "open_archive" => tree["staging"] = {}
    /\ pc = "extract" => \A e \in tree["staging"] : e[2] = pkg

LEMMA RemoveTreeMixed ==
    ASSUME TypeOK, MInv, "remove" \notin Faults, NEW here, NEW d \in Dirs,
           NEW next, RemoveTree(here, d, next),
           here \notin {"open_archive", "extract"},
           next = "open_archive" => d = "staging", next # "extract"
    PROVE  MInv'
<1> USE DEF RemoveTree, MInv, args, Goto
<1>1. ASSUME NEW e \in tree[d], tree' = [tree EXCEPT ![d] = @ \ {e}],
             UNCHANGED <<dirs, pc, status>>
      PROVE  MInv'
    BY <1>1 DEF TypeOK, OneVersion
<1>2. CASE dirs' = dirs \ {d} /\ tree[d] = {} /\ UNCHANGED tree /\ Goto(next)
    BY <1>2 DEF TypeOK
<1>3. CASE d \notin dirs /\ UNCHANGED <<dirs, tree>> /\ Goto(next)
    BY <1>3 DEF TypeOK
<1> QED
    BY <1>1, <1>2, <1>3

LEMMA MovePathMixed ==
    ASSUME TypeOK, MInv, NEW here, NEW src \in Dirs, NEW dst \in Dirs,
           src # dst, NEW next, NEW fail,
           MovePath(here, src, dst, next, fail),
           {next, fail} \cap {"open_archive", "extract"} = {}
    PROVE  MInv'
<1>1. pc' \notin {"open_archive", "extract"}
    BY DEF MovePath, Goto
<1>2. CASE UNCHANGED <<dirs, tree>>
    BY <1>1, <1>2 DEF MInv, OneVersion
<1>3. CASE /\ dirs' = (dirs \ {src}) \cup {dst}
           /\ tree' = [tree EXCEPT ![dst] = tree[src], ![src] = {}]
    <2>1. \A d \in Dirs \ dirs' : tree'[d] = {}
        BY <1>3 DEF TypeOK, MInv
    <2>2. \A d \in Dirs : OneVersion(tree'[d])
        BY <1>3 DEF TypeOK, MInv, OneVersion
    <2> QED
        BY <1>1, <2>1, <2>2 DEF MInv, OneVersion
<1> QED
    BY <1>2, <1>3 DEF MovePath

LEMMA ExtractMixed == TypeOK /\ MInv /\ ExtractEntry => MInv'
<1> SUFFICES ASSUME TypeOK, MInv, ExtractEntry PROVE MInv'
    OBVIOUS
<1>1. CASE UNCHANGED <<dirs, tree>> /\ pc' # "extract" /\ pc' # "open_archive"
    BY <1>1 DEF MInv, OneVersion
<1>2. CASE UNCHANGED <<dirs, tree>> /\ ~(pc' # "extract" /\ pc' # "open_archive")
    BY <1>2 DEF ExtractEntry, MInv, Goto, Calls, Exits, args, OneVersion
<1>3. ASSUME NEW f \in todo,
             dirs' = dirs \cup {"staging"},
             tree' = [tree EXCEPT !["staging"] =
                         {e \in @ : e[1] # f} \cup {<<f, pkg>>}],
             UNCHANGED <<pc, status>>
      PROVE  MInv'
    <2>1. "staging" \in Dirs /\ pc = "extract" /\ pkg' = pkg
        BY DEF Dirs, ExtractEntry, args
    <2>2. tree'["staging"] = {e \in tree["staging"] : e[1] # f} \cup {<<f, pkg>>}
        BY <1>3, <2>1 DEF TypeOK
    <2>3. \A e \in tree'["staging"] : e[2] = pkg
        BY <2>1, <2>2 DEF MInv
    <2>4. OneVersion(tree'["staging"])
        BY <2>3 DEF OneVersion
    <2>5. \A d \in Dirs : d # "staging" => tree'[d] = tree[d]
        BY <1>3 DEF TypeOK
    <2> QED
        BY <1>3, <2>1, <2>3, <2>4, <2>5 DEF MInv, OneVersion
<1> QED
    BY <1>1, <1>2, <1>3 DEF ExtractEntry

LEMMA NextMixed ==
    ASSUME TypeOK, MInv, [Next]_vars, "remove" \notin Faults
    PROVE  MInv'
<1> USE DEF Goto, Calls, Exits, Dirs, args, disk
<1>1. ASSUME NEW p \in Packages, Launch(p) PROVE MInv'
    BY <1>1 DEF Launch, MInv, OneVersion
<1>2. CASE Load
    BY <1>2 DEF Load, MInv, OneVersion
<1>3. CASE DropState \/ FinishState \/ AbortState
    BY <1>3 DEF DropState, FinishState, AbortState, RemoveState, MInv,
        OneVersion
<1>4. CASE WaitForParentExit
    <2>1. FirstCall \notin {"open_archive", "extract"} \/ resume \notin Resumes
        BY DEF FirstCall, Resumes
    <2> QED
        BY <1>4, <2>1 DEF WaitForParentExit, MInv, OneVersion, TypeOK
<1>5. CASE ClearStaging
    BY <1>5, RemoveTreeMixed DEF ClearStaging
<1>6. CASE OpenArchive
    BY <1>6 DEF OpenArchive, MInv, OneVersion
<1>7. CASE ExtractEntry
    BY <1>7, ExtractMixed
<1>8. CASE SaveExtracted \/ SaveBackedUp \/ SaveInstalled
    BY <1>8 DEF SaveExtracted, SaveBackedUp, SaveInstalled, WritePart,
        CommitPart, MInv, OneVersion
<1>9. CASE ClearBackup
    BY <1>9, RemoveTreeMixed DEF ClearBackup
<1>10. CASE DropBackup
    BY <1>10, RemoveTreeMixed DEF DropBackup
<1>11. CASE AbortStaging
    BY <1>11, RemoveTreeMixed DEF AbortStaging
<1>12. CASE RolledStaging
    BY <1>12, RemoveTreeMixed DEF RolledStaging
<1>13. CASE SwapOut
    BY <1>13, MovePathMixed DEF SwapOut
<1>14. CASE SwapIn
    BY <1>14, MovePathMixed DEF SwapIn
<1>15. CASE Undo
    BY <1>15, MovePathMixed DEF Undo
<1>16. CASE RollBack
    BY <1>16, MovePathMixed DEF RollBack
<1>17. CASE Relaunch
    BY <1>17 DEF Relaunch, MInv, OneVersion
<1>18. CASE ParentExit
    BY <1>18 DEF ParentExit, MInv, OneVersion
<1>19. CASE Crash
    BY <1>19 DEF Crash, MInv, OneVersion
<1>20. CASE UNCHANGED vars
    BY <1>20 DEF vars, MInv, OneVersion
<1> QED
    BY <1>1, <1>2, <1>3, <1>4, <1>5, <1>6, <1>7, <1>8, <1>9, <1>10, <1>11,
       <1>12, <1>13, <1>14, <1>15, <1>16, <1>17, <1>18, <1>19, <1>20
    DEF Next, Step

\* Where removals succeed, no installed tree has files of two packages,
\* however many runs of however many packages were killed and whatever the
\* state file says (main.c:213-214).
THEOREM NeverMixed ==
    ASSUME "remove" \notin Faults
    PROVE  Spec => []NoMixedInstall
<1>1. Init => MInv
    BY DEF Init, MInv, OneVersion, OldTree, Dirs
<1>2. TypeOK /\ MInv /\ [Next]_vars => MInv'
    BY NextMixed
<1>3. MInv => NoMixedInstall
    BY DEF MInv, NoMixedInstall, Dirs
<1> QED
    BY <1>1, <1>2, <1>3, TypeCorrect, PTL DEF Spec

(***************************************************************************)
(* The application is never lost, when every run is given the same package *)
(* path and the state file can be read.  The invariant says what the       *)
(* recovery relies on: whenever the install directory is away, the backup  *)
(* and a state file of this package are there, and the process is at one   *)
(* of the calls that know it.                                              *)
(***************************************************************************)
SamePackage == \A p, q \in Packages : p = q

AwayCalls == {"save_backed_up", "commit_backed_up", "swap_in", "undo", "roll_back"}
AwayResumes == {"rollback", "post_backup"}

CInv ==
    /\ "install" \notin dirs =>
          /\ "backup" \in dirs
          /\ saved # NoFile
          /\ pc \in AwayCalls \cup {"idle", "load", "wait"}
          /\ pc = "wait" => resume \in AwayResumes
    /\ pc \in AwayCalls => "install" \notin dirs
    /\ pc = "wait" /\ resume \in AwayResumes => "install" \notin dirs
    /\ pc \in {"clear_backup", "swap_out"} => saved # NoFile
    /\ pc # "drop_state"

\* A removal never reaches the tree in use, because it never happens while
\* that tree is the backup.
LEMMA RemoveTreeCopy ==
    ASSUME TypeOK, CInv, NEW here, NEW d \in {"staging", "backup"}, NEW next,
           here \notin AwayCalls \cup {"idle", "load", "wait"},
           next \notin AwayCalls \cup {"wait", "clear_backup", "drop_state"},
           next = "swap_out" => here = "clear_backup",
           RemoveTree(here, d, next)
    PROVE  CInv' /\ Current' = Current
<1>1. "install" \in dirs /\ "install" \in dirs'
    BY DEF CInv, RemoveTree
<1>2. tree'["install"] = tree["install"]
    BY DEF TypeOK, Dirs, RemoveTree
<1>3. pc' = pc \/ pc' = next \/ pc' = "idle"
    BY DEF RemoveTree, Goto
<1> QED
    BY <1>1, <1>2, <1>3 DEF CInv, Current, RemoveTree, AwayCalls

LEMMA WaitCopy ==
    ASSUME TypeOK, CInv, WaitForParentExit
    PROVE  CInv'
<1>1. CASE Goto(FirstCall)
    BY <1>1 DEF WaitForParentExit, CInv, TypeOK, Goto, Calls, Exits, disk,
        FirstCall, Resumes, AwayCalls, AwayResumes
<1>2. CASE Goto("error")
    BY <1>2 DEF WaitForParentExit, CInv, Goto, Calls, Exits, disk, AwayCalls
<1> QED
    BY <1>1, <1>2 DEF WaitForParentExit

LEMMA LoadCopy ==
    ASSUME TypeOK, CInv, SamePackage, "load" \notin Faults, Load
    PROVE  CInv'
<1>1. saved # NoFile => saved.package = pkg
    BY DEF TypeOK, StateRec, SamePackage
<1>2. CASE saved = NoFile
    BY <1>1, <1>2 DEF Load, CInv, Goto, Calls, Exits, disk, AwayCalls,
        AwayResumes
<1>3. CASE saved # NoFile
    <2>1. pc' = "wait" /\ resume' = DetermineResume(saved.phase)
        BY <1>1, <1>3 DEF Load, Goto, Calls, Exits
    <2>2. "install" \notin dirs /\ "backup" \in dirs =>
              DetermineResume(saved.phase) \in AwayResumes
        BY DEF TypeOK, Dirs, DetermineResume, AwayResumes
    <2>3. DetermineResume(saved.phase) \in AwayResumes =>
              "install" \notin dirs
        BY DEF DetermineResume, AwayResumes
    <2> QED
        BY <1>3, <2>1, <2>2, <2>3 DEF Load, CInv, disk, AwayCalls
<1> QED
    BY <1>2, <1>3

LEMMA NextCopy ==
    ASSUME TypeOK, CInv, [Next]_vars, SamePackage, "load" \notin Faults
    PROVE  /\ CInv'
           /\ Current' # Current =>
                  "staging" \in dirs /\ Current' = tree["staging"]
           /\ SwapIn \/ Current' = Current
<1> USE DEF Goto, Calls, Exits, AwayCalls, AwayResumes, args, disk
<1>1. ASSUME NEW p \in Packages, Launch(p)
      PROVE  CInv' /\ UNCHANGED Current
    BY <1>1 DEF Launch, CInv, Current
<1>2. CASE Load
    BY <1>2, LoadCopy DEF Load, Current
<1>3. CASE DropState \/ FinishState \/ AbortState
    BY <1>3 DEF DropState, FinishState, AbortState, RemoveState, CInv, Current
<1>4. CASE WaitForParentExit
    BY <1>4, WaitCopy DEF WaitForParentExit, Current
<1>5. CASE OpenArchive
    BY <1>5 DEF OpenArchive, CInv, Current
<1>6. CASE ExtractEntry
    <2>1. "install" \in dirs /\ "install" \in dirs'
        BY <1>6 DEF ExtractEntry, CInv
    <2>2. tree'["install"] = tree["install"]
        BY <1>6 DEF ExtractEntry, TypeOK, Dirs
    <2>3. pc' \in {"extract", "save_extracted", "abort_staging"}
        BY <1>6 DEF ExtractEntry
    <2> QED
        BY <1>6, <2>1, <2>2, <2>3 DEF CInv, Current
<1>7. CASE SaveExtracted \/ SaveBackedUp \/ SaveInstalled
    BY <1>7 DEF SaveExtracted, SaveBackedUp, SaveInstalled, WritePart,
        CommitPart, CInv, Current
<1>8. CASE ClearStaging
    BY <1>8, RemoveTreeCopy DEF ClearStaging
<1>9. CASE ClearBackup
    BY <1>9, RemoveTreeCopy DEF ClearBackup
<1>10. CASE DropBackup
    BY <1>10, RemoveTreeCopy DEF DropBackup
<1>11. CASE AbortStaging
    BY <1>11, RemoveTreeCopy DEF AbortStaging
<1>12. CASE RolledStaging
    BY <1>12, RemoveTreeCopy DEF RolledStaging
<1>13. CASE SwapOut
    BY <1>13 DEF SwapOut, MovePath, CInv, Current, TypeOK, Dirs
<1>14. CASE SwapIn
    BY <1>14 DEF SwapIn, MovePath, CInv, Current, TypeOK, Dirs
<1>15. CASE Undo \/ RollBack
    BY <1>15 DEF Undo, RollBack, MovePath, CInv, Current, TypeOK, Dirs
<1>16. CASE Relaunch
    BY <1>16 DEF Relaunch, CInv, Current
<1>17. CASE ParentExit
    BY <1>17 DEF ParentExit, CInv, Current
<1>18. CASE Crash
    BY <1>18 DEF Crash, CInv, Current
<1>19. CASE UNCHANGED vars
    BY <1>19 DEF vars, CInv, Current
<1> QED
    BY <1>1, <1>2, <1>3, <1>4, <1>5, <1>6, <1>7, <1>8, <1>9, <1>10, <1>11,
       <1>12, <1>13, <1>14, <1>15, <1>16, <1>17, <1>18, <1>19
    DEF Next, Step

\* Runs for one package path, killed and failing any number of times, never
\* leave the machine without the application: every call but the reading of
\* the state file may fail (main.c:151-263).
THEOREM NeverLost ==
    ASSUME SamePackage, "load" \notin Faults
    PROVE  Spec => []AlwaysACopy
<1>1. Init => CInv
    BY DEF Init, CInv, AwayCalls
<1>2. TypeOK /\ CInv /\ [Next]_vars => CInv'
    BY NextCopy
<1>3. CInv => AlwaysACopy
    BY DEF CInv, AlwaysACopy
<1> QED
    BY <1>1, <1>2, <1>3, TypeCorrect, PTL DEF Spec

\* Under the same conditions the tree in use changes by the promotion of the
\* staging directory and by nothing else (main.c:194, main.c:245).
THEOREM OnlyPromoted ==
    ASSUME SamePackage, "load" \notin Faults
    PROVE  Spec => OnlyPromotion
<1>1. Init => CInv
    BY DEF Init, CInv, AwayCalls
<1>2. TypeOK /\ CInv /\ [Next]_vars => CInv'
    BY NextCopy
<1>3. TypeOK /\ CInv /\ [Next]_vars =>
          (Current' # Current =>
              "staging" \in dirs /\ Current' = tree["staging"])
    BY NextCopy
<1> QED
    BY <1>1, <1>2, <1>3, TypeCorrect, PTL DEF Spec, OnlyPromotion

(***************************************************************************)
(* A success leaves nothing behind.  Each way to the end of a run has its  *)
(* own reason why only the install directory is left.                      *)
(***************************************************************************)
EInv ==
    /\ pc = "drop_state" => resume = "full"
    /\ pc = "wait" /\ resume = "post_install" => dirs = {"install", "backup"}
    /\ pc \in {"save_installed", "commit_installed", "drop_backup"} =>
          "install" \in dirs /\ "staging" \notin dirs
    /\ pc = "rolled_staging" => "install" \in dirs /\ "backup" \notin dirs
    /\ pc \in {"finish_state", "relaunch"} => dirs = {"install"}
    /\ pc = "relaunch" => saved = NoFile
    /\ status = "ok" => pc = "idle" /\ dirs = {"install"} /\ saved = NoFile

LEMMA NextClean ==
    ASSUME TypeOK, EInv, [Next]_vars, "remove" \notin Faults
    PROVE  EInv'
<1> USE DEF Goto, Calls, Exits, Dirs, args, disk, EInv
<1>1. ASSUME NEW p \in Packages, Launch(p) PROVE EInv'
    BY <1>1 DEF Launch
<1>2. CASE Load
    BY <1>2 DEF Load, DetermineResume
<1>3. CASE DropState \/ FinishState \/ AbortState
    BY <1>3 DEF DropState, FinishState, AbortState, RemoveState
<1>4. CASE WaitForParentExit
    BY <1>4 DEF WaitForParentExit, FirstCall, TypeOK, Resumes
<1>5. CASE OpenArchive
    BY <1>5 DEF OpenArchive
<1>6. CASE ExtractEntry
    BY <1>6 DEF ExtractEntry
<1>7. CASE SaveExtracted \/ SaveBackedUp \/ SaveInstalled
    BY <1>7 DEF SaveExtracted, SaveBackedUp, SaveInstalled, WritePart,
        CommitPart
<1>8. CASE ClearStaging \/ ClearBackup \/ AbortStaging
    BY <1>8 DEF ClearStaging, ClearBackup, AbortStaging, RemoveTree
<1>9. CASE DropBackup
    BY <1>9 DEF DropBackup, RemoveTree, TypeOK
<1>10. CASE RolledStaging
    BY <1>10 DEF RolledStaging, RemoveTree, TypeOK
<1>11. CASE SwapOut \/ SwapIn \/ Undo \/ RollBack
    BY <1>11 DEF SwapOut, SwapIn, Undo, RollBack, MovePath
<1>12. CASE Relaunch
    BY <1>12 DEF Relaunch
<1>13. CASE ParentExit \/ Crash
    BY <1>13 DEF ParentExit, Crash
<1>14. CASE UNCHANGED vars
    BY <1>14 DEF vars
<1> QED
    BY <1>1, <1>2, <1>3, <1>4, <1>5, <1>6, <1>7, <1>8, <1>9, <1>10, <1>11,
       <1>12, <1>13, <1>14 DEF Next, Step

\* Where removals succeed, a run that reports success leaves the install
\* directory and nothing else: no staging, no backup and no state file that a
\* later run could misread (main.c:176-182, 185-191, 256-263).
THEOREM SuccessIsClean ==
    ASSUME "remove" \notin Faults
    PROVE  Spec => []CleanExit
<1>1. Init => EInv
    BY DEF Init, EInv
<1>2. TypeOK /\ EInv /\ [Next]_vars => EInv'
    BY NextClean
<1>3. EInv => CleanExit
    BY DEF EInv, CleanExit
<1> QED
    BY <1>1, <1>2, <1>3, TypeCorrect, PTL DEF Spec

(***************************************************************************)
(* Runs of one package that are killed at most three times between two     *)
(* successes implement the atomic installation, for every content of the   *)
(* old tree and of the package.                                            *)
(*                                                                         *)
(* The invariant follows the files through the calls.  What makes it hold  *)
(* is how many kills it takes to see a state file that still says          *)
(* "extracted" at a later stage: one to be past the renaming of the        *)
(* install directory, two to be past the promotion, three to meet it with  *)
(* nothing but the install directory left.  The run after that extracts    *)
(* again under that state file, and it takes a fourth kill, which the      *)
(* environment does not have, for the next run to trust what is there.     *)
(***************************************************************************)
Tidy == \A d \in Dirs \ dirs : tree[d] = {}
Whole(d) == d \in dirs /\ tree[d] = PkgTree(pkg)
Stale(n) == saved # NoFile /\ saved.phase = "extracted" => kills >= n

\* Before the swap: the install directory is there and the backup is not.
Before == "install" \in dirs /\ "backup" \notin dirs
\* In the middle of it.
Middle == dirs = {"staging", "backup"} /\ Whole("staging") /\ saved # NoFile
\* After it: the backup may be partly removed.
After == dirs = {"install", "backup"} /\ Whole("install") /\ saved # NoFile

\* What a run finds.
Rest ==
    \/ /\ Before
       /\ \/ Stale(4)
          \/ Whole("staging")
          \/ "staging" \notin dirs /\ Stale(3)
    \/ Middle /\ Stale(1)
    \/ After /\ Stale(2)

Written(phase) == part = [phase |-> phase, package |-> pkg]

KInv ==
    /\ kills \in 0 .. 3
    /\ pc # "idle" => status = "none"
    /\ status = "ok" => saved = NoFile
    /\ Tidy
    /\ pc \in {"idle", "load", "wait"} => Rest
    /\ pc = "wait" =>
          resume = IF saved = NoFile THEN "full"
                                     ELSE DetermineResume(saved.phase)
    /\ pc \in {"clear_staging", "abort_staging", "abort_state"} =>
          Before /\ Stale(3)
    /\ pc = "open_archive" => Before /\ Stale(3) /\ tree["staging"] = {}
    /\ pc = "extract" =>
          /\ Before
          /\ Stale(3)
          /\ "staging" \in dirs
          /\ todo \subseteq PkgFiles[pkg]
          /\ tree["staging"] = {<<f, pkg>> : f \in PkgFiles[pkg] \ todo}
    /\ pc \in {"save_extracted", "commit_extracted", "clear_backup", "swap_out"}
          => Before /\ Whole("staging")
    /\ pc = "commit_extracted" => Written("extracted")
    /\ pc \in {"clear_backup", "swap_out"} => saved # NoFile
    /\ pc \in {"save_backed_up", "commit_backed_up"} => Middle
    /\ pc = "commit_backed_up" => Written("install_backed_up")
    /\ pc = "swap_in" => Middle /\ Stale(1)
    /\ pc \in {"save_installed", "commit_installed"} => After /\ Stale(1)
    /\ pc = "commit_installed" => Written("installed")
    /\ pc = "drop_backup" => After /\ Stale(2)
    /\ pc \in {"finish_state", "relaunch"} =>
          dirs = {"install"} /\ Whole("install") /\ Stale(2)
    /\ pc = "relaunch" => saved = NoFile
    /\ pc \notin {"drop_state", "undo", "roll_back", "rolled_staging"}

(***************************************************************************)
(* Calls that may fail without being the end of atomicity: extracting,     *)
(* building the path of the application, starting it.                      *)
(***************************************************************************)
Gentle == Faults \cap {"load", "save", "move", "remove"} = {}

LEMMA CountKeeps ==
    ASSUME KInv, Count, MaxKills <= 3, status' \notin {"ok", "crashed"}
    PROVE  kills' = kills
BY DEF KInv, Count

LEMMA CountKill ==
    ASSUME KInv, Count, MaxKills <= 3, status' = "crashed", pc # "idle"
    PROVE  kills' = kills + 1 /\ kills' \in 0 .. 3
BY MaxKillsAssumption DEF KInv, Count

\* A step of a run that ends in no exit does not change the count.
LEMMA GotoKeeps ==
    ASSUME KInv, Count, MaxKills <= 3, pc # "idle",
           NEW l \in Calls \cup {"error"}, Goto(l)
    PROVE  /\ kills' = kills
           /\ l \in Calls => pc' = l /\ status' = "none"
           /\ l = "error" => pc' = "idle" /\ status' = "error"
<1>1. l \in Calls => pc' = l /\ status' = "none"
    BY DEF Goto, KInv, Calls, Exits
<1>2. l = "error" => pc' = "idle" /\ status' = "error"
    BY DEF Goto, Calls, Exits
<1> QED
    BY <1>1, <1>2, CountKeeps

LEMMA LoadAtomic ==
    ASSUME TypeOK, KInv, SamePackage, Gentle, MaxKills <= 3, Load, Count
    PROVE  KInv'
<1>1. saved # NoFile => saved.package = pkg
    BY DEF TypeOK, StateRec, SamePackage
<1>2. /\ pc = "load"
      /\ Goto("wait")
      /\ resume' = IF saved = NoFile THEN "full"
                                     ELSE DetermineResume(saved.phase)
      /\ UNCHANGED <<disk, args, todo>>
    BY <1>1 DEF Load, Gentle
<1>3. pc' = "wait" /\ status' = "none" /\ kills' = kills
    BY <1>2, GotoKeeps DEF Calls
<1>4. Rest' /\ Tidy'
    BY <1>2, <1>3 DEF KInv, Rest, Before, Middle, After, Whole, Stale, Tidy,
        disk, args
<1>5. DetermineResume(saved.phase)' = DetermineResume(saved.phase)
    BY <1>2 DEF disk, DetermineResume
<1> QED
    BY <1>2, <1>3, <1>4, <1>5 DEF KInv, disk

LEMMA WaitAtomic ==
    ASSUME TypeOK, KInv, MaxKills <= 3, WaitForParentExit, Count
    PROVE  KInv'
<1>1. /\ pc = "wait"
      /\ UNCHANGED <<disk, args, resume, todo>>
      /\ Rest
    BY DEF WaitForParentExit, KInv
<1>2. Tidy'
    BY <1>1 DEF KInv, Tidy, disk
<1>3. CASE Goto("error")
    <2>1. pc' = "idle" /\ status' = "error" /\ kills' = kills
        BY <1>1, <1>3, GotoKeeps
    <2>2. Rest'
        BY <1>1, <2>1 DEF Rest, Before, Middle, After, Whole, Stale, disk, args
    <2> QED
        BY <1>1, <1>2, <2>1, <2>2 DEF KInv
<1>4. CASE Goto(FirstCall) /\ Before
    <2>1. \/ resume = "full" /\ Stale(3)
          \/ resume = "post_extract" /\ Whole("staging")
        BY <1>1, <1>4 DEF KInv, Rest, Before, Middle, After, Whole, Stale,
            DetermineResume
    <2>2. CASE resume = "full" /\ Stale(3)
        <3>1. pc' = "clear_staging" /\ status' = "none" /\ kills' = kills
            BY <1>1, <1>4, <2>2, GotoKeeps DEF FirstCall, Calls
        <3> QED
            BY <1>1, <1>2, <1>4, <2>2, <3>1 DEF KInv, Before, Stale, disk
    <2>3. CASE resume = "post_extract" /\ Whole("staging")
        <3>1. pc' = "save_extracted" /\ status' = "none" /\ kills' = kills
            BY <1>1, <1>4, <2>3, GotoKeeps DEF FirstCall, Calls
        <3> QED
            BY <1>1, <1>2, <1>4, <2>3, <3>1 DEF KInv, Before, Whole, disk, args
    <2> QED
        BY <2>1, <2>2, <2>3
<1>5. CASE Goto(FirstCall) /\ Middle /\ Stale(1)
    <2>1. resume = "post_backup"
        BY <1>1, <1>5 DEF KInv, Middle, DetermineResume
    <2>2. pc' = "swap_in" /\ status' = "none" /\ kills' = kills
        BY <1>1, <1>5, <2>1, GotoKeeps DEF FirstCall, Calls
    <2> QED
        BY <1>1, <1>2, <1>5, <2>2 DEF KInv, Middle, Whole, Stale, disk, args
<1>6. CASE Goto(FirstCall) /\ After /\ Stale(2)
    <2>1. resume = "post_install"
        BY <1>1, <1>6 DEF KInv, After, DetermineResume
    <2>2. pc' = "drop_backup" /\ status' = "none" /\ kills' = kills
        BY <1>1, <1>6, <2>1, GotoKeeps DEF FirstCall, Calls
    <2> QED
        BY <1>1, <1>2, <1>6, <2>2 DEF KInv, After, Whole, Stale, disk, args
<1> QED
    BY <1>1, <1>3, <1>4, <1>5, <1>6 DEF WaitForParentExit, Rest

(***************************************************************************)
(* Removing a tree, one entry at a time.                                   *)
(***************************************************************************)
Removes(here, d, next) ==
    /\ kills' = kills
    /\ status' = "none"
    /\ Tidy'
    /\ \A x \in Dirs \ {d} : (x \in dirs' <=> x \in dirs) /\ tree'[x] = tree[x]
    /\ dirs' \subseteq dirs
    /\ UNCHANGED <<saved, part, pkg, resume, todo>>
    /\ \/ pc' = here /\ dirs' = dirs
       \/ pc' = next /\ d \notin dirs' /\ tree'[d] = {}

LEMMA RemoveTreeAtomic ==
    ASSUME TypeOK, KInv, Gentle, MaxKills <= 3, Count, pc # "idle",
           NEW here, NEW d \in Dirs, NEW next \in Calls,
           RemoveTree(here, d, next)
    PROVE  Removes(here, d, next)
<1> USE DEF RemoveTree, Removes, args
<1>1. ASSUME NEW e \in tree[d], tree' = [tree EXCEPT ![d] = @ \ {e}],
             UNCHANGED <<dirs, pc, status>>
      PROVE  Removes(here, d, next)
    <2>1. status' = "none" /\ kills' = kills
        BY <1>1, CountKeeps DEF KInv
    <2>2. \A x \in Dirs \ {d} : tree'[x] = tree[x]
        BY <1>1 DEF TypeOK
    <2>3. d \in dirs
        BY <1>1 DEF KInv, Tidy
    <2> QED
        BY <1>1, <2>1, <2>2, <2>3 DEF KInv, Tidy
<1>2. CASE d \in dirs /\ dirs' = dirs \ {d} /\ tree[d] = {}
           /\ UNCHANGED tree /\ Goto(next)
    BY <1>2, GotoKeeps DEF KInv, Tidy
<1>3. CASE d \notin dirs /\ UNCHANGED <<dirs, tree>> /\ Goto(next)
    BY <1>3, GotoKeeps DEF KInv, Tidy
<1> QED
    BY <1>1, <1>2, <1>3 DEF Gentle

LEMMA ClearStagingAtomic ==
    ASSUME TypeOK, KInv, Gentle, MaxKills <= 3, Count, ClearStaging
    PROVE  KInv'
<1>1. pc = "clear_staging" /\ RemoveTree("clear_staging", "staging", "open_archive")
    BY DEF ClearStaging, RemoveTree
<1>2. "staging" \in Dirs /\ "open_archive" \in Calls
    BY DEF Dirs, Calls
<1>3. Removes("clear_staging", "staging", "open_archive")
    BY <1>1, <1>2, RemoveTreeAtomic
<1> QED
    BY <1>1, <1>3 DEF Removes, KInv, Before, Stale, Dirs

LEMMA ClearBackupAtomic ==
    ASSUME TypeOK, KInv, Gentle, MaxKills <= 3, Count, ClearBackup
    PROVE  KInv'
<1>1. pc = "clear_backup" /\ RemoveTree("clear_backup", "backup", "swap_out")
    BY DEF ClearBackup, RemoveTree
<1>2. "backup" \in Dirs /\ "swap_out" \in Calls
    BY DEF Dirs, Calls
<1>3. Removes("clear_backup", "backup", "swap_out")
    BY <1>1, <1>2, RemoveTreeAtomic
<1> QED
    BY <1>1, <1>3 DEF Removes, KInv, Before, Whole, Dirs

LEMMA DropBackupAtomic ==
    ASSUME TypeOK, KInv, Gentle, MaxKills <= 3, Count, DropBackup
    PROVE  KInv'
<1>1. pc = "drop_backup" /\ RemoveTree("drop_backup", "backup", "finish_state")
    BY DEF DropBackup, RemoveTree
<1>2. "backup" \in Dirs /\ "finish_state" \in Calls
    BY DEF Dirs, Calls
<1>3. Removes("drop_backup", "backup", "finish_state")
    BY <1>1, <1>2, RemoveTreeAtomic
<1> QED
    BY <1>1, <1>3 DEF Removes, KInv, After, Whole, Stale, Dirs

LEMMA AbortStagingAtomic ==
    ASSUME TypeOK, KInv, Gentle, MaxKills <= 3, Count, AbortStaging
    PROVE  KInv'
<1>1. pc = "abort_staging" /\ RemoveTree("abort_staging", "staging", "abort_state")
    BY DEF AbortStaging, RemoveTree
<1>2. "staging" \in Dirs /\ "abort_state" \in Calls
    BY DEF Dirs, Calls
<1>3. Removes("abort_staging", "staging", "abort_state")
    BY <1>1, <1>2, RemoveTreeAtomic
<1> QED
    BY <1>1, <1>3 DEF Removes, KInv, Before, Stale, Dirs

(***************************************************************************)
(* Extracting.                                                             *)
(***************************************************************************)
LEMMA OpenArchiveAtomic ==
    ASSUME TypeOK, KInv, MaxKills <= 3, Count, OpenArchive
    PROVE  KInv'
<1>1. /\ pc = "open_archive"
      /\ UNCHANGED <<tree, saved, part, pkg, resume>>
      /\ Before /\ Stale(3) /\ tree["staging"] = {}
    BY DEF OpenArchive, args, KInv
<1>2. dirs' \in {dirs, dirs \cup {"staging"}}
    BY DEF OpenArchive
<1>3. Before' /\ Tidy'
    BY <1>1, <1>2 DEF Before, Tidy, KInv
<1>4. CASE /\ dirs' = dirs \cup {"staging"}
           /\ todo' = PkgFiles[pkg]
           /\ Goto("extract")
    <2>1. pc' = "extract" /\ status' = "none" /\ kills' = kills
        BY <1>1, <1>4, GotoKeeps DEF Calls
    <2>2. tree'["staging"] = {<<f, pkg>> : f \in PkgFiles[pkg] \ todo'}
        BY <1>1, <1>4
    <2> QED
        BY <1>1, <1>3, <1>4, <2>1, <2>2 DEF KInv, Stale
<1>5. CASE Goto("abort_staging")
    <2>1. pc' = "abort_staging" /\ status' = "none" /\ kills' = kills
        BY <1>1, <1>5, GotoKeeps DEF Calls
    <2> QED
        BY <1>1, <1>3, <2>1 DEF KInv, Stale
<1> QED
    BY <1>4, <1>5 DEF OpenArchive

LEMMA ExtractEntryAtomic ==
    ASSUME TypeOK, KInv, MaxKills <= 3, Count, ExtractEntry
    PROVE  KInv'
<1>1. /\ pc = "extract"
      /\ UNCHANGED <<saved, part, pkg, resume>>
      /\ Before /\ Stale(3) /\ "staging" \in dirs
      /\ todo \subseteq PkgFiles[pkg]
      /\ tree["staging"] = {<<f, pkg>> : f \in PkgFiles[pkg] \ todo}
      /\ Tidy
    BY DEF ExtractEntry, args, KInv
<1>2. ASSUME NEW f \in todo,
             todo' = todo \ {f},
             dirs' = dirs \cup {"staging"},
             tree' = [tree EXCEPT !["staging"] =
                         {e \in @ : e[1] # f} \cup {<<f, pkg>>}],
             UNCHANGED <<pc, status>>
      PROVE  KInv'
    <2>1. kills' = kills /\ status' = "none" /\ dirs' = dirs
        BY <1>1, <1>2, CountKeeps DEF KInv
    <2>2. \A d \in Dirs \ {"staging"} : tree'[d] = tree[d]
        BY <1>2 DEF TypeOK
    <2>3. tree'["staging"] =
              {e \in tree["staging"] : e[1] # f} \cup {<<f, pkg>>}
        BY <1>2 DEF TypeOK, Dirs
    <2>4. tree'["staging"] = {<<g, pkg>> : g \in PkgFiles[pkg] \ todo'}
        BY <1>1, <1>2, <2>3
    <2>5. Before' /\ Tidy'
        BY <1>1, <2>1, <2>2 DEF Before, Tidy
    <2> QED
        BY <1>1, <1>2, <2>1, <2>4, <2>5 DEF KInv, Stale
<1>3. CASE todo = {} /\ UNCHANGED <<todo, dirs, tree>> /\ Goto("save_extracted")
    <2>1. pc' = "save_extracted" /\ status' = "none" /\ kills' = kills
        BY <1>1, <1>3, GotoKeeps DEF Calls
    <2>2. tree["staging"] = PkgTree(pkg)
        BY <1>1, <1>3 DEF PkgTree
    <2> QED
        BY <1>1, <1>3, <2>1, <2>2 DEF KInv, Before, Tidy, Whole
<1>4. CASE UNCHANGED <<todo, dirs, tree>> /\ Goto("abort_staging")
    <2>1. pc' = "abort_staging" /\ status' = "none" /\ kills' = kills
        BY <1>1, <1>4, GotoKeeps DEF Calls
    <2> QED
        BY <1>1, <1>4, <2>1 DEF KInv, Before, Tidy, Stale
<1> QED
    BY <1>2, <1>3, <1>4 DEF ExtractEntry

(***************************************************************************)
(* The records.                                                            *)
(***************************************************************************)
LEMMA SaveExtractedAtomic ==
    ASSUME TypeOK, KInv, Gentle, MaxKills <= 3, Count, SaveExtracted
    PROVE  KInv'
<1>1. CASE WritePart("save_extracted", "extracted", "commit_extracted",
                     "abort_staging")
    <2>1. /\ pc = "save_extracted"
          /\ part' = [phase |-> "extracted", package |-> pkg]
          /\ Goto("commit_extracted")
          /\ UNCHANGED <<dirs, tree, saved, pkg>>
        BY <1>1 DEF WritePart, Gentle, args
    <2>2. pc' = "commit_extracted" /\ status' = "none" /\ kills' = kills
        BY <2>1, GotoKeeps DEF Calls
    <2> QED
        BY <2>1, <2>2 DEF KInv, Tidy, Before, Whole, Written
<1>2. CASE CommitPart("commit_extracted", "clear_backup", "abort_staging")
    <2>1. part # NoFile
        BY <1>2, UpdaterAssumption DEF CommitPart, KInv, Written, TypeOK,
            StateRec, Phases
    <2>2. /\ pc = "commit_extracted"
          /\ saved' = part
          /\ Goto("clear_backup")
          /\ UNCHANGED <<dirs, tree, pkg>>
        BY <1>2, <2>1 DEF CommitPart, Gentle, args
    <2>3. pc' = "clear_backup" /\ status' = "none" /\ kills' = kills
        BY <2>2, GotoKeeps DEF Calls
    <2> QED
        BY <2>1, <2>2, <2>3 DEF KInv, Tidy, Before, Whole
<1> QED
    BY <1>1, <1>2 DEF SaveExtracted

LEMMA SaveBackedUpAtomic ==
    ASSUME TypeOK, KInv, Gentle, MaxKills <= 3, Count, SaveBackedUp
    PROVE  KInv'
<1>1. CASE WritePart("save_backed_up", "install_backed_up",
                     "commit_backed_up", "undo")
    <2>1. /\ pc = "save_backed_up"
          /\ part' = [phase |-> "install_backed_up", package |-> pkg]
          /\ Goto("commit_backed_up")
          /\ UNCHANGED <<dirs, tree, saved, pkg>>
        BY <1>1 DEF WritePart, Gentle, args
    <2>2. pc' = "commit_backed_up" /\ status' = "none" /\ kills' = kills
        BY <2>1, GotoKeeps DEF Calls
    <2> QED
        BY <2>1, <2>2 DEF KInv, Tidy, Middle, Whole, Written
<1>2. CASE CommitPart("commit_backed_up", "swap_in", "undo")
    <2>1. part = [phase |-> "install_backed_up", package |-> pkg]
        BY <1>2 DEF CommitPart, KInv, Written
    <2>2. part # NoFile
        BY <2>1, UpdaterAssumption DEF TypeOK, StateRec, Phases
    <2>3. /\ pc = "commit_backed_up"
          /\ saved' = part
          /\ Goto("swap_in")
          /\ UNCHANGED <<dirs, tree, pkg>>
        BY <1>2, <2>2 DEF CommitPart, Gentle, args
    <2>4. pc' = "swap_in" /\ status' = "none" /\ kills' = kills
        BY <2>3, GotoKeeps DEF Calls
    <2> QED
        BY <2>1, <2>2, <2>3, <2>4 DEF KInv, Tidy, Middle, Whole, Stale
<1> QED
    BY <1>1, <1>2 DEF SaveBackedUp

LEMMA SaveInstalledAtomic ==
    ASSUME TypeOK, KInv, Gentle, MaxKills <= 3, Count, SaveInstalled
    PROVE  KInv'
<1>1. CASE WritePart("save_installed", "installed", "commit_installed",
                     "drop_backup")
    <2>1. /\ pc = "save_installed"
          /\ part' = [phase |-> "installed", package |-> pkg]
          /\ Goto("commit_installed")
          /\ UNCHANGED <<dirs, tree, saved, pkg>>
        BY <1>1 DEF WritePart, Gentle, args
    <2>2. pc' = "commit_installed" /\ status' = "none" /\ kills' = kills
        BY <2>1, GotoKeeps DEF Calls
    <2> QED
        BY <2>1, <2>2 DEF KInv, Tidy, After, Whole, Stale, Written
<1>2. CASE CommitPart("commit_installed", "drop_backup", "drop_backup")
    <2>1. part = [phase |-> "installed", package |-> pkg]
        BY <1>2 DEF CommitPart, KInv, Written
    <2>2. part # NoFile
        BY <2>1, UpdaterAssumption DEF TypeOK, StateRec, Phases
    <2>3. /\ pc = "commit_installed"
          /\ saved' = part
          /\ Goto("drop_backup")
          /\ UNCHANGED <<dirs, tree, pkg>>
        BY <1>2, <2>2 DEF CommitPart, Gentle, args
    <2>4. pc' = "drop_backup" /\ status' = "none" /\ kills' = kills
        BY <2>3, GotoKeeps DEF Calls
    <2> QED
        BY <2>1, <2>2, <2>3, <2>4 DEF KInv, Tidy, After, Whole, Stale
<1> QED
    BY <1>1, <1>2 DEF SaveInstalled

LEMMA FinishStateAtomic ==
    ASSUME TypeOK, KInv, Gentle, MaxKills <= 3, Count, FinishState
    PROVE  KInv'
<1>1. /\ pc = "finish_state"
      /\ saved' = NoFile
      /\ Goto("relaunch")
      /\ UNCHANGED <<dirs, tree, pkg>>
    BY DEF FinishState, RemoveState, Gentle, args
<1>2. pc' = "relaunch" /\ status' = "none" /\ kills' = kills
    BY <1>1, GotoKeeps DEF Calls
<1> QED
    BY <1>1, <1>2 DEF KInv, Tidy, Whole, Stale

LEMMA AbortStateAtomic ==
    ASSUME TypeOK, KInv, Gentle, MaxKills <= 3, Count, AbortState
    PROVE  KInv'
<1>1. /\ pc = "abort_state"
      /\ saved' = NoFile
      /\ Goto("error")
      /\ UNCHANGED <<dirs, tree, pkg>>
    BY DEF AbortState, RemoveState, Gentle, args
<1>2. pc' = "idle" /\ status' = "error" /\ kills' = kills
    BY <1>1, GotoKeeps
<1> QED
    BY <1>1, <1>2 DEF KInv, Tidy, Rest, Before, Stale

LEMMA RelaunchAtomic ==
    ASSUME TypeOK, KInv, MaxKills <= 3, Count, Relaunch
    PROVE  KInv'
<1>1. pc = "relaunch" /\ UNCHANGED <<dirs, tree, saved, pkg>>
    BY DEF Relaunch, disk, args
<1>2. pc' = "idle" /\ status' \in {"ok", "error"} /\ kills' \in 0 .. 3
    <2>1. CASE Goto("ok")
        BY <2>1 DEF Goto, Calls, Exits, Count
    <2>2. CASE Goto("error")
        BY <1>1, <2>2, GotoKeeps DEF KInv
    <2> QED
        BY <2>1, <2>2 DEF Relaunch
<1> QED
    BY <1>1, <1>2 DEF KInv, Tidy, Rest, Before, Stale

(***************************************************************************)
(* The swap.                                                               *)
(***************************************************************************)
LEMMA SwapOutAtomic ==
    ASSUME TypeOK, KInv, Gentle, MaxKills <= 3, Count, SwapOut
    PROVE  KInv'
<1>1. /\ pc = "swap_out"
      /\ Before /\ Whole("staging") /\ saved # NoFile /\ Tidy
      /\ UNCHANGED <<saved, pkg>>
    BY DEF SwapOut, MovePath, KInv, args
<1>2. tree["backup"] = {} /\ dirs = {"install", "staging"}
    BY <1>1 DEF Before, Whole, Tidy, Dirs, TypeOK
<1>3. /\ dirs' = {"staging", "backup"}
      /\ tree' = [tree EXCEPT !["backup"] = tree["install"], !["install"] = {}]
      /\ Goto("save_backed_up")
    BY <1>1, <1>2 DEF SwapOut, MovePath, Gentle, Before
<1>4. pc' = "save_backed_up" /\ status' = "none" /\ kills' = kills
    BY <1>1, <1>3, GotoKeeps DEF Calls
<1>5. tree'["staging"] = tree["staging"] /\ tree'["install"] = {}
    BY <1>3 DEF TypeOK, Dirs
<1>6. Middle' /\ Tidy'
    BY <1>1, <1>3, <1>5 DEF Middle, Whole, Tidy, Dirs
<1> QED
    BY <1>1, <1>4, <1>6 DEF KInv

LEMMA SwapInAtomic ==
    ASSUME TypeOK, KInv, Gentle, MaxKills <= 3, Count, SwapIn
    PROVE  KInv' /\ pc' = "save_installed" /\ Current' = PkgTree(pkg)
<1>1. /\ pc = "swap_in"
      /\ Middle /\ Stale(1) /\ Tidy
      /\ UNCHANGED <<saved, pkg>>
    BY DEF SwapIn, MovePath, KInv, args
<1>2. /\ dirs' = {"install", "backup"}
      /\ tree' = [tree EXCEPT !["install"] = tree["staging"], !["staging"] = {}]
      /\ Goto("save_installed")
    BY <1>1 DEF SwapIn, MovePath, Gentle, Middle
<1>3. pc' = "save_installed" /\ status' = "none" /\ kills' = kills
    BY <1>1, <1>2, GotoKeeps DEF Calls
<1>4. tree'["install"] = PkgTree(pkg) /\ tree'["staging"] = {}
    BY <1>1, <1>2 DEF TypeOK, Dirs, Middle, Whole
<1>5. After' /\ Stale(1)' /\ Tidy'
    BY <1>1, <1>2, <1>3, <1>4 DEF After, Middle, Whole, Stale, Tidy, Dirs
<1> QED
    BY <1>1, <1>2, <1>3, <1>4, <1>5 DEF KInv, Current

(***************************************************************************)
(* The environment.                                                        *)
(***************************************************************************)
LEMMA LaunchAtomic ==
    ASSUME TypeOK, KInv, SamePackage, MaxKills <= 3, Count,
           NEW p \in Packages, Launch(p)
    PROVE  KInv'
<1>1. pkg' = pkg
    BY DEF Launch, SamePackage, TypeOK
<1>2. kills' = kills
    BY CountKeeps DEF Launch
<1> QED
    BY <1>1, <1>2 DEF Launch, disk, KInv, Tidy, Rest, Before, Middle, After,
        Whole, Stale

LEMMA CrashAtomic ==
    ASSUME TypeOK, KInv, MaxKills <= 3, Count, Crash
    PROVE  KInv'
<1>1. pc # "idle" /\ UNCHANGED <<dirs, tree, saved, pkg>>
    BY DEF Crash, disk, args
<1>2. pc' = "idle" /\ status' = "crashed"
    BY DEF Crash, Goto, Calls, Exits
<1>3. kills' = kills + 1 /\ kills \in 0 .. 3 /\ kills' \in 0 .. 3
    BY <1>1, <1>2, CountKill DEF KInv
<1>4. ~(saved # NoFile /\ saved.phase = "extracted" /\ kills >= 3)
    BY <1>3
<1>5. Rest'
    <2>1. CASE pc \in {"load", "wait"}
        BY <1>1, <1>3, <2>1 DEF KInv, Rest, Before, Middle, After, Whole, Stale
    <2>2. CASE pc \in {"clear_staging", "open_archive", "extract",
                       "abort_staging", "abort_state"}
        BY <1>1, <1>3, <1>4, <2>2 DEF KInv, Rest, Before, Stale
    <2>3. CASE pc \in {"save_extracted", "commit_extracted", "clear_backup",
                       "swap_out"}
        BY <1>1, <2>3 DEF KInv, Rest, Before, Whole
    <2>4. CASE pc \in {"save_backed_up", "commit_backed_up", "swap_in"}
        BY <1>1, <1>3, <2>4 DEF KInv, Rest, Middle, Whole, Stale
    <2>5. CASE pc \in {"save_installed", "commit_installed", "drop_backup"}
        BY <1>1, <1>3, <2>5 DEF KInv, Rest, After, Whole, Stale
    <2>6. CASE pc \in {"finish_state", "relaunch"}
        BY <1>1, <1>3, <2>6 DEF KInv, Rest, Before, Stale
    <2> QED
        BY <1>1, <2>1, <2>2, <2>3, <2>4, <2>5, <2>6 DEF TypeOK, Calls, KInv
<1> QED
    BY <1>1, <1>2, <1>3, <1>5 DEF KInv, Tidy

(***************************************************************************)
(* The invariant, and the refinement.                                      *)
(***************************************************************************)
LEMMA StepAtomic ==
    ASSUME TypeOK, KInv, SamePackage, Gentle, MaxKills <= 3, Step, Count
    PROVE  KInv'
<1>1. ~(DropState \/ Undo \/ RollBack \/ RolledStaging)
    BY DEF KInv, DropState, Undo, RollBack, RolledStaging, RemoveState,
        MovePath, RemoveTree
<1> QED
    BY <1>1, LoadAtomic, WaitAtomic, ClearStagingAtomic, OpenArchiveAtomic,
       ExtractEntryAtomic, SaveExtractedAtomic, ClearBackupAtomic,
       SwapOutAtomic, SaveBackedUpAtomic, SwapInAtomic, SaveInstalledAtomic,
       DropBackupAtomic, FinishStateAtomic, RelaunchAtomic,
       AbortStagingAtomic, AbortStateAtomic
    DEF Step

LEMMA KNextAtomic ==
    ASSUME TypeOK, KInv, SamePackage, Gentle, MaxKills <= 3,
           [KNext]_<<vars, kills>>
    PROVE  KInv'
<1>1. ASSUME Count, NEW p \in Packages, Launch(p) PROVE KInv'
    BY <1>1, LaunchAtomic
<1>2. ASSUME Count, Step PROVE KInv'
    BY <1>2, StepAtomic
<1>3. ASSUME Count, Crash PROVE KInv'
    BY <1>3, CrashAtomic
<1>4. ASSUME Count, ParentExit PROVE KInv'
    <2>1. /\ kills' \in 0 .. 3
          /\ UNCHANGED <<dirs, tree, saved, part, pc, pkg, resume, todo, status>>
        BY <1>4 DEF ParentExit, disk, Count, KInv
    <2>2. kills' = kills \/ saved = NoFile
        BY <1>4, <2>1 DEF Count, KInv
    <2> QED
        BY <2>1, <2>2 DEF KInv, Tidy, Rest, Before, Middle, After, Whole,
            Stale, Written, DetermineResume
<1>5. CASE UNCHANGED <<vars, kills>>
    BY <1>5 DEF vars, KInv, Tidy, Rest, Before, Middle, After, Whole, Stale,
        Written, DetermineResume
<1> QED
    BY <1>1, <1>2, <1>3, <1>4, <1>5 DEF KNext, Next

LEMMA KInitAtomic == KInit => KInv
BY DEF KInit, Init, KInv, Tidy, Rest, Before, Stale

LEMMA KTypeCorrect == KSpec => []TypeOK
<1>1. KInit => TypeOK
    BY InitType DEF KInit
<1>2. TypeOK /\ [KNext]_<<vars, kills>> => TypeOK'
    BY NextType DEF KNext, vars
<1> QED
    BY <1>1, <1>2, PTL DEF KSpec

\* How a step of a run ends, seen from outside.
LEMMA StepExits ==
    ASSUME TypeOK, Step
    PROVE  /\ pc # "idle"
           /\ pkg' = pkg
           /\ \/ pc' # "idle" /\ status' = status
              \/ pc' = "idle" /\ status' = "error"
              \/ Relaunch /\ pc' = "idle" /\ status' = "ok"
<1> USE DEF Goto, Calls, Exits, args
<1>1. CASE ClearStaging \/ ClearBackup \/ DropBackup \/ AbortStaging
           \/ RolledStaging
    BY <1>1 DEF ClearStaging, ClearBackup, DropBackup, AbortStaging,
        RolledStaging, RemoveTree
<1>2. CASE SwapOut \/ SwapIn \/ Undo \/ RollBack
    BY <1>2 DEF SwapOut, SwapIn, Undo, RollBack, MovePath
<1>3. CASE SaveExtracted \/ SaveBackedUp \/ SaveInstalled
    BY <1>3 DEF SaveExtracted, SaveBackedUp, SaveInstalled, WritePart,
        CommitPart
<1>4. CASE DropState \/ FinishState \/ AbortState
    BY <1>4 DEF DropState, FinishState, AbortState, RemoveState
<1>5. CASE WaitForParentExit
    BY <1>5 DEF WaitForParentExit, FirstCall, TypeOK, Resumes
<1>6. CASE Load \/ OpenArchive \/ ExtractEntry \/ Relaunch
    BY <1>6 DEF Load, OpenArchive, ExtractEntry, Relaunch
<1> QED
    BY <1>1, <1>2, <1>3, <1>4, <1>5, <1>6 DEF Step

\* Each step of the updater is a step of the atomic installation or leaves it
\* alone: Launch starts, SwapIn applies, Relaunch succeeds, the exits fail.
LEMMA KNextRefines ==
    ASSUME TypeOK, CInv, KInv, SamePackage, Gentle, MaxKills <= 3,
           [KNext]_<<vars, kills>>
    PROVE  [AI!Next]_(AI!vars)
<1> USE DEF AI!vars, AI!Next
<1>1. SwapIn \/ Current' = Current
    <2>1. [Next]_vars
        BY DEF KNext, vars
    <2> QED
        BY <2>1, NextCopy DEF Gentle
<1>2. ASSUME NEW p \in Packages, Launch(p) PROVE [AI!Next]_(AI!vars)
    <2>1. Current' = Current
        BY <1>2 DEF Launch, disk, Current
    <2>2. AI!Start(p)
        BY <1>2, <2>1 DEF Launch, AI!Start
    <2> QED
        BY <2>2
<1>3. ASSUME Step, Count PROVE [AI!Next]_(AI!vars)
    <2>1. CASE SwapIn
        <3>1. pc' = "save_installed" /\ Current' = PkgTree(pkg)
            BY <1>3, <2>1, SwapInAtomic
        <3>2. AI!Apply
            BY <1>3, <3>1, StepExits DEF AI!Apply, TypeOK
        <3> QED
            BY <3>2
    <2>2. CASE Current' = Current /\ pc' # "idle" /\ status' = status
        BY <1>3, <2>2, StepExits
    <2>3. CASE Current' = Current /\ pc' = "idle" /\ status' = "error"
        <3>1. AI!Fail
            BY <1>3, <2>3, StepExits DEF AI!Fail
        <3> QED
            BY <3>1
    <2>4. CASE /\ Relaunch /\ Current' = Current
               /\ pc' = "idle" /\ status' = "ok"
        <3>1. Current = PkgTree(pkg)
            BY <2>4 DEF Relaunch, KInv, Whole, Current
        <3>2. AI!Succeed
            BY <1>3, <2>4, <3>1, StepExits DEF AI!Succeed, TypeOK
        <3> QED
            BY <3>2
    <2> QED
        BY <1>1, <1>3, <2>1, <2>2, <2>3, <2>4, StepExits
<1>4. CASE ParentExit
    BY <1>4 DEF ParentExit, disk, Current
<1>5. CASE Crash
    <2>1. Current' = Current /\ pc' = "idle" /\ status' = "crashed"
        BY <1>5 DEF Crash, disk, Current, Goto, Calls, Exits
    <2>2. AI!Fail
        BY <1>5, <2>1 DEF Crash, args, AI!Fail
    <2> QED
        BY <2>2
<1>6. CASE UNCHANGED <<vars, kills>>
    BY <1>6 DEF vars, Current
<1> QED
    BY <1>2, <1>3, <1>4, <1>5, <1>6 DEF KNext, Next

\* Runs of one package path that are killed at most three times between two
\* successes, and in which only extracting, the path of the application and
\* its start may fail, change the application tree in one step from a whole
\* tree to the whole package, and report success only then (main.c:133-263).
THEOREM AtomicWithFewKills ==
    ASSUME SamePackage, Gentle, MaxKills <= 3
    PROVE  KSpec => ImplementsAtomicInstall
<1>1. KInit => AI!Init /\ CInv
    <2>1. Init => Current = OldTree
        BY DEF Init, Current, Dirs
    <2>2. Init => CInv
        BY DEF Init, CInv, AwayCalls
    <2> QED
        BY <2>1, <2>2 DEF KInit, Init, AI!Init
<1>2. TypeOK /\ CInv /\ [KNext]_<<vars, kills>> => CInv'
    <2>1. [KNext]_<<vars, kills>> => [Next]_vars
        BY DEF KNext, vars
    <2> QED
        BY <2>1, NextCopy DEF Gentle
<1>3. TypeOK /\ KInv /\ [KNext]_<<vars, kills>> => KInv'
    BY KNextAtomic
<1>4. TypeOK /\ CInv /\ KInv /\ [KNext]_<<vars, kills>> =>
          [AI!Next]_(AI!vars)
    BY KNextRefines
<1> QED
    BY <1>1, <1>2, <1>3, <1>4, KInitAtomic, KTypeCorrect, PTL
    DEF KSpec, ImplementsAtomicInstall, AI!Spec

(***************************************************************************)
(* With kills as the only fault the run never gives up: KInv says that     *)
(* what each call needs is there.                                          *)
(***************************************************************************)
OnlyKills == Faults \subseteq {"crash"}
GivesUp == {"abort_staging", "abort_state"}

LEMMA StepGoesOn ==
    ASSUME TypeOK, KInv, OnlyKills, pc \notin GivesUp, Step
    PROVE  \/ Relaunch /\ pc' = "idle" /\ status' = "ok"
           \/ pc' \notin GivesUp \cup {"idle"}
<1> USE DEF Goto, Calls, Exits, GivesUp
<1>1. CASE ClearStaging \/ ClearBackup \/ DropBackup \/ AbortStaging
           \/ RolledStaging
    BY <1>1 DEF ClearStaging, ClearBackup, DropBackup, AbortStaging,
        RolledStaging, RemoveTree
<1>2. CASE SwapOut
    BY <1>2 DEF SwapOut, MovePath, KInv, Before, OnlyKills
<1>3. CASE SwapIn
    BY <1>3 DEF SwapIn, MovePath, KInv, Middle, OnlyKills
<1>4. CASE SaveExtracted \/ SaveBackedUp \/ SaveInstalled
    <2>1. pc \in {"commit_extracted", "commit_backed_up", "commit_installed"}
          => part # NoFile
        BY UpdaterAssumption DEF KInv, Written, StateRec, Phases, TypeOK
    <2> QED
        BY <1>4, <2>1 DEF SaveExtracted, SaveBackedUp, SaveInstalled,
            WritePart, CommitPart, OnlyKills
<1>5. CASE FinishState \/ DropState
    BY <1>5 DEF FinishState, DropState, RemoveState
<1>6. CASE WaitForParentExit
    BY <1>6 DEF WaitForParentExit, FirstCall, TypeOK, Resumes, OnlyKills
<1>7. CASE Load \/ OpenArchive \/ ExtractEntry
    BY <1>7 DEF Load, OpenArchive, ExtractEntry, OnlyKills
<1>8. CASE Relaunch
    BY <1>8 DEF Relaunch, OnlyKills
<1>9. ~(Undo \/ RollBack \/ AbortState)
    BY DEF Undo, RollBack, MovePath, AbortState, RemoveState, KInv
<1> QED
    BY <1>1, <1>2, <1>3, <1>4, <1>5, <1>6, <1>7, <1>8, <1>9 DEF Step

LEMMA KNextInstalls ==
    ASSUME TypeOK, KInv, OnlyKills, pc \notin GivesUp, InstallsUnlessKilled,
           [KNext]_<<vars, kills>>, KInv'
    PROVE  (pc \notin GivesUp /\ InstallsUnlessKilled)'
<1>1. pc' # "idle" => InstallsUnlessKilled'
    BY DEF KInv, InstallsUnlessKilled
<1>2. ASSUME NEW p \in Packages, Launch(p)
      PROVE  pc' \notin GivesUp /\ pc' # "idle"
    BY <1>2 DEF Launch, GivesUp
<1>3. CASE Step
    <2>1. CASE Relaunch /\ pc' = "idle" /\ status' = "ok"
        <3>1. UNCHANGED <<dirs, tree, saved, pkg>> /\ pc = "relaunch"
            BY <2>1 DEF Relaunch, disk, args
        <3>2. dirs = {"install"} /\ Whole("install") /\ saved = NoFile
            BY <3>1 DEF KInv
        <3>3. PkgTree(pkg)' = PkgTree(pkg)
            BY <3>1 DEF PkgTree
        <3> QED
            BY <2>1, <3>1, <3>2, <3>3
            DEF InstallsUnlessKilled, Current, Whole, GivesUp
    <2> QED
        BY <1>1, <1>3, <2>1, StepGoesOn
<1>4. CASE Crash
    BY <1>4 DEF Crash, Goto, Calls, Exits, GivesUp, InstallsUnlessKilled
<1>5. CASE UNCHANGED <<dirs, tree, saved, pc, pkg, status>>
    BY <1>5 DEF InstallsUnlessKilled, Current, PkgTree
<1> QED
    BY <1>1, <1>2, <1>3, <1>4, <1>5 DEF KNext, Next, ParentExit, disk, vars

\* Runs of one package path that are killed at most three times between two
\* successes, and denied no operation, end with the package installed and
\* nothing else left, or are killed (main.c:172-209, update_state.c:156-215).
THEOREM InstallsWithFewKills ==
    ASSUME SamePackage, OnlyKills, MaxKills <= 3
    PROVE  KSpec => []InstallsUnlessKilled
<1>1. Gentle
    BY DEF OnlyKills, Gentle
<1>2. KInit => pc \notin GivesUp /\ InstallsUnlessKilled
    BY DEF KInit, Init, GivesUp, InstallsUnlessKilled
<1>3. TypeOK /\ KInv /\ [KNext]_<<vars, kills>> => KInv'
    BY <1>1, KNextAtomic
<1>4. /\ TypeOK /\ KInv /\ KInv' /\ [KNext]_<<vars, kills>>
      /\ pc \notin GivesUp /\ InstallsUnlessKilled
      => (pc \notin GivesUp /\ InstallsUnlessKilled)'
    BY KNextInstalls
<1> QED
    BY <1>2, <1>3, <1>4, KInitAtomic, KTypeCorrect, PTL DEF KSpec
==============================================================================
