------------------------------- MODULE Updater -------------------------------
(***************************************************************************)
(* The updater process (updater/main.c, updater/update_state.c) and the    *)
(* file operations it is built from (libupdate/src/update_ops.c,           *)
(* platform_fs.c, update_extract.c).                                       *)
(*                                                                         *)
(* One run of the updater is started with a package and an install         *)
(* directory.  It reads the state file an earlier run may have left, looks *)
(* at which of the three directories exist, waits for the application to   *)
(* exit, and swaps the extracted package in for the installed tree.  A run *)
(* may be killed between any two file-system calls, and the next run finds *)
(* whatever it left.                                                       *)
(*                                                                         *)
(* A tree is a set of <<file, version>> entries.  A recursive removal      *)
(* unlinks one file at a time and an extraction adds one at a time; a      *)
(* rename of a directory is atomic.  The bounded retry loops around remove *)
(* and rename (16 and 20 attempts) are abstracted to their two outcomes.   *)
(***************************************************************************)
CONSTANTS
    Files,      \* file names
    OldFiles,   \* the files of the tree installed before the first run
    Packages,   \* package paths a run can be started with
    PkgFiles,   \* PkgFiles[p]: the files package p contains
    Old,        \* the version of the files installed before the first run
    NoFile,     \* stands for a state file that does not exist
    Faults      \* what the environment may do to a run, see FaultKinds

Dirs == {"install", "staging", "backup"}
Phases == {"extracted", "install_backed_up", "installed"}
Resumes == {"full", "post_extract", "post_backup", "post_install", "rollback"}

(***************************************************************************)
(* "crash": the process is killed between two calls.  The other kinds are  *)
(* calls that keep failing until their retries are used up: reading the    *)
(* state file, building the path of the application, extracting the        *)
(* archive, writing or renaming the state file, renaming a directory,      *)
(* removing a tree or a file, starting the application.                    *)
(***************************************************************************)
FaultKinds ==
    {"crash", "load", "path", "extract", "save", "move", "remove", "spawn"}

Versions == Packages \cup {Old}
StateRec == [phase : Phases, package : Packages]
PkgTree(p) == {<<f, p>> : f \in PkgFiles[p]}
OldTree == {<<f, Old>> : f \in OldFiles}

ASSUME UpdaterAssumption ==
    /\ OldFiles \subseteq Files
    /\ PkgFiles \in [Packages -> SUBSET Files]
    /\ Packages # {}
    /\ Old \notin Packages
    /\ NoFile \notin StateRec
    /\ Faults \subseteq FaultKinds

VARIABLES
    (* the disk *)
    dirs,       \* which of the three directories exist
    tree,       \* the entries of each directory
    saved,      \* <install_dir>.update_state.json
    part,       \* <install_dir>.update_state.json.part
    (* the process *)
    pc,         \* the call the run is about to make
    pkg,        \* --install
    resume,     \* where updater_determine_resume says to continue
    todo,       \* entries update_extract has still to write
    parent,     \* the process named by --pid
    status      \* how the last run ended

disk == <<dirs, tree, saved, part>>
args == <<pkg, parent>>
vars == <<dirs, tree, saved, part, pc, pkg, resume, todo, parent, status>>

Calls ==
    {"idle", "load", "drop_state", "wait", "clear_staging", "open_archive",
     "extract", "save_extracted", "commit_extracted", "clear_backup",
     "swap_out", "save_backed_up", "commit_backed_up", "swap_in",
     "save_installed", "commit_installed", "drop_backup", "finish_state",
     "relaunch", "undo", "abort_staging", "abort_state", "roll_back",
     "rolled_staging"}

Exits == {"ok", "error", "crashed"}

\* Types only; what the fields mean to each other is in the invariants below.
TypeOK ==
    /\ dirs \subseteq Dirs
    /\ tree \in [Dirs -> SUBSET (Files \X Versions)]
    /\ saved \in StateRec \cup {NoFile}
    /\ part \in StateRec \cup {NoFile}
    /\ pc \in Calls
    /\ pkg \in Packages
    /\ resume \in Resumes
    /\ todo \subseteq Files
    /\ parent \in {"alive", "gone"}
    /\ status \in {"none"} \cup Exits

Init ==
    /\ dirs = {"install"}
    /\ tree = [d \in Dirs |-> IF d = "install" THEN OldTree ELSE {}]
    /\ saved = NoFile
    /\ part = NoFile
    /\ pc = "idle"
    /\ pkg \in Packages
    /\ resume = "full"
    /\ todo = {}
    /\ parent = "gone"
    /\ status = "none"

(***************************************************************************)
(* File operations.  Each is a step of the run that is at the call `here`  *)
(* and says where the run continues, or how it exits.                      *)
(***************************************************************************)
Goto(l) ==
    \/ l \in Calls /\ pc' = l /\ UNCHANGED status
    \/ l \in Exits /\ pc' = "idle" /\ status' = l

\* A directory that is not there cannot be removed (the caller ignores it);
\* one whose removal fails keeps what was not unlinked yet.
RemoveTree(here, d, next) ==
    /\ pc = here
    /\ \/ \E e \in tree[d] :
            /\ tree' = [tree EXCEPT ![d] = @ \ {e}]
            /\ UNCHANGED <<dirs, pc, status>>
       \/ /\ d \in dirs
          /\ tree[d] = {}
          /\ dirs' = dirs \ {d}
          /\ UNCHANGED tree
          /\ Goto(next)
       \/ /\ d \notin dirs \/ "remove" \in Faults
          /\ UNCHANGED <<dirs, tree>>
          /\ Goto(next)
    /\ UNCHANGED <<saved, part, args, resume, todo>>

\* rename() of a directory: onto nothing, or onto an empty directory.
MovePath(here, src, dst, next, fail) ==
    /\ pc = here
    /\ LET possible == src \in dirs /\ (dst \in dirs => tree[dst] = {})
       IN  \/ /\ possible
              /\ dirs' = (dirs \ {src}) \cup {dst}
              /\ tree' = [tree EXCEPT ![dst] = tree[src], ![src] = {}]
              /\ Goto(next)
           \/ /\ ~possible \/ "move" \in Faults
              /\ UNCHANGED <<dirs, tree>>
              /\ Goto(fail)
    /\ UNCHANGED <<saved, part, args, resume, todo>>

\* updater_state_save_atomic writes <state>.part ...
WritePart(here, phase, next, fail) ==
    /\ pc = here
    /\ \/ /\ part' = [phase |-> phase, package |-> pkg]
          /\ Goto(next)
       \/ /\ "save" \in Faults
          /\ part' \in {part, NoFile}
          /\ Goto(fail)
    /\ UNCHANGED <<dirs, tree, saved, args, resume, todo>>

\* ... and renames it over the state file, or removes it when that fails.
CommitPart(here, next, fail) ==
    /\ pc = here
    /\ \/ /\ part # NoFile
          /\ saved' = part
          /\ Goto(next)
       \/ /\ part = NoFile \/ "save" \in Faults
          /\ UNCHANGED saved
          /\ Goto(fail)
    /\ part' = NoFile
    /\ UNCHANGED <<dirs, tree, args, resume, todo>>

RemoveState(here, next) ==
    /\ pc = here
    /\ \/ saved' = NoFile
       \/ "remove" \in Faults /\ UNCHANGED saved
    /\ Goto(next)
    /\ UNCHANGED <<dirs, tree, part, args, resume, todo>>

(***************************************************************************)
(* The run.                                                                *)
(***************************************************************************)
Launch(p) ==
    /\ pc = "idle"
    /\ pkg' = p
    /\ parent' \in {"alive", "gone"}
    /\ resume' = "full"
    /\ todo' = {}
    /\ pc' = "load"
    /\ status' = "none"
    /\ UNCHANGED disk

\* Mutant: the staging directory is trusted whatever phase the state names.
TrustsStaging(phase) ==
    CASE dirs = {"backup"} -> "rollback"
      [] dirs = {"staging", "backup"} -> "post_backup"
      [] dirs = {"install", "backup"} -> "post_install"
      [] {"install", "staging"} \subseteq dirs -> "post_extract"
      [] OTHER -> "full"

\* Mutant: a run that finds no install directory starts again from nothing.
StartsOver(phase) ==
    CASE dirs = {"install", "backup"} -> "post_install"
      [] {"install", "staging"} \subseteq dirs /\ phase = "extracted" ->
            "post_extract"
      [] OTHER -> "full"

DetermineResume(phase) ==
    CASE dirs = {"backup"} -> "rollback"
      [] dirs = {"staging", "backup"} -> "post_backup"
      [] dirs = {"install", "backup"} -> "post_install"
      [] {"install", "staging"} \subseteq dirs /\ phase = "extracted" ->
            "post_extract"
      [] OTHER -> "full"

\* A state file that cannot be opened counts as absent; one that cannot be
\* parsed, or that belongs to another package, is removed.
Load ==
    /\ pc = "load"
    /\ \/ /\ saved = NoFile \/ "load" \in Faults
          /\ resume' = "full"
          /\ Goto("wait")
       \/ /\ saved # NoFile
          /\ saved.package # pkg \/ "load" \in Faults
          /\ resume' = "full"
          /\ Goto("drop_state")
       \/ /\ saved # NoFile
          /\ saved.package = pkg
          /\ resume' = DetermineResume(saved.phase)
          /\ Goto("wait")
    /\ UNCHANGED <<disk, args, todo>>

DropState == RemoveState("drop_state", "wait")

FirstCall ==
    CASE resume = "full" -> "clear_staging"
      [] resume = "post_extract" -> "save_extracted"
      [] resume = "post_backup" -> "swap_in"
      [] resume = "post_install" -> "drop_backup"
      [] resume = "rollback" -> "roll_back"

\* Mutant: the wait for the application is lost in front of a recovery.
WaitsOnlyForFull ==
    /\ pc = "wait"
    /\ resume = "full" => parent = "gone"
    /\ Goto(FirstCall)
    /\ UNCHANGED <<disk, args, resume, todo>>

\* The path of the application to start is built after the wait; a run that
\* cannot build it stops here.
WaitForParentExit ==
    /\ pc = "wait"
    /\ parent = "gone"
    /\ \/ Goto(FirstCall)
       \/ "path" \in Faults /\ Goto("error")
    /\ UNCHANGED <<disk, args, resume, todo>>

\* Mutant: the package is extracted over whatever the directory holds.
ExtractsOver ==
    /\ pc = "clear_staging"
    /\ Goto("open_archive")
    /\ UNCHANGED <<disk, args, resume, todo>>

ClearStaging == RemoveTree("clear_staging", "staging", "open_archive")

OpenArchive ==
    /\ pc = "open_archive"
    /\ \/ /\ dirs' = dirs \cup {"staging"}
          /\ todo' = PkgFiles[pkg]
          /\ Goto("extract")
       \/ /\ "extract" \in Faults
          /\ dirs' \in {dirs, dirs \cup {"staging"}}
          /\ UNCHANGED todo
          /\ Goto("abort_staging")
    /\ UNCHANGED <<tree, saved, part, args, resume>>

\* The parent directories of an entry are made again before it is written.
ExtractEntry ==
    /\ pc = "extract"
    /\ \/ \E f \in todo :
            /\ todo' = todo \ {f}
            /\ dirs' = dirs \cup {"staging"}
            /\ tree' = [tree EXCEPT !["staging"] =
                            {e \in @ : e[1] # f} \cup {<<f, pkg>>}]
            /\ UNCHANGED <<pc, status>>
       \/ /\ todo = {}
          /\ UNCHANGED <<todo, dirs, tree>>
          /\ Goto("save_extracted")
       \/ /\ todo # {}
          /\ "extract" \in Faults
          /\ UNCHANGED <<todo, dirs, tree>>
          /\ Goto("abort_staging")
    /\ UNCHANGED <<saved, part, args, resume>>

SaveExtracted ==
    \/ WritePart("save_extracted", "extracted", "commit_extracted",
                 "abort_staging")
    \/ CommitPart("commit_extracted", "clear_backup", "abort_staging")

ClearBackup == RemoveTree("clear_backup", "backup", "swap_out")

SwapOut ==
    MovePath("swap_out", "install", "backup", "save_backed_up",
             "abort_staging")

SaveBackedUp ==
    \/ WritePart("save_backed_up", "install_backed_up", "commit_backed_up",
                 "undo")
    \/ CommitPart("commit_backed_up", "swap_in", "undo")

\* Mutant: a failed promotion is tried again from the record before it.
RetriesSwapIn ==
    MovePath("swap_in", "staging", "install", "save_installed",
             "save_backed_up")

SwapIn ==
    MovePath("swap_in", "staging", "install", "save_installed", "undo")

\* Mutant: the last record names a phase nobody knows.
SavesDone ==
    \/ WritePart("save_installed", "done", "commit_installed", "drop_backup")
    \/ CommitPart("commit_installed", "drop_backup", "drop_backup")

\* The result of this save is ignored.
SaveInstalled ==
    \/ WritePart("save_installed", "installed", "commit_installed",
                 "drop_backup")
    \/ CommitPart("commit_installed", "drop_backup", "drop_backup")

\* Mutant: only a resumed run removes the backup.
DropsBackupLate ==
    \/ resume = "post_install"
       /\ RemoveTree("drop_backup", "backup", "finish_state")
    \/ /\ pc = "drop_backup"
       /\ resume # "post_install"
       /\ Goto("finish_state")
       /\ UNCHANGED <<disk, args, resume, todo>>

DropBackup == RemoveTree("drop_backup", "backup", "finish_state")
FinishState == RemoveState("finish_state", "relaunch")

Relaunch ==
    /\ pc = "relaunch"
    /\ \/ Goto("ok")
       \/ "spawn" \in Faults /\ Goto("error")
    /\ UNCHANGED <<disk, args, resume, todo>>

\* Mutant: the state file is removed although the old tree is not back yet.
UndoForgets ==
    MovePath("undo", "backup", "install", "abort_staging",
             "abort_staging")

\* The old tree is put back; when even that fails the run gives up and the
\* state file stays for the next one.
Undo ==
    MovePath("undo", "backup", "install", "abort_staging", "error")

\* Mutant: the wrong directory is cleaned up after a failure.
AbortsInstall == RemoveTree("abort_staging", "install", "abort_state")

AbortStaging == RemoveTree("abort_staging", "staging", "abort_state")
AbortState == RemoveState("abort_state", "error")

RollBack ==
    MovePath("roll_back", "backup", "install", "rolled_staging",
             "error")
RolledStaging == RemoveTree("rolled_staging", "staging", "finish_state")

Step ==
    \/ Load \/ DropState \/ WaitForParentExit
    \/ ClearStaging \/ OpenArchive \/ ExtractEntry \/ SaveExtracted
    \/ ClearBackup \/ SwapOut \/ SaveBackedUp \/ SwapIn \/ SaveInstalled
    \/ DropBackup \/ FinishState \/ Relaunch
    \/ Undo \/ AbortStaging \/ AbortState
    \/ RollBack \/ RolledStaging

ParentExit ==
    /\ parent = "alive"
    /\ parent' = "gone"
    /\ UNCHANGED <<disk, pc, pkg, resume, todo, status>>

\* The run is killed; the disk stays as it is.
Crash ==
    /\ "crash" \in Faults
    /\ pc # "idle"
    /\ Goto("crashed")
    /\ UNCHANGED <<disk, args, resume, todo>>

Next ==
    \/ \E p \in Packages : Launch(p)
    \/ Step
    \/ ParentExit
    \/ Crash

Spec == Init /\ [][Next]_vars

(***************************************************************************)
(* The operating system keeps running a started process, and the           *)
(* application that started the updater exits (update_apply calls exit(0)).*)
(* Nothing makes anyone start another run, and nothing makes a run crash.  *)
(***************************************************************************)
Fairness == WF_vars(Step) /\ WF_vars(ParentExit)
FairSpec == Spec /\ Fairness
==============================================================================
