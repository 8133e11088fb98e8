-------------------------------- MODULE Trees --------------------------------
(***************************************************************************)
(* The tree copies of libupdate/src/update_ops.c: update_copy_tree,        *)
(* its best-effort form, the stage overlay, recreate and merge, which      *)
(* bring a backup and then a staging tree into an install directory.       *)
(* The updater itself renames instead (Updater); these are exported.       *)
(*                                                                         *)
(* A tree is the content of each of its files, whatever directory of it    *)
(* they are in; readdir names them in any order.  A copy cuts the target   *)
(* to nothing first and fills it then, so a file may be torn in between.   *)
(***************************************************************************)
EXTENDS Naturals, Sequences

CONSTANTS
    Leaves,     \* the names of files; "updater" and "updater_new" are special
    Layouts,    \* which files each directory may hold at the start
    FileTries,  \* UPDATE_OPS_RETRIES, for one file
    TreeTries,  \* UPDATE_OPS_RETRIES, for a whole tree
    TreeFaults  \* what may fail: "open", "write", "scan", and two that go
                \* unnoticed: "flush", the last write of a file in fclose, and
                \* "remove", the removal of a target that was not copied

ASSUME TreesAssumption ==
    /\ {"updater", "updater_new"} \subseteq Leaves
    /\ Layouts \subseteq [{"install", "backup", "staging"} -> SUBSET Leaves]
    /\ FileTries \in Nat \ {0}
    /\ TreeTries \in Nat \ {0}

VARIABLES
    trees,      \* trees[d][f]: what file f of directory d holds
    plan,       \* the copies still to make, the current one first
    entries,    \* files of the current pass that readdir has not named yet
    leaf,       \* the file being copied
    copyPc,     \* "idle", "entry", "open" or "write"
    fileTry, treeTry,
    copied,     \* how the last call ended
    neglected,  \* targets that fclose or remove has failed on in this call,
                \* which nobody notices, and that were not opened or removed since
    asked,      \* the copies of the current or the last call
    before      \* the install directory when that call began

treeVars == <<trees, plan, entries, leaf, copyPc, fileTry, treeTry, copied,
              neglected, asked, before>>
call == <<asked, before>>

Absent == "absent"
Torn == "torn"
Present(d) == {f \in Leaves : trees[d][f] # Absent}

TreesInit ==
    /\ \E l \in Layouts :
           trees = [d \in DOMAIN l |->
                       [f \in Leaves |-> IF f \in l[d] THEN d ELSE Absent]]
    /\ plan = <<>>
    /\ entries = {}
    /\ leaf = "none"
    /\ copyPc = "idle"
    /\ fileTry = 0
    /\ treeTry = 0
    /\ copied = "none"
    /\ neglected = {}
    /\ asked = <<>>
    /\ before = trees["install"]

CopyJob(src, mode) == [src |-> src, mode |-> mode]

\* Every call has the install directory as its target.
Jobs == {<<CopyJob("backup", "copy")>>,
         <<CopyJob("backup", "best_effort")>>,
         <<CopyJob("staging", "overlay")>>,
         <<CopyJob("backup", "copy"), CopyJob("staging", "overlay")>>}

\* Mutant: the running updater is not spared.
OverlaysUpdater(f, mode) == f

\* stage_overlay_dst_leaf
DstLeaf(f, mode) ==
    IF mode = "overlay" /\ f = "updater" THEN "updater_new" ELSE f

Job == plan[1]
Target == DstLeaf(leaf, Job.mode)
Fill(content) == trees' = [trees EXCEPT !["install"][Target] = content]

StartCopy(p) ==
    /\ copyPc = "idle"
    /\ plan' = p
    /\ neglected' = {}
    /\ asked' = p
    /\ entries' = Present(p[1].src)
    /\ copyPc' = "entry"
    /\ treeTry' = 1
    /\ fileTry' = 0
    /\ copied' = "none"
    /\ before' = trees["install"]
    /\ UNCHANGED <<trees, leaf>>

NextEntry(f) ==
    /\ copyPc = "entry"
    /\ f \in entries
    /\ leaf' = f
    /\ entries' = entries \ {f}
    /\ fileTry' = 1
    /\ copyPc' = "open"
    /\ UNCHANGED <<trees, plan, treeTry, copied, neglected, call>>

LeaveCopy(result) ==
    /\ copyPc' = "idle"
    /\ copied' = result
    /\ plan' = <<>>
    /\ entries' = {}
    /\ leaf' = "none"
    /\ fileTry' = 0
    /\ treeTry' = 0

ReturnCopy(result) == LeaveCopy(result) /\ UNCHANGED call

\* A pass over the tree failed: all of it is copied once more, or not.
PassFails ==
    IF treeTry < TreeTries
    THEN /\ treeTry' = treeTry + 1
         /\ entries' = Present(Job.src)
         /\ leaf' = "none"
         /\ fileTry' = 0
         /\ copyPc' = "entry"
         /\ UNCHANGED <<plan, copied, call>>
    ELSE ReturnCopy("error")

\* A directory cannot be made, opened or read to its end.
ScanFails ==
    /\ copyPc = "entry"
    /\ "scan" \in TreeFaults
    /\ PassFails
    /\ UNCHANGED <<trees, neglected>>

\* Mutant: a file that could not be copied is left out of any copy.
SkipsFile ==
    /\ leaf' = "none"
    /\ fileTry' = 0
    /\ copyPc' = "entry"
    /\ UNCHANGED <<plan, entries, treeTry, copied, call>>

\* Only a best-effort copy goes on without the file.
GivesUpFile ==
    IF Job.mode = "best_effort"
    THEN /\ leaf' = "none"
         /\ fileTry' = 0
         /\ copyPc' = "entry"
         /\ UNCHANGED <<plan, entries, treeTry, copied, call>>
    ELSE PassFails

TryFileAgain ==
    IF fileTry < FileTries
    THEN /\ fileTry' = fileTry + 1
         /\ copyPc' = "open"
         /\ UNCHANGED <<plan, entries, leaf, treeTry, copied, call>>
    ELSE GivesUpFile

\* Mutant: what was written so far stays.
KeepsTorn == UNCHANGED <<trees, neglected>> /\ TryFileAgain

\* Mutant: the file is removed where it came from.
RemovesSource ==
    /\ trees' = [trees EXCEPT ![Job.src][leaf] = Absent]
    /\ UNCHANGED neglected
    /\ TryFileAgain

\* The target is removed, also when it was there before and not yet touched.
\* What remove returns is ignored: the target may still be there, old or torn.
FileFails ==
    /\ \/ /\ Fill(Absent)
          /\ neglected' = neglected \ {Target}
       \/ /\ "remove" \in TreeFaults
          /\ trees["install"][Target] # Absent
          /\ neglected' = neglected \cup {Target}
          /\ UNCHANGED trees
    /\ TryFileAgain

OpenFiles ==
    /\ copyPc = "open"
    /\ \/ /\ Fill(Torn)
          /\ neglected' = neglected \ {Target}
          /\ copyPc' = "write"
          /\ UNCHANGED <<plan, entries, leaf, fileTry, treeTry, copied, call>>
       \/ /\ "open" \in TreeFaults
          /\ FileFails

FileDone ==
    /\ copyPc' = "entry"
    /\ leaf' = "none"
    /\ fileTry' = 0
    /\ UNCHANGED <<plan, entries, treeTry, copied, call>>

WriteFile ==
    /\ copyPc = "write"
    /\ \/ /\ Fill(trees[Job.src][leaf])
          /\ FileDone
          /\ UNCHANGED neglected
       \/ /\ "flush" \in TreeFaults
          /\ neglected' = neglected \cup {Target}
          /\ FileDone
          /\ UNCHANGED trees
       \/ /\ "write" \in TreeFaults
          /\ FileFails

EndPass ==
    /\ copyPc = "entry"
    /\ entries = {}
    /\ IF Len(plan) = 1
       THEN ReturnCopy("ok")
       ELSE /\ plan' = Tail(plan)
            /\ entries' = Present(plan[2].src)
            /\ treeTry' = 1
            /\ UNCHANGED <<leaf, copyPc, fileTry, copied, call>>
    /\ UNCHANGED <<trees, neglected>>

\* Nobody asks what a killed call had to do.
KillCopy ==
    /\ copyPc # "idle"
    /\ LeaveCopy("killed")
    /\ neglected' = {}
    /\ asked' = <<>>
    /\ before' = trees["install"]
    /\ UNCHANGED trees

TreesNext ==
    \/ \E p \in Jobs : StartCopy(p)
    \/ \E f \in Leaves : NextEntry(f)
    \/ ScanFails
    \/ OpenFiles
    \/ WriteFile
    \/ EndPass
    \/ KillCopy

TreesSpec == TreesInit /\ [][TreesNext]_treeVars
-----------------------------------------------------------------------------
\* A copy changes its target directory and nothing else, whatever fails on the
\* way; in the target it changes no file that has no counterpart in the source
\* (update_ops.c:83-135, 295-367).
OnlyNamed ==
    [][\A d \in DOMAIN trees, f \in Leaves :
           trees'[d][f] # trees[d][f] =>
               /\ d = "install"
               /\ f \in Present(Job.src) \cup {"updater_new"}]_treeVars

\* An overlay never reaches into the updater that is running; it lays the new
\* one beside it (update_ops.c:167-200, update.h:89-91).
UpdaterSpared ==
    [][plan # <<>> /\ Job.mode = "overlay" =>
           trees'["install"]["updater"] = trees["install"]["updater"]]_treeVars

\* A call that reports success, after any failures, retries and killed calls,
\* has brought over each file of its sources, the staging tree before the
\* backup, and has left every other file as it was.  Only a best-effort copy
\* may have left files out, and those are gone.  It says nothing of the files
\* whose last bytes fclose did not get to the disk, nor of those a best-effort
\* copy left out and failed to remove: they are torn or old (update_ops.c:371-472
\* with :105, 113, 117 and 130; tests/test_merge_overlay.c:18-60).  Any other
\* copy that succeeds has opened each target anew after a failed removal.
Asked(modes) == \E i \in DOMAIN asked : asked[i].mode \in modes
FromStaging(f) == Asked({"overlay"})
    /\ \E g \in Present("staging") : DstLeaf(g, "overlay") = f
FromBackup(f) == Asked({"copy", "best_effort"}) /\ f \in Present("backup")

CopyResult ==
    copied = "ok" =>
        \A f \in Leaves \ neglected :
            trees["install"][f] \in
                IF FromStaging(f) THEN {"staging"}
                ELSE IF ~FromBackup(f) THEN {before[f]}
                ELSE IF Asked({"best_effort"}) THEN {"backup", Absent}
                ELSE {"backup"}

\* A call that returned, with success or not, has left no file half written
\* that fclose completed and no removal failed on: each has its old content, the
\* new one, or is gone (update_ops.c:101-131, where both results are ignored).
NoTornFile ==
    copyPc = "idle" /\ copied \in {"ok", "error"} =>
        \A f \in Leaves \ neglected :
            trees["install"][f] = Torn => before[f] = Torn
==============================================================================
