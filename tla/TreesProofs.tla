----------------------------- MODULE TreesProofs -----------------------------
(***************************************************************************)
(* Theorems about Trees: what the copies bring over, touch and leave       *)
(* behind, for any files, any layout and any number of tries.              *)
(***************************************************************************)
EXTENDS Trees, TLAPS

Dirs == {"install", "backup", "staging"}
Sources == {"backup", "staging"}
Modes == {"copy", "best_effort", "overlay"}

CopyJobs == [src : Sources, mode : Modes]

TreesTyped ==
    /\ trees \in [Dirs -> [Leaves -> Dirs \cup {Absent, Torn}]]
    /\ before \in [Leaves -> Dirs \cup {Absent, Torn}]
    /\ copyPc \in {"idle", "entry", "open", "write"}
    /\ neglected \subseteq Leaves

\* The copies come from the backup or the staging tree, and one is current as
\* long as a call runs.
PlanOK ==
    /\ plan \in Jobs \cup {<<>>, <<CopyJob("staging", "overlay")>>}
    /\ copyPc # "idle" => plan # <<>>

\* What is copied is there in the source, which no copy changes.
LeafOK ==
    /\ copyPc # "idle" => entries \subseteq Present(Job.src)
    /\ copyPc \in {"open", "write"} => leaf \in Present(Job.src)

\* A source holds whole files only.
SourcesWhole == \A d \in Sources, f \in Leaves : trees[d][f] # Torn

\* A file of the target that is torn was so when the call began, was left so by
\* fclose or a removal that failed, or is the one that is being written.
TornOK ==
    \A f \in Leaves \ neglected :
        trees["install"][f] = Torn =>
            \/ before[f] = Torn
            \/ copyPc = "write" /\ f = Target

TInv == TreesTyped /\ PlanOK /\ LeafOK /\ SourcesWhole /\ TornOK
-----------------------------------------------------------------------------
\* Every current copy is one of a source, in one of the three modes.
LEMMA PlanJobs ==
  ASSUME PlanOK, plan # <<>>
  PROVE  /\ Job \in CopyJobs
         /\ Len(plan) # 1 => /\ Tail(plan) = <<CopyJob("staging", "overlay")>>
                             /\ plan[2] = CopyJob("staging", "overlay")
<1> DEFINE overlay == CopyJob("staging", "overlay")
<1> USE DEF Job, CopyJobs, Sources, Modes
<1>1. CopyJob("backup", "copy") \in CopyJobs
      /\ CopyJob("backup", "best_effort") \in CopyJobs
      /\ overlay \in CopyJobs
  BY DEF CopyJob
<1>2. \/ plan = <<CopyJob("backup", "copy")>>
      \/ plan = <<CopyJob("backup", "best_effort")>>
      \/ plan = <<overlay>>
      \/ plan = <<CopyJob("backup", "copy"), overlay>>
  BY DEF PlanOK, Jobs
<1> HIDE DEF overlay, CopyJobs
<1>3. CASE plan = <<CopyJob("backup", "copy"), overlay>>
  BY <1>1, <1>3 DEF overlay
<1>4. CASE Len(plan) = 1
  BY <1>1, <1>2, <1>4
<1> QED
  BY <1>2, <1>3, <1>4

\* The target of a file is the file itself or the updater_new of an overlay,
\* and never the updater of an overlay (update_ops.c:167-200).
LEMMA TargetNamed ==
  ASSUME leaf \in Leaves
  PROVE  /\ Target \in Leaves
         /\ Target \in {leaf, "updater_new"}
         /\ Job.mode = "overlay" => Target # "updater"
BY TreesAssumption DEF Target, DstLeaf

LEMMA TInvInit == TreesInit => TInv
<1> SUFFICES ASSUME TreesInit PROVE TInv
  OBVIOUS
<1>1. PICK l \in Layouts :
          trees = [d \in DOMAIN l |->
                      [f \in Leaves |-> IF f \in l[d] THEN d ELSE Absent]]
  BY DEF TreesInit
<1>2. l \in [Dirs -> SUBSET Leaves]
  BY TreesAssumption DEF Dirs
<1>3. trees = [d \in Dirs |->
                  [f \in Leaves |-> IF f \in l[d] THEN d ELSE Absent]]
  BY <1>1, <1>2
<1>4. TreesTyped /\ PlanOK /\ LeafOK
  BY <1>3 DEF TreesInit, TreesTyped, PlanOK, LeafOK, Dirs
<1>5. SourcesWhole /\ TornOK
  BY <1>3 DEF TreesInit, SourcesWhole, TornOK, Dirs, Sources, Absent, Torn
<1> QED
  BY <1>4, <1>5 DEF TInv

\* How a call goes on after a file or a pass: it returns, takes the next file,
\* or tries the same one again.
Continues ==
    /\ before' = before
    /\ \/ copyPc' = "idle" /\ plan' = <<>>
       \/ /\ copyPc' = "entry"
          /\ plan' = plan
          /\ entries' \in {entries, Present(Job.src)}
       \/ /\ copyPc \in {"open", "write"}
          /\ copyPc' = "open"
          /\ plan' = plan
          /\ entries' = entries
          /\ leaf' = leaf

LEMMA TriesContinue ==
  \/ PassFails
  \/ FileDone
  \/ copyPc \in {"open", "write"} /\ TryFileAgain
  => Continues
BY DEF PassFails, FileDone, TryFileAgain, GivesUpFile, ReturnCopy, LeaveCopy,
       call, Continues

\* What a step may do to the disk on the way there: nothing, complete or remove
\* the target, or fail to do so unnoticed.
Settles ==
    \/ copyPc = "entry" /\ UNCHANGED <<trees, neglected>>
    \/ /\ copyPc \in {"open", "write"}
       /\ \E c \in Dirs \cup {Absent} : Fill(c)
       /\ neglected' \in {neglected, neglected \ {Target}}
    \/ /\ copyPc \in {"open", "write"}
       /\ neglected' = neglected \cup {Target}
       /\ UNCHANGED trees

LEMMA ContinuesKeeps ==
  ASSUME TInv, copyPc # "idle", Continues, Settles
  PROVE  TInv'
<1> USE DEF TInv, TreesTyped
<1>1. Job \in CopyJobs /\ Job.src \in Sources /\ Job.src \in Dirs
  BY PlanJobs DEF PlanOK, CopyJobs, Dirs, Sources
<1>2. copyPc \in {"open", "write"} => leaf \in Leaves /\ Target \in Leaves
  BY TargetNamed DEF LeafOK, Present
<1>3. /\ trees' \in [Dirs -> [Leaves -> Dirs \cup {Absent, Torn}]]
      /\ neglected' \subseteq Leaves
      /\ \A d \in Sources : trees'[d] = trees[d]
      /\ \A f \in Leaves \ neglected' :
             trees'["install"][f] = Torn => before[f] = Torn
  <2>1. CASE copyPc = "entry" /\ UNCHANGED <<trees, neglected>>
    BY <2>1 DEF TornOK
  <2>2. CASE /\ copyPc \in {"open", "write"}
             /\ \E c \in Dirs \cup {Absent} : Fill(c)
             /\ neglected' \in {neglected, neglected \ {Target}}
    <3>1. PICK c \in Dirs \cup {Absent} : Fill(c)
      BY <2>2
    <3>2. c # Torn
      BY DEF Dirs, Absent, Torn
    <3>3. trees'["install"] = [trees["install"] EXCEPT ![Target] = c]
      BY <3>1 DEF Fill, Dirs
    <3>4. \A d \in Sources : trees'[d] = trees[d]
      BY <3>1 DEF Fill, Dirs, Sources
    <3>5. trees' \in [Dirs -> [Leaves -> Dirs \cup {Absent, Torn}]]
      BY <3>1, <1>2, <2>2 DEF Fill, Dirs
    <3> QED
      BY <1>2, <2>2, <3>2, <3>3, <3>4, <3>5 DEF TornOK, Dirs
  <2>3. CASE /\ copyPc \in {"open", "write"}
             /\ neglected' = neglected \cup {Target}
             /\ UNCHANGED trees
    BY <1>2, <2>3 DEF TornOK
  <2> QED
    BY <2>1, <2>2, <2>3 DEF Settles
<1>4. TreesTyped' /\ TornOK'
  BY <1>3 DEF Continues, TornOK
<1>5. PlanOK'
  BY DEF PlanOK, Continues
<1>6. \A d \in Sources : Present(d)' = Present(d)
  BY <1>3 DEF Present
<1>7. LeafOK'
  <2>1. CASE copyPc' = "idle"
    BY <2>1 DEF LeafOK
  <2>2. CASE copyPc' # "idle"
    <3>1. plan' = plan /\ Job' = Job /\ Present(Job.src)' = Present(Job.src)
      BY <1>1, <1>6, <2>2 DEF Continues, Job
    <3>2. copyPc' = "open" => copyPc \in {"open", "write"} /\ leaf' = leaf
      BY DEF Continues
    <3>3. entries' \subseteq Present(Job.src)
      BY <2>2 DEF Continues, LeafOK
    <3>4. copyPc' # "write"
      BY DEF Continues
    <3> QED
      BY <2>2, <3>1, <3>2, <3>3, <3>4 DEF LeafOK
  <2> QED
    BY <2>1, <2>2
<1>8. SourcesWhole'
  BY <1>3 DEF SourcesWhole
<1> QED
  BY <1>4, <1>5, <1>7, <1>8

LEMMA TInvNext == TInv /\ [TreesNext]_treeVars => TInv'
<1> SUFFICES ASSUME TInv, [TreesNext]_treeVars PROVE TInv'
  OBVIOUS
<1> USE DEF TInv, TreesTyped
<1>1. ASSUME NEW p \in Jobs, StartCopy(p) PROVE TInv'
  <2>1. plan' = p /\ copyPc' = "entry" /\ UNCHANGED trees
    BY <1>1 DEF StartCopy
  <2>2. entries' = Present(Job.src)'
    BY <1>1, <2>1 DEF StartCopy, Job, Present
  <2>3. TreesTyped' /\ TornOK' /\ SourcesWhole'
    BY <1>1 DEF StartCopy, SourcesWhole, TornOK, Dirs
  <2>4. \A a, b : <<a>> # <<>> /\ <<a, b>> # <<>>
    OBVIOUS
  <2>5. p # <<>>
    BY <2>4 DEF Jobs
  <2>6. PlanOK'
    BY <2>1, <2>5 DEF PlanOK
  <2>7. LeafOK'
    BY <2>1, <2>2 DEF LeafOK
  <2> QED
    BY <2>3, <2>6, <2>7
<1>2. ASSUME NEW f \in Leaves, NextEntry(f) PROVE TInv'
  <2>1. Job' = Job /\ UNCHANGED trees /\ Present(Job.src)' = Present(Job.src)
    BY <1>2 DEF NextEntry, Job, Present
  <2>2. TreesTyped' /\ PlanOK' /\ SourcesWhole' /\ TornOK'
    BY <1>2, <2>1 DEF NextEntry, call, PlanOK, SourcesWhole, TornOK
  <2>3. LeafOK'
    BY <1>2, <2>1 DEF NextEntry, LeafOK
  <2> QED
    BY <2>2, <2>3
<1>3. CASE ScanFails
  BY <1>3, TriesContinue, ContinuesKeeps DEF ScanFails, Settles
<1>4. CASE OpenFiles
  <2>1. CASE "open" \in TreeFaults /\ FileFails
    BY <1>4, <2>1, TriesContinue, ContinuesKeeps DEF OpenFiles, FileFails,
       Settles
  <2>2. CASE /\ Fill(Torn)
             /\ neglected' = neglected \ {Target}
             /\ copyPc' = "write"
             /\ UNCHANGED <<plan, entries, leaf, fileTry, treeTry, copied, call>>
    <3>1. Job \in CopyJobs /\ Job.src \in Sources
      BY <1>4, PlanJobs DEF OpenFiles, PlanOK, CopyJobs
    <3>2. leaf \in Leaves /\ Target \in Leaves
      BY <1>4, TargetNamed DEF OpenFiles, LeafOK, Present
    <3>3. /\ trees' \in [Dirs -> [Leaves -> Dirs \cup {Absent, Torn}]]
          /\ \A d \in Sources : trees'[d] = trees[d]
          /\ trees'["install"] = [trees["install"] EXCEPT ![Target] = Torn]
      BY <2>2, <3>2 DEF Fill, Dirs, Sources
    <3>4. Job' = Job /\ Target' = Target
      BY <2>2 DEF Job, Target, DstLeaf
    <3>5. Present(Job.src)' = Present(Job.src)
      BY <3>1, <3>3, <3>4 DEF Present
    <3>6. TornOK'
      BY <2>2, <3>2, <3>3, <3>4 DEF TornOK, call, Dirs
    <3>7. LeafOK' /\ PlanOK' /\ SourcesWhole'
      BY <1>4, <2>2, <3>3, <3>4, <3>5 DEF OpenFiles, LeafOK, PlanOK,
         SourcesWhole
    <3> QED
      BY <2>2, <3>3, <3>6, <3>7 DEF call
  <2> QED
    BY <1>4, <2>1, <2>2 DEF OpenFiles
<1>5. CASE WriteFile
  <2>1. leaf \in Leaves /\ Job.src \in Sources /\ copyPc = "write"
    BY <1>5, PlanJobs DEF WriteFile, PlanOK, LeafOK, Present, CopyJobs
  <2>2. trees[Job.src][leaf] \in Dirs \cup {Absent}
    BY <2>1 DEF SourcesWhole, Sources, Dirs
  <2> QED
    BY <1>5, <2>1, <2>2, TriesContinue, ContinuesKeeps
       DEF WriteFile, FileFails, Settles
<1>6. CASE EndPass
  <2>1. UNCHANGED <<trees, neglected, before>> /\ copyPc = "entry"
    BY <1>6 DEF EndPass, ReturnCopy, LeaveCopy, call
  <2>2. CASE Len(plan) = 1
    BY <1>6, <2>1, <2>2 DEF EndPass, ReturnCopy, LeaveCopy, call, PlanOK,
       LeafOK, SourcesWhole, TornOK
  <2>3. CASE Len(plan) # 1
    <3>1. /\ plan' = <<CopyJob("staging", "overlay")>>
          /\ entries' = Present("staging")
          /\ copyPc' = "entry"
      BY <1>6, <2>1, <2>3, PlanJobs DEF EndPass, PlanOK, CopyJob
    <3>2. Job'.src = "staging" /\ Present("staging")' = Present("staging")
      BY <2>1, <3>1 DEF Job, CopyJob, Present
    <3> QED
      BY <2>1, <3>1, <3>2 DEF PlanOK, LeafOK, SourcesWhole, TornOK
  <2> QED
    BY <2>2, <2>3
<1>7. CASE KillCopy
  BY <1>7 DEF KillCopy, LeaveCopy, PlanOK, LeafOK, SourcesWhole, TornOK, Dirs
<1>8. CASE UNCHANGED treeVars
  BY <1>8 DEF treeVars, call, PlanOK, LeafOK, SourcesWhole, TornOK, Job,
     Present, Target, DstLeaf
<1> QED
  BY <1>1, <1>2, <1>3, <1>4, <1>5, <1>6, <1>7, <1>8 DEF TreesNext

LEMMA TInvHolds == TreesSpec => []TInv
BY TInvInit, TInvNext, PTL DEF TreesSpec
-----------------------------------------------------------------------------
\* A call that returned, after whatever failures, retries and kills before it,
\* has left no file half written but one whose last bytes fclose lost or whose
\* removal failed, results the code does not look at (update_ops.c:101-131).
THEOREM NothingTorn == TreesSpec => []NoTornFile
<1>1. TInv => NoTornFile
  BY DEF TInv, TornOK, NoTornFile
<1> QED
  BY <1>1, TInvHolds, PTL

\* Every change of the disk is one of the target of the file being copied.
LEMMA OnlyTarget ==
  ASSUME TInv, [TreesNext]_treeVars, trees' # trees
  PROVE  /\ plan # <<>>
         /\ leaf \in Present(Job.src)
         /\ \E c : trees' = [trees EXCEPT !["install"][Target] = c]
<1>1. OpenFiles \/ WriteFile
  BY DEF TreesNext, treeVars, StartCopy, NextEntry, ScanFails, EndPass,
     KillCopy
<1>2. \E c : Fill(c)
  BY <1>1 DEF OpenFiles, WriteFile, FileFails
<1> QED
  BY <1>1, <1>2 DEF OpenFiles, WriteFile, Fill, TInv, PlanOK, LeafOK

LEMMA ChangesTarget ==
  ASSUME TInv, [TreesNext]_treeVars,
         NEW d \in Dirs, NEW f \in Leaves, trees'[d][f] # trees[d][f]
  PROVE  /\ d = "install"
         /\ f = Target
         /\ plan # <<>>
         /\ leaf \in Present(Job.src)
<1>1. PICK c : trees' = [trees EXCEPT !["install"][Target] = c]
  BY OnlyTarget
<1>2. plan # <<>> /\ leaf \in Present(Job.src)
  BY OnlyTarget
<1> QED
  BY <1>1, <1>2 DEF TInv, TreesTyped, Dirs

\* Whatever fails on the way, a copy changes nothing but the files of its
\* target that its source names, and updater_new (update_ops.c:83-135, 295-367).
THEOREM OnlyNamedChange == TreesSpec => OnlyNamed
<1>1. ASSUME TInv, [TreesNext]_treeVars
      PROVE  \A d \in DOMAIN trees, f \in Leaves :
                 trees'[d][f] # trees[d][f] =>
                     /\ d = "install"
                     /\ f \in Present(Job.src) \cup {"updater_new"}
  <2> SUFFICES ASSUME NEW d \in DOMAIN trees, NEW f \in Leaves,
                      trees'[d][f] # trees[d][f]
               PROVE  /\ d = "install"
                      /\ f \in Present(Job.src) \cup {"updater_new"}
    OBVIOUS
  <2>1. d \in Dirs
    BY <1>1 DEF TInv, TreesTyped
  <2>2. d = "install" /\ f = Target /\ leaf \in Present(Job.src)
    BY <1>1, <2>1, ChangesTarget
  <2> QED
    BY <2>2, TargetNamed DEF Present
<1> QED
  BY <1>1, TInvHolds, PTL DEF TreesSpec, OnlyNamed

\* An overlay leaves the updater that is running alone (update_ops.c:167-200).
THEOREM OverlaySparesUpdater == TreesSpec => UpdaterSpared
<1>1. ASSUME TInv, [TreesNext]_treeVars, plan # <<>>, Job.mode = "overlay"
      PROVE  trees'["install"]["updater"] = trees["install"]["updater"]
  <2> SUFFICES ASSUME trees'["install"]["updater"] # trees["install"]["updater"]
               PROVE  FALSE
    OBVIOUS
  <2>1. "updater" = Target /\ leaf \in Leaves
    BY <1>1, ChangesTarget, TreesAssumption DEF Dirs, Present
  <2> QED
    BY <1>1, <2>1, TargetNamed
<1> QED
  BY <1>1, TInvHolds, PTL DEF TreesSpec, UpdaterSpared
-----------------------------------------------------------------------------
(***************************************************************************)
(* What a copy that succeeds has brought over.                             *)
(***************************************************************************)
Overlay == CopyJob("staging", "overlay")
Merge == <<CopyJob("backup", "copy"), Overlay>>

\* A file of a source is the one it had from the start.
Pure == \A d \in Sources, f \in Leaves : trees[d][f] \in {d, Absent}

\* A call does what it was asked; a merge is in its first or its second copy.
AskedOK ==
    /\ asked \in Jobs \cup {<<>>}
    /\ copyPc # "idle" =>
           /\ copied = "none"
           /\ asked \in Jobs
           /\ plan = asked \/ (asked = Merge /\ plan = <<Overlay>>)

Copying == copyPc \in {"open", "write"}

\* Target f belongs to a file of the current copy; one of those was done.
Named(f) == \E g \in Present(Job.src) : DstLeaf(g, Job.mode) = f
Finished(f) ==
    \E g \in Present(Job.src) \ entries :
        (Copying => g # leaf) /\ DstLeaf(g, Job.mode) = f

\* What f was before the current copy.
Base(f) ==
    IF plan # asked /\ f \in Present("backup") THEN "backup" ELSE before[f]

Brings == IF Job.mode = "best_effort" THEN {Job.src, Absent} ELSE {Job.src}

\* How far a call has come with each file but the one it is at.
Progress ==
    copyPc # "idle" =>
        \A f \in Leaves \ neglected :
            ~(Copying /\ f = Target) =>
                /\ ~Named(f) => trees["install"][f] = Base(f)
                /\ Finished(f) => trees["install"][f] \in Brings

RInv == TInv /\ Pure /\ AskedOK /\ Progress /\ CopyResult

\* What a step reads of the sources and of the call does not change under it.
Steady ==
    /\ \A d \in Sources : trees'[d] = trees[d]
    /\ UNCHANGED <<plan, asked, before>>

LEMMA SteadyReads ==
  ASSUME TInv, copyPc # "idle", Steady
  PROVE  /\ Job' = Job /\ Job.src \in Sources
         /\ \A d \in Sources : Present(d)' = Present(d)
         /\ \A f : Named(f)' <=> Named(f)
         /\ \A f : Base(f)' = Base(f)
         /\ Brings' = Brings
<1>1. Job' = Job /\ Job.src \in Sources
  BY PlanJobs DEF TInv, PlanOK, Steady, Job, CopyJobs
<1>2. \A d \in Sources : Present(d)' = Present(d)
  BY DEF Steady, Present
<1>3. Present(Job.src)' = Present(Job.src)
  BY <1>1, <1>2
<1>4. Present("backup")' = Present("backup")
  BY <1>2 DEF Sources
<1> QED
  BY <1>1, <1>2, <1>3, <1>4 DEF Named, Base, Brings, Steady, DstLeaf

\* Every step of a call that changes the disk leaves the sources alone.
LEMMA SourcesSteady ==
  ASSUME TInv, [TreesNext]_treeVars
  PROVE  \A d \in Sources : trees'[d] = trees[d]
<1>1. CASE trees' = trees
  BY <1>1
<1>2. CASE trees' # trees
  <2>1. PICK c : trees' = [trees EXCEPT !["install"][Target] = c]
    BY <1>2, OnlyTarget
  <2> QED
    BY <2>1 DEF TInv, TreesTyped, Dirs, Sources
<1> QED
  BY <1>1, <1>2

\* A step that takes the next file, goes back to the current one or to the
\* beginning of the pass, or leaves a file that is done behind.
Moves ==
    \/ /\ copyPc = "entry"
       /\ \E f \in entries : leaf' = f /\ entries' = entries \ {f}
       /\ copyPc' = "open"
    \/ Copying /\ Copying' /\ UNCHANGED <<leaf, entries>>
    \/ copyPc' = "entry" /\ entries' = Present(Job.src)
    \/ /\ Copying /\ copyPc' = "entry" /\ entries' = entries
       /\ Target \in neglected' \/ trees'["install"][Target] \in Brings

LEMMA MovesKeep ==
  ASSUME RInv, copyPc # "idle", Steady, Moves,
         \A f \in Leaves : ~(Copying /\ f = Target) =>
             /\ trees'["install"][f] = trees["install"][f]
             /\ f \notin neglected' => f \notin neglected
  PROVE  Progress'
<1> SUFFICES ASSUME NEW f \in Leaves \ neglected', ~(Copying /\ f = Target)'
             PROVE  /\ ~Named(f)' => trees'["install"][f] = Base(f)'
                    /\ Finished(f)' => trees'["install"][f] \in Brings'
  BY DEF Progress
<1>1. /\ Job' = Job /\ Present(Job.src)' = Present(Job.src)
      /\ Named(f)' <=> Named(f)
      /\ Base(f)' = Base(f)
      /\ Brings' = Brings
  BY SteadyReads DEF RInv
<1>2. Copying => Named(Target)
  BY DEF RInv, TInv, LeafOK, Copying, Named, Target
<1>3. ASSUME ~(Copying /\ f = Target)
      PROVE  /\ trees'["install"][f] = trees["install"][f]
             /\ ~Named(f) => trees["install"][f] = Base(f)
             /\ Finished(f) => trees["install"][f] \in Brings
  BY <1>3 DEF RInv, Progress
<1>4. ~Named(f)' => trees'["install"][f] = Base(f)'
  BY <1>1, <1>2, <1>3
<1>5. ASSUME Finished(f)'
      PROVE  trees'["install"][f] \in Brings'
  <2>1. PICK g \in Present(Job.src) \ entries' :
            (Copying' => g # leaf') /\ DstLeaf(g, Job.mode) = f
    BY <1>1, <1>5 DEF Finished
  <2>2. CASE /\ copyPc = "entry"
             /\ \E h \in entries : leaf' = h /\ entries' = entries \ {h}
             /\ copyPc' = "open"
    <3>1. g \in Present(Job.src) \ entries /\ ~Copying
      BY <2>1, <2>2 DEF Copying
    <3> QED
      BY <1>1, <1>3, <2>1, <3>1 DEF Finished
  <2>3. CASE Copying /\ Copying' /\ UNCHANGED <<leaf, entries>>
    <3>1. Target' = Target
      BY <1>1, <2>3 DEF Target, DstLeaf
    <3> QED
      BY <1>1, <1>3, <2>1, <2>3, <3>1 DEF Finished
  <2>4. CASE copyPc' = "entry" /\ entries' = Present(Job.src)
    BY <2>1, <2>4
  <2>5. CASE /\ Copying /\ copyPc' = "entry" /\ entries' = entries
             /\ Target \in neglected' \/ trees'["install"][Target] \in Brings
    <3>1. CASE f = Target
      BY <1>1, <2>5, <3>1
    <3>2. CASE f # Target
      <4>1. g # leaf
        BY <2>1, <3>2 DEF Target
      <4> QED
        BY <1>1, <1>3, <2>1, <2>5, <3>2, <4>1 DEF Finished
    <3> QED
      BY <3>1, <3>2
  <2> QED
    BY <2>2, <2>3, <2>4, <2>5 DEF Moves
<1> QED
  BY <1>4, <1>5

\* A pass that ends has brought over every file its source names.
LEMMA PassDone ==
  ASSUME RInv, copyPc = "entry", entries = {}
  PROVE  \A f \in Leaves \ neglected :
             trees["install"][f] \in IF Named(f) THEN Brings ELSE {Base(f)}
<1>1. \A f : Named(f) => Finished(f)
  BY DEF Named, Finished, Copying
<1> QED
  BY <1>1 DEF RInv, Progress, Copying

LEMMA JobKinds ==
  /\ Jobs = {<<CopyJob("backup", "copy")>>, <<CopyJob("backup", "best_effort")>>,
             <<Overlay>>, Merge}
  /\ CopyJob("backup", "copy") = [src |-> "backup", mode |-> "copy"]
  /\ CopyJob("backup", "best_effort") = [src |-> "backup", mode |-> "best_effort"]
  /\ Overlay = [src |-> "staging", mode |-> "overlay"]
BY DEF Jobs, Merge, Overlay, CopyJob

\* What the last pass has done is what the caller is told.
LEMMA ResultTold ==
  ASSUME RInv, copyPc = "entry", entries = {}, Len(plan) = 1
  PROVE  \A f \in Leaves \ neglected :
             trees["install"][f] \in
                 IF FromStaging(f) THEN {"staging"}
                 ELSE IF ~FromBackup(f) THEN {before[f]}
                 ELSE IF Asked({"best_effort"}) THEN {"backup", Absent}
                 ELSE {"backup"}
<1> SUFFICES ASSUME NEW f \in Leaves \ neglected
             PROVE  trees["install"][f] \in
                        IF FromStaging(f) THEN {"staging"}
                        ELSE IF ~FromBackup(f) THEN {before[f]}
                        ELSE IF Asked({"best_effort"}) THEN {"backup", Absent}
                        ELSE {"backup"}
  OBVIOUS
<1>1. trees["install"][f] \in IF Named(f) THEN Brings ELSE {Base(f)}
  BY PassDone
<1>2. /\ asked \in Jobs
      /\ plan = asked \/ (asked = Merge /\ plan = <<Overlay>>)
  BY DEF RInv, AskedOK
<1>3. \A g \in Leaves : DstLeaf(g, "copy") = g /\ DstLeaf(g, "best_effort") = g
  BY DEF DstLeaf
<1>4. ASSUME NEW m \in {"copy", "best_effort"}, asked = <<CopyJob("backup", m)>>
      PROVE  /\ plan = asked /\ Job.src = "backup" /\ Job.mode = m
             /\ ~Asked({"overlay"}) /\ Asked({"copy", "best_effort"})
             /\ Asked({"best_effort"}) <=> m = "best_effort"
  <2>1. plan = asked
    BY <1>2, <1>4 DEF Merge, Overlay, CopyJob
  <2>2. asked[1].mode = m /\ asked[1].src = "backup" /\ DOMAIN asked = {1}
    BY <1>4 DEF CopyJob
  <2> QED
    BY <2>1, <2>2 DEF Job, Asked
<1>5. ASSUME NEW m \in {"copy", "best_effort"}, asked = <<CopyJob("backup", m)>>
      PROVE  trees["install"][f] \in
                 IF ~FromBackup(f) THEN {before[f]}
                 ELSE IF Asked({"best_effort"}) THEN {"backup", Absent}
                 ELSE {"backup"}
  <2>1. Named(f) <=> FromBackup(f)
    BY <1>3, <1>4, <1>5 DEF Named, FromBackup, Present
  <2>2. Base(f) = before[f]
    BY <1>4, <1>5 DEF Base
  <2>3. Brings = IF Asked({"best_effort"}) THEN {"backup", Absent} ELSE {"backup"}
    BY <1>4, <1>5 DEF Brings
  <2> QED
    BY <1>1, <2>1, <2>2, <2>3
<1>6. CASE \E m \in {"copy", "best_effort"} : asked = <<CopyJob("backup", m)>>
  <2>1. ~FromStaging(f)
    BY <1>4, <1>6 DEF FromStaging
  <2> QED
    BY <1>5, <1>6, <2>1
<1>7. CASE asked \in {<<Overlay>>, Merge}
  <2>1. plan = <<Overlay>>
    BY <1>2, <1>7 DEF Merge
  <2>2. Job.src = "staging" /\ Job.mode = "overlay" /\ Brings = {"staging"}
    BY <2>1 DEF Job, Overlay, CopyJob, Brings
  <2>3. Asked({"overlay"}) /\ ~Asked({"best_effort"})
    BY <1>7 DEF Asked, Merge, Overlay, CopyJob
  <2>4. Named(f) <=> FromStaging(f)
    BY <2>2, <2>3 DEF Named, FromStaging
  <2>5. Asked({"copy", "best_effort"}) <=> asked # plan
    BY <1>7, <2>1 DEF Asked, Merge, Overlay, CopyJob
  <2>6. Base(f) = IF FromBackup(f) THEN "backup" ELSE before[f]
    BY <2>5 DEF Base, FromBackup
  <2> QED
    BY <1>1, <2>2, <2>3, <2>4, <2>6
<1> QED
  BY <1>2, <1>6, <1>7, JobKinds

LEMMA PureKept ==
  ASSUME RInv, [TreesNext]_treeVars
  PROVE  Pure'
BY SourcesSteady DEF RInv, Pure

\* A step that goes on with the call, as PassFails, FileDone and TryFileAgain do.
LEMMA GoesOn ==
  ASSUME RInv, [TreesNext]_treeVars, copyPc # "idle", Continues, Settles,
         copied' = copied, asked' = asked, copyPc' # "idle",
         \/ copyPc' = "entry" /\ entries' = Present(Job.src)
         \/ Copying /\ Copying' /\ UNCHANGED <<leaf, entries>>
         \/ /\ Copying /\ copyPc' = "entry" /\ entries' = entries
            /\ Target \in neglected' \/ trees'["install"][Target] \in Brings
  PROVE  AskedOK' /\ Progress' /\ CopyResult'
<1>1. Steady
  BY SourcesSteady DEF RInv, Continues, Steady
<1>2. AskedOK' /\ CopyResult'
  BY <1>1 DEF RInv, AskedOK, Steady, CopyResult
<1>3. ASSUME NEW f \in Leaves, ~(Copying /\ f = Target)
      PROVE  /\ trees'["install"][f] = trees["install"][f]
             /\ f \notin neglected' => f \notin neglected
  <2>1. CASE UNCHANGED <<trees, neglected>>
    BY <2>1
  <2>2. CASE /\ copyPc \in {"open", "write"}
             /\ \E c \in Dirs \cup {Absent} : Fill(c)
             /\ neglected' \in {neglected, neglected \ {Target}}
    <3>1. PICK c \in Dirs \cup {Absent} : Fill(c)
      BY <2>2
    <3>2. f # Target
      BY <1>3, <2>2 DEF Copying
    <3>3. trees'["install"][f] = trees["install"][f]
      BY <3>1, <3>2 DEF Fill, RInv, TInv, TreesTyped, Dirs
    <3> QED
      BY <2>2, <3>2, <3>3
  <2>3. CASE /\ copyPc \in {"open", "write"}
             /\ neglected' = neglected \cup {Target}
             /\ UNCHANGED trees
    BY <1>3, <2>3
  <2> QED
    BY <2>1, <2>2, <2>3 DEF Settles
<1>4. Moves
  BY DEF Moves
<1>5. Progress'
  BY <1>1, <1>3, <1>4, MovesKeep
<1> QED
  BY <1>2, <1>5

\* A call that returns an error says nothing of the files.
LEMMA GivesUp ==
  ASSUME RInv, ReturnCopy("error")
  PROVE  AskedOK' /\ Progress' /\ CopyResult'
BY DEF RInv, ReturnCopy, LeaveCopy, call, AskedOK, Progress, CopyResult

LEMMA TargetGone ==
  ASSUME RInv, copyPc # "idle", leaf \in Leaves, NEW c, Fill(c)
  PROVE  trees'["install"][Target] = c
BY TargetNamed DEF RInv, TInv, TreesTyped, Fill, Dirs

\* A file that could not be copied.
LEMMA FailedFileKeeps ==
  ASSUME RInv, [TreesNext]_treeVars, Copying, FileFails
  PROVE  AskedOK' /\ Progress' /\ CopyResult'
<1>1. /\ Continues /\ copyPc # "idle" /\ leaf \in Leaves
      /\ Fill(Absent) \/ Target \in neglected'
  BY TriesContinue
     DEF Copying, FileFails, RInv, TInv, LeafOK, Present
<1>2. Settles
  BY DEF Copying, FileFails, Settles
<1>3. CASE ReturnCopy("error")
  BY <1>3, GivesUp
<1>4. CASE ~ReturnCopy("error")
  <2>1. copyPc' # "idle" /\ copied' = copied /\ asked' = asked
    BY <1>4 DEF FileFails, TryFileAgain, GivesUpFile, PassFails, call,
       ReturnCopy
  <2>2. \/ copyPc' = "entry" /\ entries' = Present(Job.src)
        \/ Copying' /\ UNCHANGED <<leaf, entries>>
        \/ /\ copyPc' = "entry" /\ entries' = entries
           /\ Job.mode = "best_effort"
    BY <1>4 DEF FileFails, TryFileAgain, GivesUpFile, PassFails, Copying
  <2>3. Job.mode = "best_effort" =>
            Target \in neglected' \/ trees'["install"][Target] \in Brings
    BY <1>1, TargetGone DEF Brings
  <2> QED
    BY <1>1, <1>2, <2>1, <2>2, <2>3, GoesOn
<1> QED
  BY <1>3, <1>4

LEMMA RInvNext == RInv /\ [TreesNext]_treeVars => RInv'
<1> SUFFICES ASSUME RInv, [TreesNext]_treeVars
             PROVE  AskedOK' /\ Progress' /\ CopyResult'
  BY PureKept, TInvNext DEF RInv
<1>1. ASSUME NEW p \in Jobs, StartCopy(p)
      PROVE  AskedOK' /\ Progress' /\ CopyResult'
  <2>1. /\ plan' = p /\ asked' = p /\ before' = trees["install"]
        /\ copied' = "none" /\ copyPc' = "entry" /\ UNCHANGED trees
        /\ entries' = Present(Job.src)'
    BY <1>1 DEF StartCopy, Present, Job
  <2>2. ~Copying' /\ \A f : ~Finished(f)' /\ Base(f)' = before'[f]
    BY <2>1 DEF Copying, Finished, Base
  <2> QED
    BY <2>1, <2>2 DEF AskedOK, Progress, CopyResult
<1>2. ASSUME NEW f \in Leaves, NextEntry(f)
      PROVE  AskedOK' /\ Progress' /\ CopyResult'
  <2>1. /\ copyPc = "entry" /\ ~Copying
        /\ UNCHANGED <<trees, plan, copied, neglected, asked, before>>
        /\ leaf' = f /\ f \in entries /\ entries' = entries \ {f}
        /\ copyPc' = "open"
    BY <1>2 DEF NextEntry, call, Copying
  <2>2. Steady /\ Moves /\ copyPc # "idle"
    BY <2>1 DEF Steady, Moves
  <2>3. AskedOK' /\ CopyResult'
    BY <2>1 DEF RInv, AskedOK, CopyResult
  <2>4. Progress'
    BY <2>1, <2>2, MovesKeep
  <2> QED
    BY <2>3, <2>4
<1>3. CASE ScanFails
  <2>1. CASE ReturnCopy("error")
    BY <2>1, GivesUp
  <2>2. CASE ~ReturnCopy("error")
    <3>1. /\ Continues /\ Settles /\ copyPc = "entry" /\ copyPc' = "entry"
          /\ entries' = Present(Job.src)
          /\ copied' = copied /\ asked' = asked
      BY <1>3, <2>2, TriesContinue DEF ScanFails, PassFails, Settles, call
    <3> QED
      BY <3>1, GoesOn
  <2> QED
    BY <2>1, <2>2
<1>4. CASE OpenFiles
  <2>1. CASE FileFails
    BY <1>4, <2>1, FailedFileKeeps DEF OpenFiles, Copying
  <2>2. CASE /\ Fill(Torn)
             /\ neglected' = neglected \ {Target}
             /\ copyPc' = "write"
             /\ UNCHANGED <<plan, entries, leaf, fileTry, treeTry, copied, call>>
    <3>1. Steady /\ copyPc # "idle" /\ Copying /\ Copying'
      BY <1>4, <2>2, SourcesSteady DEF Steady, OpenFiles, Copying, RInv, call
    <3>2. Moves
      BY <2>2, <3>1 DEF Moves
    <3>3. ASSUME NEW f \in Leaves, ~(Copying /\ f = Target)
          PROVE  /\ trees'["install"][f] = trees["install"][f]
                 /\ f \notin neglected' => f \notin neglected
      BY <2>2, <3>1, <3>3 DEF Fill, RInv, TInv, TreesTyped, Dirs
    <3>4. Progress'
      BY <3>1, <3>2, <3>3, MovesKeep
    <3>5. AskedOK' /\ CopyResult'
      BY <2>2, <3>1 DEF RInv, AskedOK, CopyResult, call
    <3> QED
      BY <3>4, <3>5
  <2> QED
    BY <1>4, <2>1, <2>2 DEF OpenFiles
<1>5. CASE WriteFile
  <2>1. /\ copyPc = "write" /\ Copying /\ leaf \in Leaves
        /\ leaf \in Present(Job.src) /\ Job.src \in Sources
    BY <1>5, PlanJobs DEF WriteFile, Copying, RInv, TInv, LeafOK, Present,
       PlanOK, CopyJobs
  <2>2. CASE FileFails
    BY <2>1, <2>2, FailedFileKeeps
  <2>3. CASE FileDone /\ Fill(trees[Job.src][leaf]) /\ UNCHANGED neglected
    <3>1. trees[Job.src][leaf] = Job.src
      BY <2>1 DEF RInv, Pure, Present
    <3>2. trees'["install"][Target] \in Brings
      BY <2>1, <2>3, <3>1, TargetGone DEF Brings
    <3>3. Continues /\ Settles
      BY <2>1, <2>3, <3>1, TriesContinue DEF Settles, Sources, Dirs
    <3> QED
      BY <2>1, <2>3, <3>2, <3>3, GoesOn DEF FileDone, call
  <2>4. CASE /\ FileDone /\ neglected' = neglected \cup {Target}
             /\ UNCHANGED trees
    <3>1. Continues /\ Settles
      BY <2>1, <2>4, TriesContinue DEF Settles
    <3> QED
      BY <2>1, <2>4, <3>1, GoesOn DEF FileDone, call
  <2> QED
    BY <1>5, <2>2, <2>3, <2>4 DEF WriteFile
<1>6. CASE EndPass
  <2>1. /\ copyPc = "entry" /\ entries = {} /\ ~Copying
        /\ UNCHANGED <<trees, neglected, asked, before>>
    BY <1>6 DEF EndPass, ReturnCopy, LeaveCopy, call, Copying
  <2>2. CASE Len(plan) = 1
    <3>1. copyPc' = "idle" /\ copied' = "ok"
      BY <1>6, <2>2 DEF EndPass, ReturnCopy, LeaveCopy
    <3>2. \A f \in Leaves : /\ FromStaging(f)' <=> FromStaging(f)
                            /\ FromBackup(f)' <=> FromBackup(f)
      BY <2>1 DEF FromStaging, FromBackup, Asked, Present
    <3>3. Asked({"best_effort"})' <=> Asked({"best_effort"})
      BY <2>1 DEF Asked
    <3>4. CopyResult'
      BY <2>1, <2>2, <3>2, <3>3, ResultTold DEF CopyResult
    <3> QED
      BY <2>1, <3>1, <3>4 DEF RInv, AskedOK, Progress
  <2>3. CASE Len(plan) # 1
    <3>1. asked = Merge /\ plan = Merge /\ Job = CopyJob("backup", "copy")
      <4>1. plan = asked \/ plan = <<Overlay>>
        BY <2>1 DEF RInv, AskedOK
      <4>2. plan = Merge
        BY <2>1, <2>3, <4>1, JobKinds DEF RInv, AskedOK
      <4> QED
        BY <2>1, <4>2, <4>1 DEF RInv, AskedOK, Merge, Job
    <3>2. /\ plan' = <<Overlay>> /\ copyPc' = "entry" /\ copied' = copied
          /\ entries' = Present("staging")
      BY <1>6, <2>1, <2>3, PlanJobs DEF EndPass, RInv, TInv, PlanOK, Overlay,
         CopyJob
    <3>3. plan' # asked' /\ Job'.src = "staging" /\ ~Copying'
      BY <2>1, <3>1, <3>2 DEF Merge, Overlay, CopyJob, Job, Copying
    <3>4. Present(Job.src)' = entries' /\ Present("backup")' = Present("backup")
      BY <2>1, <3>2, <3>3 DEF Present
    <3>5. \A f : ~Finished(f)'
      BY <3>3, <3>4 DEF Finished
    <3>6. \A f \in Leaves \ neglected : trees["install"][f] = Base(f)'
      <4> SUFFICES ASSUME NEW f \in Leaves \ neglected
                   PROVE  trees["install"][f] = Base(f)'
        OBVIOUS
      <4>1. trees["install"][f] \in IF Named(f) THEN Brings ELSE {Base(f)}
        BY <2>1, PassDone
      <4>2. Job.src = "backup" /\ Job.mode = "copy"
        BY <3>1 DEF CopyJob
      <4>3. Named(f) <=> f \in Present("backup")
        BY <4>2 DEF Named, DstLeaf
      <4>4. Brings = {"backup"} /\ Base(f) = before[f]
        BY <3>1, <4>2 DEF Brings, Base
      <4> QED
        BY <2>1, <3>3, <3>4, <4>1, <4>3, <4>4 DEF Base
    <3> QED
      BY <2>1, <3>1, <3>2, <3>5, <3>6 DEF RInv, AskedOK, Progress, CopyResult
  <2> QED
    BY <2>2, <2>3
<1>7. CASE KillCopy
  BY <1>7 DEF KillCopy, LeaveCopy, AskedOK, Progress, CopyResult
<1>8. CASE UNCHANGED treeVars
  <2>1. UNCHANGED <<trees, plan, entries, leaf, copyPc, copied, neglected, asked, before>>
    BY <1>8 DEF treeVars, call
  <2>2. AskedOK'
    BY <2>1 DEF RInv, AskedOK
  <2>3. \A f \in Leaves : /\ FromStaging(f)' <=> FromStaging(f)
                          /\ FromBackup(f)' <=> FromBackup(f)
    BY <2>1 DEF FromStaging, FromBackup, Asked, Present
  <2>4. Asked({"best_effort"})' <=> Asked({"best_effort"})
    BY <2>1 DEF Asked
  <2>5. CopyResult'
    BY <2>1, <2>3, <2>4 DEF RInv, CopyResult
  <2>6. Progress'
    BY <2>1 DEF RInv, Progress, Copying, Named, Finished, Base, Brings,
       Present,
               Target, DstLeaf, Job
  <2> QED
    BY <2>2, <2>5, <2>6
<1> QED
  BY <1>1, <1>2, <1>3, <1>4, <1>5, <1>6, <1>7, <1>8 DEF TreesNext

\* A call that reports success, after whatever failures, retries and kills, has
\* brought over each file of its sources and left every other one as it was,
\* but for the files fclose cut short and those a best-effort copy left out: it
\* removed them, or failed to and did not notice (update_ops.c:371-472, 130).
THEOREM CopiesArrive == TreesSpec => []CopyResult
<1>1. TreesInit => RInv
  <2> SUFFICES ASSUME TreesInit PROVE Pure /\ AskedOK /\ Progress /\ CopyResult
    BY TInvInit DEF RInv
  <2>1. PICK l \in Layouts :
            trees = [d \in DOMAIN l |->
                        [f \in Leaves |-> IF f \in l[d] THEN d ELSE Absent]]
    BY DEF TreesInit
  <2>2. DOMAIN l = Dirs
    BY TreesAssumption DEF Dirs
  <2>3. Pure
    BY <2>1, <2>2 DEF Pure, Sources, Dirs
  <2> QED
    BY <2>3 DEF TreesInit, AskedOK, Progress, CopyResult
<1>2. RInv => CopyResult
  BY DEF RInv
<1> QED
  BY <1>1, <1>2, RInvNext, PTL DEF TreesSpec
==============================================================================
