---------------------------- MODULE SessionProofs ----------------------------
(***************************************************************************)
(* Theorems about the library for any number of threads, calls, packages   *)
(* and verifiers.                                                          *)
(***************************************************************************)
EXTENDS Session, TLAPS

(***************************************************************************)
(* What a call has at each point, whatever other threads do.               *)
(***************************************************************************)
Shape(l) ==
    /\ l.call = "none" <=> l.pc = "idle"
    /\ l.call = "none" => l.place = None /\ l.guard = None
    /\ l.call = "check" => l.pc = "manifest" /\ l.place = None
    /\ l.call = "download" =>
          l.pc \in {"open", "receive", "verify"} /\ l.place \in Dests
    /\ l.call = "apply" =>
          /\ l.pc \in {"context", "spawn"}
          /\ l.place \in Dests /\ l.want = None /\ l.guard = None
    /\ l.call = "perform" =>
          /\ l.pc \in {"manifest", "base", "workdir"} => l.place = None
          /\ l.pc \notin {"manifest", "base", "workdir"} =>
                l.place \in Workdirs
          /\ l.pc # "manifest" => l.want # None
    /\ l.call # "none" => l.result = "none"

Shapes == \A t \in Threads : Shape(loc[t])

LEMMA IdleLocal ==
    ASSUME NEW r \in {"none", "ok", "error", "noop", "started"}
    PROVE  /\ [Idle EXCEPT !.result = r] \in Local
           /\ Shape([Idle EXCEPT !.result = r])
BY DEF Idle, Local, Calls, Shape

\* A step that changes the copies of one thread, to a well-typed record of the
\* right shape, keeps those of all.
LEMMA OneLocal ==
    ASSUME TypeOK, Shapes, NEW t \in Threads, NEW l \in Local, Shape(l),
           loc' = [loc EXCEPT ![t] = l]
    PROVE  loc' \in [Threads -> Local] /\ Shapes'
<1>1. loc' \in [Threads -> Local]
    BY DEF TypeOK
<1>2. \A u \in Threads : loc'[u] = IF u = t THEN l ELSE loc[u]
    BY DEF TypeOK
<1> QED
    BY <1>1, <1>2 DEF Shapes

\* What Goto writes.
LEMMA PcLocal ==
    ASSUME TypeOK, NEW t \in Threads, NEW c \in Calls, Goto(t, c)
    PROVE  /\ [loc[t] EXCEPT !.pc = c] \in Local
           /\ loc' = [loc EXCEPT ![t] = [loc[t] EXCEPT !.pc = c]]
<1>1. loc[t] \in Local
    BY DEF TypeOK
<1> QED
    BY <1>1 DEF Goto, Local, TypeOK

Typed == loc' \in [Threads -> Local] /\ leaked' \in BOOLEAN /\ Shapes'

LEMMA ReturnTyped ==
    ASSUME TypeOK, Shapes, NEW t \in Threads,
           NEW r \in {"ok", "error", "noop", "started"},
           NEW dropped \in BOOLEAN, Return(t, r, dropped)
    PROVE  Typed
<1>1. [Idle EXCEPT !.result = r] \in Local
      /\ Shape([Idle EXCEPT !.result = r])
    BY IdleLocal
<1>2. loc' \in [Threads -> Local] /\ Shapes'
    BY <1>1, OneLocal DEF Return
<1> QED
    BY <1>2 DEF Return, Typed, TypeOK

FilesTyped ==
    /\ made' \subseteq Workdirs
    /\ part' \subseteq Places
    /\ zip' \in [Places -> Contents \cup {None}]

LEMMA FailTyped ==
    ASSUME TypeOK, Shapes, NEW t \in Threads, NEW dropped \in BOOLEAN,
           Fail(t, dropped)
    PROVE  Typed /\ FilesTyped
<1>1. Typed
    BY ReturnTyped DEF Fail
<1>2. FilesTyped
    BY DEF Fail, FilesTyped, TypeOK, files
<1> QED
    BY <1>1, <1>2

LEMMA FailDownloadTyped ==
    ASSUME TypeOK, Shapes, NEW t \in Threads, FailDownload(t)
    PROVE  Typed /\ FilesTyped
<1>1. CASE Fail(t, FALSE)
    BY <1>1, FailTyped
<1>2. CASE Return(t, "error", FALSE) /\ part' = part \ {loc[t].place}
           /\ UNCHANGED <<made, zip>>
    <2>1. Typed
        BY <1>2, ReturnTyped
    <2> QED
        BY <1>2, <2>1 DEF FilesTyped, TypeOK
<1> QED
    BY <1>1, <1>2 DEF FailDownload

\* A step of a call that goes on.
LEMMA GotoTyped ==
    ASSUME TypeOK, Shapes, NEW t \in Threads, NEW c \in Calls, Goto(t, c),
           Shape([loc[t] EXCEPT !.pc = c]), UNCHANGED leaked
    PROVE  Typed
<1>1. [loc[t] EXCEPT !.pc = c] \in Local
      /\ loc' = [loc EXCEPT ![t] = [loc[t] EXCEPT !.pc = c]]
    BY PcLocal
<1>2. loc' \in [Threads -> Local] /\ Shapes'
    BY <1>1, OneLocal
<1> QED
    BY <1>2 DEF Typed, TypeOK

LEMMA BeginTyped ==
    ASSUME TypeOK, Shapes, NEW t \in Threads, Begin(t)
    PROVE  TypeOK' /\ Shapes'
<1> USE SessionAssumption
<1>1. ASSUME NEW a \in Apps, OpenSession(t, a) PROVE TypeOK' /\ Shapes'
    BY <1>1 DEF OpenSession, TypeOK, Shapes, files
<1>2. CASE Shutdown(t)
    BY <1>2 DEF Shutdown, TypeOK, Shapes, files, Closed
<1>3. ASSUME NEW v \in Verifiers \cup {None}, SetVerifier(t, v)
      PROVE  TypeOK' /\ Shapes'
    <2>1. ASSUME NEW u \in Threads
          PROVE  /\ loc'[u] \in Local
                 /\ Shape(loc'[u])
        <3>1. loc[u] \in Local /\ Shape(loc[u])
            BY DEF TypeOK, Shapes
        <3>2. CASE loc'[u] = loc[u]
            BY <3>1, <3>2
        <3>3. CASE loc'[u] = [loc[u] EXCEPT !.guard = None]
            BY <3>1, <3>3 DEF Local, Shape
        <3> QED
            BY <1>3, <3>2, <3>3 DEF SetVerifier
    <2>2. loc' \in [Threads -> Local]
        BY <1>3, <2>1 DEF SetVerifier
    <2>3. ctx' \in [app : Apps \cup {None}, sig : Verifiers \cup {None}]
        BY <1>3 DEF SetVerifier, TypeOK
    <2> QED
        BY <1>3, <2>1, <2>2, <2>3 DEF SetVerifier, TypeOK, Shapes, files
<1>4. ASSUME NEW call \in {"check", "perform"}, Check(t, call)
      PROVE  TypeOK' /\ Shapes'
    <2> DEFINE l == [Idle EXCEPT !.pc = "manifest", !.call = call,
                                 !.guard = ctx.sig]
    <2>1. l \in Local /\ Shape(l)
        BY DEF Idle, Local, Calls, Shape, TypeOK
    <2>2. loc' \in [Threads -> Local] /\ Shapes'
        BY <1>4, <2>1, OneLocal DEF Check
    <2> QED
        BY <1>4, <2>2 DEF Check, TypeOK, files
<1>5. ASSUME NEW d \in Dests, Download(t, d) PROVE TypeOK' /\ Shapes'
    <2>1. PICK w \in {Pin[ctx.app], None} :
              loc' = [loc EXCEPT ![t] = [Idle EXCEPT !.pc = "open",
                                                     !.call = "download",
                                                     !.place = d,
                                                     !.want = w,
                                                     !.pinned = Pin[ctx.app]]]
        BY <1>5 DEF Download
    <2> DEFINE l == [Idle EXCEPT !.pc = "open", !.call = "download",
                                 !.place = d, !.want = w,
                                 !.pinned = Pin[ctx.app]]
    <2>2. Pin[ctx.app] \in Contents \cup {None}
        BY <1>5 DEF Download, TypeOK
    <2>3. l \in Local /\ Shape(l)
        BY <2>1, <2>2 DEF Idle, Local, Calls, Shape, Places
    <2>4. loc' \in [Threads -> Local] /\ Shapes'
        BY <2>1, <2>3, OneLocal
    <2> QED
        BY <1>5, <2>4 DEF Download, TypeOK, files
<1>6. ASSUME NEW d \in Dests, Apply(t, d) PROVE TypeOK' /\ Shapes'
    <2> DEFINE l == [Idle EXCEPT !.pc = "context", !.call = "apply",
                                 !.place = d]
    <2>1. l \in Local /\ Shape(l)
        BY DEF Idle, Local, Calls, Shape, Places
    <2>2. loc' \in [Threads -> Local] /\ Shapes'
        BY <1>6, <2>1, OneLocal DEF Apply
    <2> QED
        BY <1>6, <2>2 DEF Apply, TypeOK, files
<1> QED
    BY <1>1, <1>2, <1>3, <1>4, <1>5, <1>6 DEF Begin

LEMMA SameFiles ==
    ASSUME TypeOK, UNCHANGED files
    PROVE  FilesTyped
BY DEF TypeOK, files, FilesTyped

LEMMA StepTyped ==
    ASSUME TypeOK, Shapes, NEW t \in Threads, Step(t)
    PROVE  TypeOK' /\ Shapes'
<1>0. loc[t] \in Local /\ Shape(loc[t])
    BY DEF TypeOK, Shapes
<1> USE SameFiles, ReturnTyped, FailTyped, FailDownloadTyped
<1>1. CASE Manifest(t)
    <2>1. CASE Return(t, "error", FALSE) \/ Return(t, "ok", FALSE)
               \/ \E h \in BOOLEAN : Return(t, "noop", h)
        <3>1. Typed
            BY <2>1
        <3> QED
            BY <1>1, <3>1 DEF Manifest, Typed, TypeOK, files
    <2>2. ASSUME NEW c \in Contents, NEW h \in BOOLEAN, UNCHANGED leaked,
                 loc[t].call = "perform", loc[t].pc = "manifest",
                 loc' = [loc EXCEPT ![t].pc = "base", ![t].want = c,
                                    ![t].held = h]
          PROVE  TypeOK' /\ Shapes'
        <3> DEFINE l == [loc[t] EXCEPT !.pc = "base", !.want = c, !.held = h]
        <3>1. l \in Local
            BY <1>0 DEF Local, Calls
        <3>2. Shape(l)
            BY <1>0, <2>2, SessionAssumption DEF Shape, Local
        <3>3. loc' = [loc EXCEPT ![t] = l]
            BY <2>2 DEF TypeOK, Local
        <3>4. loc' \in [Threads -> Local] /\ Shapes'
            BY <3>1, <3>2, <3>3, OneLocal
        <3> QED
            BY <1>1, <2>2, <3>4 DEF Manifest, TypeOK, files
    <2> QED
        BY <1>1, <2>1, <2>2 DEF Manifest, At
<1>2. CASE TempBase(t)
    <2>1. CASE Goto(t, "workdir") /\ UNCHANGED leaked
        <3>1. Shape([loc[t] EXCEPT !.pc = "workdir"])
            BY <1>0, <1>2 DEF TempBase, At, Shape, Local
        <3> QED
            BY <1>2, <2>1, <3>1, GotoTyped
                DEF TempBase, Typed, TypeOK, files, Calls
    <2>2. CASE Return(t, "error", loc[t].held)
        BY <1>0, <1>2, <2>2 DEF TempBase, Typed, TypeOK, files, Local
    <2> QED
        BY <1>2, <2>1, <2>2 DEF TempBase
<1>3. CASE MakeWorkdir(t)
    <2>1. CASE Return(t, "error", loc[t].held) /\ UNCHANGED made
        BY <1>0, <1>3, <2>1 DEF MakeWorkdir, Typed, TypeOK, Local
    <2>2. ASSUME NEW d \in Workdirs, made' = made \cup {d}, UNCHANGED leaked,
                 loc' = [loc EXCEPT ![t].pc = "names", ![t].place = d]
          PROVE  TypeOK' /\ Shapes'
        <3> DEFINE l == [loc[t] EXCEPT !.pc = "names", !.place = d]
        <3>1. l \in Local
            BY <1>0 DEF Local, Calls, Places
        <3>2. Shape(l)
            BY <1>0, <1>3 DEF Shape, Local, MakeWorkdir, At
        <3>3. loc' = [loc EXCEPT ![t] = l]
            BY <2>2 DEF TypeOK, Local
        <3>4. loc' \in [Threads -> Local] /\ Shapes'
            BY <3>1, <3>2, <3>3, OneLocal
        <3> QED
            BY <1>3, <2>2, <3>4 DEF MakeWorkdir, TypeOK
    <2> QED
        BY <1>3, <2>1, <2>2 DEF MakeWorkdir
<1>4. CASE Names(t)
    <2>1. CASE Fail(t, loc[t].held) \/ Fail(t, FALSE)
        <3>1. Typed /\ FilesTyped
            BY <1>0, <2>1 DEF Local
        <3> QED
            BY <1>4, <3>1 DEF Names, Typed, FilesTyped, TypeOK
    <2>2. CASE loc' = [loc EXCEPT ![t].pc = "open", ![t].held = FALSE]
               /\ UNCHANGED <<files, leaked>>
        <3> DEFINE l == [loc[t] EXCEPT !.pc = "open", !.held = FALSE]
        <3>1. l \in Local
            BY <1>0 DEF Local, Calls
        <3>2. Shape(l)
            BY <1>0, <1>4 DEF Shape, Local, Names, At
        <3>3. loc' = [loc EXCEPT ![t] = l]
            BY <2>2 DEF TypeOK, Local
        <3>4. loc' \in [Threads -> Local] /\ Shapes'
            BY <3>1, <3>2, <3>3, OneLocal
        <3> QED
            BY <1>4, <2>2, <3>4 DEF Names, TypeOK, files
    <2> QED
        BY <1>4, <2>1, <2>2 DEF Names
<1>5. CASE OpenPart(t)
    <2>1. CASE Goto(t, "receive") /\ part' = part \cup {loc[t].place}
               /\ loc[t].place \in made \cup Dests
               /\ UNCHANGED <<made, zip, leaked>>
        <3>1. Shape([loc[t] EXCEPT !.pc = "receive"])
            BY <1>0, <1>5 DEF OpenPart, At, Shape, Local
        <3>2. Typed
            BY <2>1, <3>1, GotoTyped DEF Calls
        <3> QED
            BY <1>5, <2>1, <3>2 DEF OpenPart, Typed, TypeOK, Places
    <2>2. CASE FailDownload(t)
        BY <1>5, <2>2 DEF OpenPart, Typed, FilesTyped, TypeOK
    <2> QED
        BY <1>5, <2>1, <2>2 DEF OpenPart
<1>6. CASE Receive(t)
    <2>1. ASSUME NEW c \in Contents, Goto(t, "verify"),
                 part' = part \ {loc[t].place},
                 zip' = [zip EXCEPT ![loc[t].place] = c],
                 UNCHANGED <<made, leaked>>
          PROVE  TypeOK' /\ Shapes'
        <3>1. Shape([loc[t] EXCEPT !.pc = "verify"])
            BY <1>0, <1>6 DEF Receive, At, Shape, Local
        <3>2. Typed
            BY <2>1, <3>1, GotoTyped DEF Calls
        <3> QED
            BY <1>6, <2>1, <3>2 DEF Receive, Typed, TypeOK
    <2>2. CASE FailDownload(t)
        BY <1>6, <2>2 DEF Receive, Typed, FilesTyped, TypeOK
    <2> QED
        BY <1>6, <2>1, <2>2 DEF Receive
<1>7. CASE VerifyPackage(t)
    <2>1. CASE Goto(t, "ask") /\ UNCHANGED <<files, leaked>>
        <3>1. Shape([loc[t] EXCEPT !.pc = "ask"])
            BY <1>0, <1>7 DEF VerifyPackage, At, Shape, Local
        <3> QED
            BY <1>7, <2>1, <3>1, GotoTyped
                DEF VerifyPackage, Typed, TypeOK, files, Calls
    <2>2. CASE Fail(t, FALSE)
        BY <1>7, <2>2 DEF VerifyPackage, Typed, FilesTyped, TypeOK
    <2> QED
        BY <1>7, <2>1, <2>2 DEF VerifyPackage
<1>8. CASE VerifyDownload(t)
    <2>1. Typed
        BY <1>8 DEF VerifyDownload
    <2> QED
        BY <1>8, <2>1 DEF VerifyDownload, Typed, TypeOK
<1>9. CASE AskVerifier(t)
    <2> DEFINE c == IF ctx.sig = None THEN "context" ELSE "signature"
               l == [loc[t] EXCEPT !.sig = ctx.sig, !.pc = c]
    <2>1. l \in Local
        BY <1>0 DEF Local, Calls, TypeOK
    <2>2. Shape(l)
        BY <1>0, <1>9 DEF Shape, Local, AskVerifier, At
    <2>3. loc' = [loc EXCEPT ![t] = l]
        BY <1>9 DEF AskVerifier, TypeOK, Local
    <2>4. loc' \in [Threads -> Local] /\ Shapes'
        BY <2>1, <2>2, <2>3, OneLocal
    <2> QED
        BY <1>9, <2>4 DEF AskVerifier, TypeOK, files
<1>10. CASE CallVerifier(t)
    <2>1. CASE Goto(t, "context") /\ UNCHANGED <<files, leaked>>
        <3>1. Shape([loc[t] EXCEPT !.pc = "context"])
            BY <1>0, <1>10 DEF CallVerifier, At, Shape, Local
        <3> QED
            BY <1>10, <2>1, <3>1, GotoTyped
                DEF CallVerifier, Typed, TypeOK, files, Calls
    <2>2. CASE Fail(t, FALSE)
        BY <1>10, <2>2 DEF CallVerifier, Typed, FilesTyped, TypeOK
    <2> QED
        BY <1>10, <2>1, <2>2 DEF CallVerifier
<1>11. CASE ReadContext(t)
    <2>1. CASE Goto(t, "spawn") /\ UNCHANGED <<files, leaked>>
        <3>1. Shape([loc[t] EXCEPT !.pc = "spawn"])
            BY <1>0, <1>11 DEF ReadContext, At, Shape, Local
        <3> QED
            BY <1>11, <2>1, <3>1, GotoTyped
                DEF ReadContext, Typed, TypeOK, files, Calls
    <2>2. CASE Fail(t, FALSE)
        BY <1>11, <2>2 DEF ReadContext, Typed, FilesTyped, TypeOK
    <2> QED
        BY <1>11, <2>1, <2>2 DEF ReadContext
<1>12. CASE Spawn(t)
    <2>1. CASE Fail(t, FALSE) /\ UNCHANGED <<started, exited>>
        BY <1>12, <2>1 DEF Spawn, Typed, FilesTyped, TypeOK
    <2>2. CASE Return(t, "started", FALSE)
               /\ started' = started \cup {Record(t)}
               /\ exited' = (loc[t].call = "apply") /\ UNCHANGED files
        <3>1. loc[t].place \in Places
            BY <1>0, <1>12 DEF Spawn, At, Shape, Local, Places
        <3>2. Record(t) \in Updater
            BY <1>0, <3>1 DEF Record, Updater, Local
        <3>3. Typed
            BY <2>2
        <3> QED
            BY <1>12, <2>2, <3>2, <3>3 DEF Spawn, Typed, TypeOK, files
    <2> QED
        BY <1>12, <2>1, <2>2 DEF Spawn
<1> QED
    BY <1>1, <1>2, <1>3, <1>4, <1>5, <1>6, <1>7, <1>8, <1>9, <1>10, <1>11,
       <1>12 DEF Step

LEMMA InitTyped == Init => TypeOK /\ Shapes
<1> SUFFICES ASSUME Init PROVE TypeOK /\ Shapes
    OBVIOUS
<1>1. Idle \in Local /\ Shape(Idle)
    BY DEF Idle, Local, Calls, Shape
<1>2. loc \in [Threads -> Local] /\ Shapes
    BY <1>1 DEF Init, Shapes
<1> QED
    BY <1>2 DEF Init, TypeOK, Closed

LEMMA NextTyped == TypeOK /\ Shapes /\ [Next]_vars => TypeOK' /\ Shapes'
<1> SUFFICES ASSUME TypeOK, Shapes, [Next]_vars PROVE TypeOK' /\ Shapes'
    OBVIOUS
<1>1. CASE UNCHANGED vars
    BY <1>1 DEF vars, TypeOK, Shapes
<1>2. ASSUME NEW t \in Threads, Begin(t) \/ Step(t) PROVE TypeOK' /\ Shapes'
    BY <1>2, BeginTyped, StepTyped
<1> QED
    BY <1>1, <1>2 DEF Next

\* Every reachable state of the library is well typed (update.c).
THEOREM SessionTypeCorrect == Spec => []TypeOK
<1>1. Init => TypeOK /\ Shapes
    BY InitTyped
<1>2. TypeOK /\ Shapes /\ [Next]_vars => TypeOK' /\ Shapes'
    BY NextTyped
<1> QED
    BY <1>1, <1>2, PTL DEF Spec

(***************************************************************************)
(* The package an updater is started for.  It is kept because a working    *)
(* directory has one owner: the call that made it, and after that call the *)
(* updater it started.  A call of update_download writes elsewhere.        *)
(***************************************************************************)
NoSharing == "same_second" \notin Habits

Late == {"ask", "signature", "context", "spawn"}

Exclusive ==
    \A t, u \in Threads :
        t # u /\ loc[t].place \in Workdirs => loc[u].place # loc[t].place

Present == \A t \in Threads : loc[t].place \in Workdirs => loc[t].place \in made

Kept ==
    \A u \in started : u.want # None =>
        /\ u.package \in made
        /\ zip[u.package] = u.want
        /\ \A t \in Threads : loc[t].place # u.package

Verified ==
    \A t \in Threads :
        loc[t].call = "perform" /\ loc[t].pc \in Late =>
            zip[loc[t].place] = loc[t].want

PInv == Exclusive /\ Present /\ Kept /\ Verified

\* A step that leaves the files alone and takes no directory.
LEMMA QuietKeeps ==
    ASSUME TypeOK, Shapes, PInv, NEW t \in Threads, NEW l,
           loc' = [loc EXCEPT ![t] = l],
           l.place = loc[t].place \/ l.place \notin Workdirs,
           l.call = "perform" /\ l.pc \in Late => zip[l.place] = l.want,
           UNCHANGED <<made, zip, started>>
    PROVE  PInv'
<1>1. \A u \in Threads : loc'[u] = IF u = t THEN l ELSE loc[u]
    BY DEF TypeOK
<1>2. Exclusive'
    BY <1>1 DEF PInv, Exclusive
<1>3. Present'
    BY <1>1 DEF PInv, Present
<1>4. Kept'
    <2>1. made \subseteq Workdirs
        BY DEF TypeOK
    <2> QED
        BY <1>1, <2>1 DEF PInv, Kept
<1>5. Verified'
    BY <1>1 DEF PInv, Verified
<1> QED
    BY <1>2, <1>3, <1>4, <1>5 DEF PInv

LEMMA ReturnKeeps ==
    ASSUME TypeOK, Shapes, PInv, NEW t \in Threads, NEW r, NEW dropped,
           Return(t, r, dropped), UNCHANGED <<made, zip, started>>
    PROVE  PInv'
<1> DEFINE l == [Idle EXCEPT !.result = r]
<1>1. l.place \notin Workdirs /\ l.call = "none"
    BY SessionAssumption DEF Idle, Places
<1> QED
    BY <1>1, QuietKeeps DEF Return

\* A failure takes nothing away from another call or from an updater.
LEMMA FailKeeps ==
    ASSUME TypeOK, Shapes, PInv, NEW t \in Threads, NEW dropped,
           Fail(t, dropped), UNCHANGED started
    PROVE  PInv'
<1>1. CASE loc[t].call # "perform"
    BY <1>1, ReturnKeeps DEF Fail, files
<1>2. CASE loc[t].call = "perform"
    <2> DEFINE p == loc[t].place
               l == [Idle EXCEPT !.result = "error"]
    <2>1. l.place = None /\ l.call = "none"
        BY DEF Idle
    <2>2. loc' = [loc EXCEPT ![t] = l]
          /\ made' = made \ {p} /\ zip' = [zip EXCEPT ![p] = None]
        BY <1>2 DEF Fail, Return
    <2> HIDE DEF l
    <2>3. \A u \in Threads : loc'[u] = IF u = t THEN l ELSE loc[u]
        BY <2>2 DEF TypeOK
    <2>4. \A q \in Places : q # p => zip'[q] = zip[q]
        BY <2>2 DEF TypeOK
    <2>5. None \notin Workdirs /\ made \subseteq Workdirs
        BY SessionAssumption DEF Places, TypeOK
    <2>6. p = None \/ p \in Workdirs
        BY <1>2 DEF Shapes, Shape
    <2>7. Exclusive'
        BY <2>1, <2>3, <2>5 DEF PInv, Exclusive
    <2>8. Present'
        BY <2>1, <2>2, <2>3, <2>5 DEF PInv, Present, Exclusive
    <2>9. Kept'
        BY <2>1, <2>2, <2>3, <2>4, <2>5 DEF PInv, Kept, Places
    <2>10. Verified'
        <3> SUFFICES ASSUME NEW u \in Threads, u # t,
                            loc[u].call = "perform", loc[u].pc \in Late
                     PROVE  zip'[loc[u].place] = loc[u].want
            BY <2>1, <2>3 DEF Verified
        <3>1. loc[u].place \in Workdirs
            BY DEF Shapes, Shape, Late
        <3>2. loc[u].place # p
            BY <3>1, <2>5, <2>6 DEF PInv, Exclusive
        <3> QED
            BY <3>1, <3>2, <2>4 DEF PInv, Verified, Places
    <2> QED
        BY <2>7, <2>8, <2>9, <2>10 DEF PInv
<1> QED
    BY <1>1, <1>2

LEMMA FailDownloadKeeps ==
    ASSUME TypeOK, Shapes, PInv, NEW t \in Threads, FailDownload(t),
           UNCHANGED started
    PROVE  PInv'
BY FailKeeps, ReturnKeeps DEF FailDownload

LEMMA BeginKeeps ==
    ASSUME TypeOK, Shapes, PInv, NEW t \in Threads, Begin(t)
    PROVE  PInv'
<1>0. None \notin Workdirs /\ Dests \cap Workdirs = {}
    BY SessionAssumption DEF Places
<1>1. CASE (\E a \in Apps : OpenSession(t, a)) \/ Shutdown(t)
    BY <1>1 DEF OpenSession, Shutdown, files, PInv, Exclusive, Present,
        Kept, Verified
<1>2. ASSUME NEW v \in Verifiers \cup {None}, SetVerifier(t, v) PROVE PInv'
    <2>1. ASSUME NEW u \in Threads
          PROVE  /\ loc'[u].place = loc[u].place
                 /\ loc'[u].call = loc[u].call
                 /\ loc'[u].pc = loc[u].pc
                 /\ loc'[u].want = loc[u].want
        <3>1. loc[u] \in Local
            BY DEF TypeOK
        <3>2. loc'[u] = loc[u] \/ loc'[u] = [loc[u] EXCEPT !.guard = None]
            BY <1>2 DEF SetVerifier
        <3> QED
            BY <3>1, <3>2 DEF Local
    <2>2. UNCHANGED <<made, zip, started>>
        BY <1>2 DEF SetVerifier, files
    <2> QED
        BY <2>1, <2>2 DEF PInv, Exclusive, Present, Kept, Verified
<1>3. ASSUME NEW call \in {"check", "perform"}, Check(t, call) PROVE PInv'
    <2> DEFINE l == [Idle EXCEPT !.pc = "manifest", !.call = call,
                                 !.guard = ctx.sig]
    <2>1. l.place = None /\ l.pc = "manifest"
        BY DEF Idle
    <2>2. loc' = [loc EXCEPT ![t] = l]
          /\ UNCHANGED <<made, zip, started>>
        BY <1>3 DEF Check, files
    <2> HIDE DEF l
    <2> QED
        BY <1>0, <2>1, <2>2, QuietKeeps DEF Late
<1>4. ASSUME NEW d \in Dests, Download(t, d) PROVE PInv'
    <2>1. PICK w \in {Pin[ctx.app], None} :
              loc' = [loc EXCEPT ![t] = [Idle EXCEPT !.pc = "open",
                                                     !.call = "download",
                                                     !.place = d,
                                                     !.want = w,
                                                     !.pinned = Pin[ctx.app]]]
        BY <1>4 DEF Download
    <2> DEFINE l == [Idle EXCEPT !.pc = "open", !.call = "download",
                                 !.place = d, !.want = w,
                                 !.pinned = Pin[ctx.app]]
    <2>2. l.place = d /\ l.call = "download"
        BY DEF Idle
    <2>3. loc' = [loc EXCEPT ![t] = l]
          /\ UNCHANGED <<made, zip, started>>
        BY <1>4, <2>1 DEF Download, files
    <2> HIDE DEF l
    <2> QED
        BY <1>0, <2>2, <2>3, QuietKeeps
<1>5. ASSUME NEW d \in Dests, Apply(t, d) PROVE PInv'
    <2> DEFINE l == [Idle EXCEPT !.pc = "context", !.call = "apply",
                                 !.place = d]
    <2>1. l.place = d /\ l.call = "apply"
        BY DEF Idle
    <2>2. loc' = [loc EXCEPT ![t] = l]
          /\ UNCHANGED <<made, zip, started>>
        BY <1>5 DEF Apply, files
    <2> HIDE DEF l
    <2> QED
        BY <1>0, <2>1, <2>2, QuietKeeps
<1> QED
    BY <1>1, <1>2, <1>3, <1>4, <1>5 DEF Begin

\* A call that only moves on keeps the invariant, if what it moves to needs no
\* package or it has verified one.
LEMMA GotoKeeps ==
    ASSUME TypeOK, Shapes, PInv, NEW t \in Threads, NEW c \in Calls,
           Goto(t, c), UNCHANGED <<made, zip, started>>,
           loc[t].call = "perform" /\ c \in Late =>
               zip[loc[t].place] = loc[t].want
    PROVE  PInv'
<1> DEFINE l == [loc[t] EXCEPT !.pc = c]
<1>1. loc' = [loc EXCEPT ![t] = l]
    BY PcLocal
<1>2. l.place = loc[t].place /\ l.call = loc[t].call /\ l.pc = c
      /\ l.want = loc[t].want
    BY DEF TypeOK, Local
<1> HIDE DEF l
<1> QED
    BY <1>1, <1>2, QuietKeeps

\* A new directory belongs to nobody else.
LEMMA MakeWorkdirKeeps ==
    ASSUME TypeOK, Shapes, PInv, NoSharing, NEW t \in Threads, MakeWorkdir(t)
    PROVE  PInv'
<1>1. CASE Return(t, "error", loc[t].held) /\ UNCHANGED made
    BY <1>1, ReturnKeeps DEF MakeWorkdir
<1>2. ASSUME NEW d \in Workdirs, d \notin made, made' = made \cup {d},
             loc' = [loc EXCEPT ![t].pc = "names", ![t].place = d]
      PROVE  PInv'
    <2> DEFINE l == [loc[t] EXCEPT !.pc = "names", !.place = d]
    <2>1. loc' = [loc EXCEPT ![t] = l]
        BY <1>2 DEF TypeOK, Local
    <2>2. l.place = d /\ l.pc = "names"
        BY DEF TypeOK, Local
    <2> HIDE DEF l
    <2>3. \A u \in Threads : loc'[u] = IF u = t THEN l ELSE loc[u]
        BY <2>1 DEF TypeOK
    <2>4. UNCHANGED <<zip, started>>
        BY MakeWorkdir(t) DEF MakeWorkdir
    <2>5. \A u \in Threads : loc[u].place # d
        BY <1>2 DEF PInv, Present
    <2>6. made' = made \cup {d}
        BY <1>2
    <2>7. d \notin made
        BY <1>2
    <2>8. Exclusive'
        BY <2>2, <2>3, <2>5 DEF PInv, Exclusive
    <2>9. Present'
        BY <2>2, <2>3, <2>6 DEF PInv, Present
    <2>10. Kept'
        BY <2>2, <2>3, <2>4, <2>6, <2>7 DEF PInv, Kept
    <2>11. Verified'
        BY <2>2, <2>3, <2>4 DEF PInv, Verified, Late
    <2> QED
        BY <2>8, <2>9, <2>10, <2>11 DEF PInv
<1> QED
    BY <1>1, <1>2 DEF MakeWorkdir, NoSharing

\* A package arrives under a path that no other call and no updater uses, or
\* under one that is in no working directory.
LEMMA ReceiveKeeps ==
    ASSUME TypeOK, Shapes, PInv, NEW t \in Threads, Receive(t)
    PROVE  PInv'
<1>1. CASE FailDownload(t)
    BY <1>1, FailDownloadKeeps DEF Receive
<1>2. ASSUME NEW c \in Contents, Goto(t, "verify"), loc[t].pc = "receive",
             zip' = [zip EXCEPT ![loc[t].place] = c],
             UNCHANGED <<made, started>>
      PROVE  PInv'
    <2> DEFINE p == loc[t].place
               l == [loc[t] EXCEPT !.pc = "verify"]
    <2>1. loc' = [loc EXCEPT ![t] = l]
        BY <1>2, PcLocal DEF Calls
    <2>2. l.place = p /\ l.pc = "verify"
        BY DEF TypeOK, Local
    <2> HIDE DEF l
    <2>3. \A u \in Threads : loc'[u] = IF u = t THEN l ELSE loc[u]
        BY <2>1 DEF TypeOK
    <2>4. \A q \in Places : q # p => zip'[q] = zip[q]
        BY <1>2 DEF TypeOK
    <2>5. made \subseteq Workdirs
        BY DEF TypeOK
    <2>6. Exclusive'
        BY <2>2, <2>3 DEF PInv, Exclusive
    <2>7. Present'
        BY <1>2, <2>2, <2>3 DEF PInv, Present
    <2>8. Kept'
        BY <1>2, <2>2, <2>3, <2>4, <2>5 DEF PInv, Kept, Places
    <2>9. Verified'
        <3> SUFFICES ASSUME NEW u \in Threads, u # t,
                            loc[u].call = "perform", loc[u].pc \in Late
                     PROVE  zip'[loc[u].place] = loc[u].want
            BY <2>2, <2>3 DEF Verified, Late
        <3>1. loc[u].place \in Workdirs
            BY DEF Shapes, Shape, Late
        <3>2. loc[u].place # p
            BY <3>1 DEF PInv, Exclusive
        <3> QED
            BY <3>1, <3>2, <2>4 DEF PInv, Verified, Places
    <2> QED
        BY <2>6, <2>7, <2>8, <2>9 DEF PInv
<1> QED
    BY <1>1, <1>2 DEF Receive, At

LEMMA StepKeeps ==
    ASSUME TypeOK, Shapes, PInv, NoSharing, NEW t \in Threads, Step(t)
    PROVE  PInv'
<1>0. loc[t] \in Local /\ Shape(loc[t])
    BY DEF TypeOK, Shapes
<1> USE ReturnKeeps, FailKeeps
<1>1. CASE Manifest(t)
    <2>1. ASSUME NEW c \in Contents, NEW h \in BOOLEAN,
                 loc' = [loc EXCEPT ![t].pc = "base", ![t].want = c,
                                    ![t].held = h]
          PROVE  PInv'
        <3> DEFINE l == [loc[t] EXCEPT !.pc = "base", !.want = c, !.held = h]
        <3>1. l.place = loc[t].place /\ l.pc = "base"
            BY <1>0 DEF Local
        <3>2. loc' = [loc EXCEPT ![t] = l]
            BY <2>1 DEF TypeOK, Local
        <3> HIDE DEF l
        <3> QED
            BY <1>1, <3>1, <3>2, QuietKeeps DEF Manifest, files, Late
    <2> QED
        BY <1>1, <2>1 DEF Manifest, files
<1>2. CASE TempBase(t)
    BY <1>2, GotoKeeps DEF TempBase, files, Calls, Late
<1>3. CASE MakeWorkdir(t)
    BY <1>3, MakeWorkdirKeeps
<1>4. CASE Names(t)
    <2>1. CASE loc' = [loc EXCEPT ![t].pc = "open", ![t].held = FALSE]
               /\ UNCHANGED <<files, leaked>>
        <3> DEFINE l == [loc[t] EXCEPT !.pc = "open", !.held = FALSE]
        <3>1. l.place = loc[t].place /\ l.pc = "open"
            BY <1>0 DEF Local
        <3>2. loc' = [loc EXCEPT ![t] = l]
            BY <2>1 DEF TypeOK, Local
        <3> HIDE DEF l
        <3> QED
            BY <1>4, <2>1, <3>1, <3>2, QuietKeeps DEF Names, files, Late
    <2> QED
        BY <1>4, <2>1 DEF Names
<1>5. CASE OpenPart(t)
    BY <1>5, FailDownloadKeeps, GotoKeeps DEF OpenPart, Calls, Late
<1>6. CASE Receive(t)
    BY <1>6, ReceiveKeeps
<1>7. CASE VerifyPackage(t)
    BY <1>7, GotoKeeps DEF VerifyPackage, Matches, files, Calls
<1>8. CASE VerifyDownload(t)
    <2>1. loc[t].call = "download" /\ loc[t].place \in Dests
        BY <1>0, <1>8 DEF VerifyDownload, Shape
    <2>2. CASE Return(t, "ok", FALSE) /\ UNCHANGED zip
        BY <1>8, <2>2 DEF VerifyDownload
    <2>3. CASE Return(t, "error", FALSE)
               /\ zip' = [zip EXCEPT ![loc[t].place] = None]
        <3> DEFINE l == [Idle EXCEPT !.result = "error"]
        <3>1. l.place = None /\ l.call = "none"
            BY DEF Idle
        <3>2. loc' = [loc EXCEPT ![t] = l]
            BY <2>3 DEF Return
        <3> HIDE DEF l
        <3>3. \A u \in Threads : loc'[u] = IF u = t THEN l ELSE loc[u]
            BY <3>2 DEF TypeOK
        <3>4. None \notin Workdirs /\ Workdirs \cap Dests = {}
              /\ made \subseteq Workdirs
            BY SessionAssumption DEF Places, TypeOK
        <3>5. \A q \in Workdirs : zip'[q] = zip[q]
            BY <2>1, <2>3, <3>4 DEF TypeOK, Places
        <3>6. UNCHANGED <<made, started>>
            BY <1>8 DEF VerifyDownload
        <3>7. Exclusive' /\ Present'
            BY <3>1, <3>3, <3>4, <3>6 DEF PInv, Exclusive, Present
        <3>8. Kept'
            BY <3>1, <3>3, <3>4, <3>5, <3>6 DEF PInv, Kept
        <3>9. Verified'
            <4> SUFFICES ASSUME NEW u \in Threads, u # t,
                                loc[u].call = "perform", loc[u].pc \in Late
                         PROVE  zip'[loc[u].place] = loc[u].want
                BY <3>1, <3>3 DEF Verified
            <4>1. loc[u].place \in Workdirs
                BY DEF Shapes, Shape, Late
            <4> QED
                BY <4>1, <3>5 DEF PInv, Verified
        <3> QED
            BY <3>7, <3>8, <3>9 DEF PInv
    <2> QED
        BY <1>8, <2>2, <2>3 DEF VerifyDownload
<1>9. CASE AskVerifier(t)
    <2> DEFINE c == IF ctx.sig = None THEN "context" ELSE "signature"
               l == [loc[t] EXCEPT !.sig = ctx.sig, !.pc = c]
    <2>1. l.place = loc[t].place /\ l.call = loc[t].call
          /\ l.want = loc[t].want
        BY <1>0 DEF Local
    <2>2. loc' = [loc EXCEPT ![t] = l]
        BY <1>9 DEF AskVerifier, TypeOK, Local
    <2> HIDE DEF l
    <2>3. loc[t].call = "perform" => zip[loc[t].place] = loc[t].want
        BY <1>9 DEF AskVerifier, At, PInv, Verified, Late
    <2> QED
        BY <1>9, <2>1, <2>2, <2>3, QuietKeeps DEF AskVerifier, files
<1>10. CASE CallVerifier(t)
    <2>1. loc[t].call = "perform" => zip[loc[t].place] = loc[t].want
        BY <1>10 DEF CallVerifier, At, PInv, Verified, Late
    <2> QED
        BY <1>10, <2>1, GotoKeeps DEF CallVerifier, files, Calls
<1>11. CASE ReadContext(t)
    <2>1. loc[t].call = "perform" => zip[loc[t].place] = loc[t].want
        BY <1>11 DEF ReadContext, At, PInv, Verified, Late
    <2> QED
        BY <1>11, <2>1, GotoKeeps DEF ReadContext, files, Calls
<1>12. CASE Spawn(t)
    <2>1. CASE Fail(t, FALSE) /\ UNCHANGED started
        BY <2>1
    <2>2. CASE Return(t, "started", FALSE)
               /\ started' = started \cup {Record(t)} /\ UNCHANGED files
        <3> DEFINE l == [Idle EXCEPT !.result = "started"]
        <3>1. l.place = None /\ l.call = "none"
            BY DEF Idle
        <3>2. loc' = [loc EXCEPT ![t] = l] /\ UNCHANGED <<made, zip>>
            BY <2>2 DEF Return, files
        <3> HIDE DEF l
        <3>3. \A u \in Threads : loc'[u] = IF u = t THEN l ELSE loc[u]
            BY <3>2 DEF TypeOK
        <3>4. None \notin Workdirs /\ made \subseteq Workdirs
            BY SessionAssumption DEF Places, TypeOK
        <3>5. Exclusive' /\ Present' /\ Verified'
            BY <3>1, <3>2, <3>3, <3>4 DEF PInv, Exclusive, Present, Verified
        <3>6. Record(t).want # None =>
                  /\ Record(t).package \in made
                  /\ zip[Record(t).package] = Record(t).want
                  /\ \A u \in Threads : loc'[u].place # Record(t).package
            <4> SUFFICES ASSUME loc[t].want # None
                         PROVE  /\ loc[t].place \in made
                                /\ zip[loc[t].place] = loc[t].want
                                /\ \A u \in Threads :
                                      loc'[u].place # loc[t].place
                BY DEF Record
            <4>1. loc[t].call = "perform" /\ loc[t].pc = "spawn"
                  /\ loc[t].place \in Workdirs
                BY <1>0, <1>12 DEF Spawn, At, Shape, Local
            <4>2. zip[loc[t].place] = loc[t].want /\ loc[t].place \in made
                BY <4>1 DEF PInv, Verified, Present, Late
            <4> QED
                BY <4>1, <4>2, <3>1, <3>3, <3>4 DEF PInv, Exclusive
        <3>7. Kept'
            BY <2>2, <3>1, <3>2, <3>3, <3>4, <3>6 DEF PInv, Kept
        <3> QED
            BY <3>5, <3>7 DEF PInv
    <2> QED
        BY <1>12, <2>1, <2>2 DEF Spawn
<1> QED
    BY <1>1, <1>2, <1>3, <1>4, <1>5, <1>6, <1>7, <1>8, <1>9, <1>10, <1>11,
       <1>12 DEF Step

LEMMA InitKeeps == Init => PInv
BY SessionAssumption
    DEF Init, PInv, Exclusive, Present, Kept, Verified, Idle, Places

LEMMA NextKeeps ==
    ASSUME TypeOK, Shapes, PInv, NoSharing, [Next]_vars
    PROVE  PInv'
<1>1. CASE UNCHANGED vars
    BY <1>1 DEF vars, PInv, Exclusive, Present, Kept, Verified
<1>2. ASSUME NEW t \in Threads, Begin(t) \/ Step(t) PROVE PInv'
    BY <1>2, BeginKeeps, StepKeeps
<1> QED
    BY <1>1, <1>2 DEF Next

\* Where no two calls of update_perform fall into one second, every updater
\* that was started finds the package that was verified for it
\* (update.c:768-789, 823-853).
THEOREM StartedPackageKept == NoSharing => (Spec => []PackageKept)
<1> SUFFICES ASSUME NoSharing PROVE Spec => []PackageKept
    OBVIOUS
<1> DEFINE I == TypeOK /\ Shapes /\ PInv
<1>1. Init => I
    BY InitKeeps, InitTyped
<1>2. I /\ [Next]_vars => I'
    BY NextKeeps, NextTyped
<1>3. I => PackageKept
    BY DEF PInv, Kept, PackageKept
<1> QED
    BY <1>1, <1>2, <1>3, PTL DEF Spec

(***************************************************************************)
(* The verifier.  The call asks whichever verifier is registered when the  *)
(* package has been verified, so what has to be shown is that a verifier   *)
(* nobody replaced is still the registered one; a session that is closed   *)
(* in the meantime loses it.                                               *)
(***************************************************************************)
NoReopen == "reopen" \notin Habits

Guarded ==
    \A t \in Threads :
        loc[t].guard # None => ctx.app # None /\ ctx.sig = loc[t].guard

Asked ==
    \A t \in Threads :
        loc[t].pc = "signature" /\ loc[t].guard # None =>
            loc[t].sig = loc[t].guard

Passed ==
    \A t \in Threads :
        loc[t].pc \in {"context", "spawn"} /\ loc[t].guard # None =>
            loc[t].want \in Approves[loc[t].guard]

Cleared ==
    \A u \in started :
        u.guard # None => u.want # None /\ u.want \in Approves[u.guard]

GInv == Guarded /\ Asked /\ Passed /\ Cleared

\* What a step leaves of the copies: the other threads', and the demands.
LEMMA StepLocal ==
    ASSUME TypeOK, Shapes, NEW t \in Threads, Step(t)
    PROVE  /\ \A u \in Threads : u # t => loc'[u] = loc[u]
           /\ UNCHANGED ctx
           /\ \/ loc'[t].call = "none" /\ loc'[t].guard = None
                 /\ loc'[t].pc = "idle"
              \/ /\ loc'[t].call = loc[t].call
                 /\ loc'[t].guard = loc[t].guard
                 /\ loc'[t].pinned = loc[t].pinned
                 /\ loc'[t].result = loc[t].result
                 /\ loc[t].pc # "manifest" => loc'[t].want = loc[t].want
                 /\ loc'[t].pc = "spawn" => loc[t].pc = "context"
                 /\ loc'[t].pc = "signature" => loc'[t].sig = ctx.sig
                 /\ loc'[t].pc = "context" =>
                       \/ loc[t].pc = "ask" /\ ctx.sig = None
                       \/ loc[t].pc = "signature" /\ Approved(t)
<1>0. loc[t] \in Local
    BY DEF TypeOK
<1>1. \A l : loc' = [loc EXCEPT ![t] = l] =>
          loc'[t] = l /\ \A u \in Threads : u # t => loc'[u] = loc[u]
    BY DEF TypeOK
<1> DEFINE Same(l) ==
        /\ l.call = loc[t].call /\ l.guard = loc[t].guard
        /\ l.pinned = loc[t].pinned /\ l.result = loc[t].result
<1>2. ASSUME NEW r, NEW h, Return(t, r, h)
      PROVE  /\ \A u \in Threads : u # t => loc'[u] = loc[u]
             /\ loc'[t].call = "none" /\ loc'[t].guard = None
             /\ loc'[t].pc = "idle"
    <2> DEFINE l == [Idle EXCEPT !.result = r]
    <2>1. l.call = "none" /\ l.guard = None /\ l.pc = "idle"
        BY DEF Idle
    <2>2. loc' = [loc EXCEPT ![t] = l]
        BY <1>2 DEF Return
    <2> HIDE DEF l
    <2> QED
        BY <1>1, <2>1, <2>2
<1>3. ASSUME NEW c \in Calls, Goto(t, c)
      PROVE  /\ \A u \in Threads : u # t => loc'[u] = loc[u]
             /\ Same(loc'[t]) /\ loc'[t].want = loc[t].want
             /\ loc'[t].pc = c
    <2> DEFINE l == [loc[t] EXCEPT !.pc = c]
    <2>1. Same(l) /\ l.want = loc[t].want /\ l.pc = c
        BY <1>0 DEF Local
    <2>2. loc' = [loc EXCEPT ![t] = l]
        BY <1>3, PcLocal
    <2> HIDE DEF l
    <2> QED
        BY <1>1, <2>1, <2>2
<1>4. CASE Manifest(t)
    <2>1. ASSUME NEW c \in Contents, NEW h \in BOOLEAN,
                 loc' = [loc EXCEPT ![t].pc = "base", ![t].want = c,
                                    ![t].held = h]
          PROVE  /\ \A u \in Threads : u # t => loc'[u] = loc[u]
                 /\ Same(loc'[t]) /\ loc'[t].pc = "base"
        <3> DEFINE l == [loc[t] EXCEPT !.pc = "base", !.want = c, !.held = h]
        <3>1. Same(l) /\ l.pc = "base"
            BY <1>0 DEF Local
        <3>2. loc' = [loc EXCEPT ![t] = l]
            BY <2>1 DEF TypeOK, Local
        <3> HIDE DEF l
        <3> QED
            BY <1>1, <3>1, <3>2
    <2> QED
        BY <1>2, <1>4, <2>1 DEF Manifest, At
<1>5. CASE TempBase(t)
    BY <1>2, <1>3, <1>5 DEF TempBase, Calls
<1>6. CASE MakeWorkdir(t)
    <2>1. ASSUME NEW d, loc' = [loc EXCEPT ![t].pc = "names", ![t].place = d]
          PROVE  /\ \A u \in Threads : u # t => loc'[u] = loc[u]
                 /\ Same(loc'[t]) /\ loc'[t].pc = "names"
                 /\ loc'[t].want = loc[t].want
        <3> DEFINE l == [loc[t] EXCEPT !.pc = "names", !.place = d]
        <3>1. Same(l) /\ l.pc = "names" /\ l.want = loc[t].want
            BY <1>0 DEF Local
        <3>2. loc' = [loc EXCEPT ![t] = l]
            BY <2>1 DEF TypeOK, Local
        <3> HIDE DEF l
        <3> QED
            BY <1>1, <3>1, <3>2
    <2> QED
        BY <1>2, <1>6, <2>1 DEF MakeWorkdir
<1>7. CASE Names(t)
    <2>1. ASSUME loc' = [loc EXCEPT ![t].pc = "open", ![t].held = FALSE]
          PROVE  /\ \A u \in Threads : u # t => loc'[u] = loc[u]
                 /\ Same(loc'[t]) /\ loc'[t].pc = "open"
                 /\ loc'[t].want = loc[t].want
        <3> DEFINE l == [loc[t] EXCEPT !.pc = "open", !.held = FALSE]
        <3>1. Same(l) /\ l.pc = "open" /\ l.want = loc[t].want
            BY <1>0 DEF Local
        <3>2. loc' = [loc EXCEPT ![t] = l]
            BY <2>1 DEF TypeOK, Local
        <3> HIDE DEF l
        <3> QED
            BY <1>1, <3>1, <3>2
    <2> QED
        BY <1>2, <1>7, <2>1 DEF Names, Fail
<1>8. CASE OpenPart(t)
    BY <1>2, <1>3, <1>8 DEF OpenPart, FailDownload, Fail, Calls
<1>9. CASE Receive(t)
    BY <1>2, <1>3, <1>9 DEF Receive, FailDownload, Fail, Calls
<1>10. CASE VerifyPackage(t)
    BY <1>2, <1>3, <1>10 DEF VerifyPackage, Fail, Calls
<1>11. CASE VerifyDownload(t)
    BY <1>2, <1>11 DEF VerifyDownload
<1>12. CASE AskVerifier(t)
    <2> DEFINE c == IF ctx.sig = None THEN "context" ELSE "signature"
               l == [loc[t] EXCEPT !.sig = ctx.sig, !.pc = c]
    <2>1. Same(l) /\ l.pc = c /\ l.sig = ctx.sig /\ l.want = loc[t].want
        BY <1>0 DEF Local
    <2>2. loc' = [loc EXCEPT ![t] = l]
        BY <1>12 DEF AskVerifier, TypeOK, Local
    <2> HIDE DEF l
    <2> QED
        BY <1>1, <1>12, <2>1, <2>2 DEF AskVerifier, At
<1>13. CASE CallVerifier(t)
    BY <1>2, <1>3, <1>13 DEF CallVerifier, Fail, Calls, At
<1>14. CASE ReadContext(t)
    BY <1>2, <1>3, <1>14 DEF ReadContext, Fail, Calls, At
<1>15. CASE Spawn(t)
    BY <1>2, <1>15 DEF Spawn, Fail
<1> QED
    BY <1>4, <1>5, <1>6, <1>7, <1>8, <1>9, <1>10, <1>11, <1>12, <1>13,
       <1>14, <1>15 DEF Step

LEMMA BeginGuards ==
    ASSUME TypeOK, Shapes, GInv, NoReopen, NEW t \in Threads, Begin(t)
    PROVE  GInv'
<1>0. UNCHANGED started
    BY DEF Begin, OpenSession, Shutdown, SetVerifier, Check, Download, Apply
<1>1. Cleared'
    BY <1>0 DEF GInv, Cleared
<1>2. ASSUME NEW a \in Apps, OpenSession(t, a) PROVE GInv'
    BY <1>1, <1>2 DEF OpenSession, GInv, Guarded, Asked, Passed
<1>3. CASE Shutdown(t)
    <2>1. \A u \in Threads : loc'[u] = loc[u] /\ loc[u].pc = "idle"
        BY <1>3 DEF Shutdown, NoReopen, At
    <2>2. \A u \in Threads : loc'[u].guard = None
        BY <2>1 DEF Shapes, Shape
    <2> QED
        BY <1>1, <2>1, <2>2 DEF GInv, Guarded, Asked, Passed
<1>4. ASSUME NEW v \in Verifiers \cup {None}, SetVerifier(t, v) PROVE GInv'
    <2>1. ASSUME NEW u \in Threads
          PROVE  \/ loc'[u] = loc[u] /\ loc[u].guard = v
                 \/ /\ loc'[u].guard = None
        <3>1. loc[u] \in Local
            BY DEF TypeOK
        <3> QED
            BY <1>4, <3>1 DEF SetVerifier, Local
    <2>2. ctx'.sig = v /\ ctx'.app # None
        BY <1>4 DEF SetVerifier, TypeOK
    <2> QED
        BY <1>1, <2>1, <2>2 DEF GInv, Guarded, Asked, Passed
<1>5. ASSUME NEW l, loc' = [loc EXCEPT ![t] = l], UNCHANGED ctx,
             \/ l.guard = None
             \/ ctx.app # None /\ l.guard = ctx.sig /\ l.pc = "manifest"
      PROVE  GInv'
    <2>1. \A u \in Threads : loc'[u] = IF u = t THEN l ELSE loc[u]
        BY <1>5 DEF TypeOK
    <2> QED
        BY <1>1, <1>5, <2>1 DEF GInv, Guarded, Asked, Passed
<1>6. ASSUME NEW call \in {"check", "perform"}, Check(t, call) PROVE GInv'
    <2> DEFINE l == [Idle EXCEPT !.pc = "manifest", !.call = call,
                                 !.guard = ctx.sig]
    <2>1. l.guard = ctx.sig /\ l.pc = "manifest"
        BY DEF Idle
    <2>2. loc' = [loc EXCEPT ![t] = l] /\ UNCHANGED ctx /\ ctx.app # None
        BY <1>6 DEF Check
    <2> HIDE DEF l
    <2> QED
        BY <1>5, <2>1, <2>2
<1>7. ASSUME NEW d \in Dests, Download(t, d) PROVE GInv'
    <2>1. PICK w \in {Pin[ctx.app], None} :
              loc' = [loc EXCEPT ![t] = [Idle EXCEPT !.pc = "open",
                                                     !.call = "download",
                                                     !.place = d,
                                                     !.want = w,
                                                     !.pinned = Pin[ctx.app]]]
        BY <1>7 DEF Download
    <2> DEFINE l == [Idle EXCEPT !.pc = "open", !.call = "download",
                                 !.place = d, !.want = w,
                                 !.pinned = Pin[ctx.app]]
    <2>2. l.guard = None
        BY DEF Idle
    <2>3. loc' = [loc EXCEPT ![t] = l] /\ UNCHANGED ctx
        BY <1>7, <2>1 DEF Download
    <2> HIDE DEF l
    <2> QED
        BY <1>5, <2>2, <2>3
<1>8. ASSUME NEW d \in Dests, Apply(t, d) PROVE GInv'
    <2> DEFINE l == [Idle EXCEPT !.pc = "context", !.call = "apply",
                                 !.place = d]
    <2>1. l.guard = None
        BY DEF Idle
    <2>2. loc' = [loc EXCEPT ![t] = l] /\ UNCHANGED ctx
        BY <1>8 DEF Apply
    <2> HIDE DEF l
    <2> QED
        BY <1>5, <2>1, <2>2
<1> QED
    BY <1>2, <1>3, <1>4, <1>6, <1>7, <1>8 DEF Begin

LEMMA StepGuards ==
    ASSUME TypeOK, Shapes, PInv, GInv, NEW t \in Threads, Step(t)
    PROVE  GInv'
<1>1. UNCHANGED ctx /\ \A u \in Threads : u # t => loc'[u] = loc[u]
    BY StepLocal
<1>2. Guarded'
    BY <1>1, StepLocal DEF GInv, Guarded
<1>3. Asked'
    <2> SUFFICES ASSUME loc'[t].pc = "signature", loc'[t].guard # None
                 PROVE  loc'[t].sig = loc'[t].guard
        BY <1>1 DEF GInv, Asked
    <2>1. loc[t] \in Local
        BY DEF TypeOK
    <2>2. loc'[t].guard = loc[t].guard /\ ctx.sig = loc[t].guard
        BY StepLocal DEF GInv, Guarded
    <2>3. loc'[t].sig = ctx.sig
        BY StepLocal DEF Shapes, Shape
    <2> QED
        BY <2>2, <2>3
<1>4. Passed'
    <2> SUFFICES ASSUME loc'[t].pc \in {"context", "spawn"},
                        loc'[t].guard # None
                 PROVE  loc'[t].want \in Approves[loc'[t].guard]
        BY <1>1 DEF GInv, Passed
    <2>1. /\ loc'[t].guard = loc[t].guard /\ loc[t].guard # None
          /\ loc'[t].call = loc[t].call
          /\ loc'[t].want = loc[t].want
          /\ loc'[t].pc = "spawn" => loc[t].pc = "context"
          /\ loc'[t].pc = "context" =>
                \/ loc[t].pc = "ask" /\ ctx.sig = None
                \/ loc[t].pc = "signature" /\ Approved(t)
        BY StepLocal DEF Shapes, Shape
    <2>2. CASE loc'[t].pc = "spawn"
        BY <2>1, <2>2 DEF GInv, Passed
    <2>3. CASE loc[t].pc = "ask" /\ ctx.sig = None
        BY <2>1, <2>3 DEF GInv, Guarded
    <2>4. CASE loc[t].pc = "signature" /\ Approved(t)
        <3>1. loc[t].call = "perform"
            BY <2>4 DEF Shapes, Shape, TypeOK, Local
        <3>2. zip[loc[t].place] = loc[t].want
            BY <2>4, <3>1 DEF PInv, Verified, Late
        <3> QED
            BY <2>1, <2>4, <3>2 DEF GInv, Asked, Approved
    <2> QED
        BY <2>1, <2>2, <2>3, <2>4
<1>5. Cleared'
    <2>1. CASE UNCHANGED started
        BY <2>1 DEF GInv, Cleared
    <2>2. CASE Spawn(t) /\ started' = started \cup {Record(t)}
        <3>1. loc[t].guard # None =>
                  loc[t].want # None /\ loc[t].want \in Approves[loc[t].guard]
            BY <2>2 DEF Spawn, At, Shapes, Shape, GInv, Passed, TypeOK, Local
        <3> QED
            BY <2>2, <3>1 DEF GInv, Cleared, Record
    <2> QED
        BY <2>1, <2>2 DEF Step, Manifest, TempBase, MakeWorkdir, Names,
            OpenPart, Receive, VerifyPackage, VerifyDownload, AskVerifier,
            CallVerifier, ReadContext, Spawn
<1> QED
    BY <1>2, <1>3, <1>4, <1>5 DEF GInv

\* Where, besides, no session is closed under a running call, the package of
\* every updater has been approved by the verifier that was registered when the
\* call began and that nobody replaced (update.c:837-851).
THEOREM StartedOnlyIfApproved ==
    NoSharing /\ NoReopen => (Spec => []ApprovedFirst)
<1> SUFFICES ASSUME NoSharing, NoReopen PROVE Spec => []ApprovedFirst
    OBVIOUS
<1> DEFINE I == TypeOK /\ Shapes /\ PInv /\ GInv
<1>1. Init => I
    <2>1. Init => GInv
        BY DEF Init, GInv, Guarded, Asked, Passed, Cleared, Idle
    <2> QED
        BY <2>1, InitKeeps, InitTyped
<1>2. I /\ [Next]_vars => I'
    <2> SUFFICES ASSUME I, [Next]_vars PROVE GInv'
        BY NextKeeps, NextTyped
    <2>1. CASE UNCHANGED vars
        BY <2>1 DEF vars, GInv, Guarded, Asked, Passed, Cleared
    <2>2. ASSUME NEW t \in Threads, Begin(t) \/ Step(t) PROVE GInv'
        BY <2>2, BeginGuards, StepGuards
    <2> QED
        BY <2>1, <2>2 DEF Next
<1>3. I => ApprovedFirst
    BY DEF PInv, Kept, GInv, Cleared, ApprovedFirst
<1> QED
    BY <1>1, <1>2, <1>3, PTL DEF Spec

(***************************************************************************)
(* The pinned digest.                                                      *)
(***************************************************************************)
EnoughMemory == "low_memory" \notin Habits

PinCopied ==
    \A t \in Threads :
        loc[t].call = "download" => loc[t].want = loc[t].pinned

\* A call that begins leaves the others alone, but for what they can count on.
LEMMA BeginLocal ==
    ASSUME TypeOK, NEW t \in Threads, NEW u \in Threads, Begin(t), u # t
    PROVE  /\ loc'[u].call = loc[u].call
           /\ loc'[u].want = loc[u].want
           /\ loc'[u].pinned = loc[u].pinned
           /\ loc'[u].result = loc[u].result
<1>1. loc[u] \in Local
    BY DEF TypeOK
<1>2. ASSUME NEW l, loc' = [loc EXCEPT ![t] = l] PROVE loc'[u] = loc[u]
    BY <1>2 DEF TypeOK
<1>3. ASSUME NEW v \in Verifiers \cup {None}, SetVerifier(t, v)
      PROVE  loc'[u] = loc[u] \/ loc'[u] = [loc[u] EXCEPT !.guard = None]
    BY <1>3 DEF SetVerifier
<1>4. \/ loc'[u] = loc[u]
      \/ loc'[u] = [loc[u] EXCEPT !.guard = None]
    BY <1>2, <1>3 DEF Begin, OpenSession, Shutdown, Check, Download, Apply
<1> QED
    BY <1>1, <1>4 DEF Local

LEMMA NextPin ==
    ASSUME TypeOK, Shapes, PinCopied, EnoughMemory, [Next]_vars
    PROVE  PinCopied'
<1>1. CASE UNCHANGED vars
    BY <1>1 DEF vars, PinCopied
<1>2. ASSUME NEW t \in Threads, Begin(t) PROVE PinCopied'
    <2>1. \A u \in Threads : u # t => (loc'[u].call = "download" =>
              loc'[u].want = loc'[u].pinned)
        BY <1>2, BeginLocal DEF PinCopied
    <2>2. loc[t] \in Local
        BY DEF TypeOK
    <2>3. ASSUME NEW l, loc' = [loc EXCEPT ![t] = l] PROVE loc'[t] = l
        BY <2>3 DEF TypeOK
    <2>4. loc'[t].call = "download" => loc'[t].want = loc'[t].pinned
        <3>1. CASE (\E a \in Apps : OpenSession(t, a)) \/ Shutdown(t)
            BY <3>1 DEF OpenSession, Shutdown, PinCopied
        <3>2. ASSUME NEW v \in Verifiers \cup {None}, SetVerifier(t, v)
              PROVE  loc'[t].call = "download" =>
                         loc'[t].want = loc'[t].pinned
            <4>1. loc'[t] = loc[t]
                  \/ loc'[t] = [loc[t] EXCEPT !.guard = None]
                BY <3>2 DEF SetVerifier
            <4> QED
                BY <4>1, <2>2 DEF PinCopied, Local
        <3>3. ASSUME NEW call \in {"check", "perform"}, Check(t, call)
              PROVE  loc'[t].call # "download"
            <4> DEFINE l == [Idle EXCEPT !.pc = "manifest", !.call = call,
                                         !.guard = ctx.sig]
            <4>1. l.call = call
                BY DEF Idle
            <4>2. loc' = [loc EXCEPT ![t] = l]
                BY <3>3 DEF Check
            <4> HIDE DEF l
            <4> QED
                BY <2>3, <4>1, <4>2
        <3>4. ASSUME NEW d \in Dests, Download(t, d)
              PROVE  loc'[t].want = loc'[t].pinned
            <4> DEFINE l == [Idle EXCEPT !.pc = "open", !.call = "download",
                                         !.place = d, !.want = Pin[ctx.app],
                                         !.pinned = Pin[ctx.app]]
            <4>1. l.want = l.pinned
                BY DEF Idle
            <4>2. loc' = [loc EXCEPT ![t] = l]
                BY <3>4 DEF Download, EnoughMemory
            <4> HIDE DEF l
            <4> QED
                BY <2>3, <4>1, <4>2
        <3>5. ASSUME NEW d \in Dests, Apply(t, d)
              PROVE  loc'[t].call # "download"
            <4> DEFINE l == [Idle EXCEPT !.pc = "context", !.call = "apply",
                                         !.place = d]
            <4>1. l.call = "apply"
                BY DEF Idle
            <4>2. loc' = [loc EXCEPT ![t] = l]
                BY <3>5 DEF Apply
            <4> HIDE DEF l
            <4> QED
                BY <2>3, <4>1, <4>2
        <3> QED
            BY <1>2, <3>1, <3>2, <3>3, <3>4, <3>5 DEF Begin
    <2> QED
        BY <2>1, <2>4 DEF PinCopied
<1>3. ASSUME NEW t \in Threads, Step(t) PROVE PinCopied'
    BY <1>3, StepLocal DEF PinCopied, Shapes, Shape
<1> QED
    BY <1>1, <1>2, <1>3 DEF Next

\* Where the digest can be copied, update_download reports success under a
\* pinned digest only for a file that matches it (update.c:462, 481-486).
THEOREM PinnedDownload == EnoughMemory => (Spec => PinHolds)
<1> SUFFICES ASSUME EnoughMemory PROVE Spec => PinHolds
    OBVIOUS
<1> DEFINE I == TypeOK /\ Shapes /\ PinCopied
           A == \A t \in Threads :
                   /\ loc[t].call = "download" /\ loc'[t].result = "ok"
                   /\ loc[t].pinned # None
                   => zip'[loc[t].place] = loc[t].pinned
<1>1. Init => I
    BY InitTyped DEF Init, PinCopied, Idle
<1>2. I /\ [Next]_vars => I'
    BY NextTyped, NextPin
<1>3. I /\ [Next]_vars => [A]_vars
    <2> SUFFICES ASSUME I, Next, NEW t \in Threads,
                        loc[t].call = "download", loc'[t].result = "ok",
                        loc[t].pinned # None
                 PROVE  zip'[loc[t].place] = loc[t].pinned
        OBVIOUS
    <2>1. loc[t].result = "none" /\ loc[t].pc # "idle"
          /\ loc[t].want = loc[t].pinned
        BY DEF Shapes, Shape, PinCopied
    <2>2. PICK u \in Threads : Begin(u) \/ Step(u)
        BY DEF Next
    <2>3. CASE u # t
        BY <2>1, <2>2, <2>3, BeginLocal, StepLocal
    <2>4. CASE u = t
        <3>1. Step(t)
            BY <2>1, <2>2, <2>4 DEF Begin, OpenSession, Shutdown,
                SetVerifier, Check, Download, Apply, At
        <3>2. \A h : ~Return(t, "error", h)
            BY DEF Return, Idle, TypeOK
        <3>3. loc'[t].result # loc[t].result
            BY <2>1
        <3>4. VerifyDownload(t)
            <4>1. loc[t] \in Local
                BY DEF TypeOK
            <4>2. \A c \in Calls : ~Goto(t, c)
                <5> SUFFICES ASSUME NEW c \in Calls, Goto(t, c) PROVE FALSE
                    OBVIOUS
                <5>1. loc' = [loc EXCEPT ![t] = [loc[t] EXCEPT !.pc = c]]
                    BY PcLocal
                <5> QED
                    BY <4>1, <5>1, <3>3 DEF TypeOK, Local
            <4> QED
                BY <3>1, <3>2, <4>2
                    DEF Step, Manifest, TempBase, MakeWorkdir, Names,
                        OpenPart, Receive, FailDownload, Fail, VerifyPackage,
                        AskVerifier, CallVerifier, ReadContext, Spawn, At,
                        Shapes, Shape, Calls
        <3> QED
            BY <2>1, <3>2, <3>4 DEF VerifyDownload, Matches
    <2> QED
        BY <2>3, <2>4
<1> QED
    BY <1>1, <1>2, <1>3, PTL DEF Spec, PinHolds

(***************************************************************************)
(* Working directories.                                                    *)
(***************************************************************************)
\* A step of a call that gives up no directory it still has.
LEMMA LeaveKeeps ==
    ASSUME TypeOK, NothingLeft, NEW t \in Threads, NEW l,
           loc' = [loc EXCEPT ![t] = l],
           made' \subseteq made \cup {l.place},
           started \subseteq started',
           \/ l.place = loc[t].place
           \/ loc[t].place \notin made'
           \/ \E u \in started' : u.package = loc[t].place
    PROVE  NothingLeft'
<1>1. \A u \in Threads : loc'[u] = IF u = t THEN l ELSE loc[u]
    BY DEF TypeOK
<1> QED
    BY <1>1 DEF NothingLeft

LEMMA FailLeaves ==
    ASSUME TypeOK, Shapes, NothingLeft, NEW t \in Threads, NEW h,
           Fail(t, h), UNCHANGED started
    PROVE  NothingLeft'
<1> DEFINE l == [Idle EXCEPT !.result = "error"]
<1>1. loc' = [loc EXCEPT ![t] = l]
    BY DEF Fail, Return
<1>2. loc[t].place \notin made'
    <2>1. CASE loc[t].call = "perform"
        BY <2>1 DEF Fail
    <2>2. CASE loc[t].call # "perform"
        <3>1. loc[t].place = None \/ loc[t].place \in Dests
            BY <2>2 DEF TypeOK, Local, Shapes, Shape
        <3> QED
            BY <2>2, <3>1, SessionAssumption DEF Fail, files, TypeOK, Places
    <2> QED
        BY <2>1, <2>2
<1>3. made' \subseteq made
    BY DEF Fail, files
<1> HIDE DEF l
<1> QED
    BY <1>1, <1>2, <1>3, LeaveKeeps

LEMMA NextLeaves ==
    ASSUME TypeOK, Shapes, NothingLeft, [Next]_vars
    PROVE  NothingLeft'
<1>1. CASE UNCHANGED vars
    BY <1>1 DEF vars, NothingLeft
<1>2. ASSUME NEW t \in Threads, Begin(t) PROVE NothingLeft'
    <2>1. UNCHANGED <<made, started>>
        BY <1>2 DEF Begin, OpenSession, Shutdown, SetVerifier, Check,
            Download, Apply, files
    <2>2. \A u \in Threads :
              loc[u].place \in made => loc'[u].place = loc[u].place
        <3> SUFFICES ASSUME NEW u \in Threads, loc[u].place \in made
                     PROVE  loc'[u].place = loc[u].place
            OBVIOUS
        <3>1. loc[u] \in Local /\ loc[u].pc # "idle"
            BY SessionAssumption DEF TypeOK, Shapes, Shape, Places
        <3>2. loc'[u] = loc[u]
              \/ loc'[u] = [loc[u] EXCEPT !.guard = None]
            <4>1. u # t \/ (\E v \in Verifiers \cup {None} :
                                SetVerifier(t, v))
                  \/ (\E a \in Apps : OpenSession(t, a)) \/ Shutdown(t)
                BY <1>2, <3>1 DEF Begin, Check, Download, Apply, At
            <4> QED
                BY <1>2, <4>1 DEF Begin, OpenSession, Shutdown, SetVerifier,
                    Check, Download, Apply, TypeOK
        <3> QED
            BY <3>1, <3>2 DEF Local
    <2> QED
        BY <2>1, <2>2 DEF NothingLeft
<1>3. ASSUME NEW t \in Threads, Step(t) PROVE NothingLeft'
    <2>0. loc[t] \in Local /\ Shape(loc[t])
        BY DEF TypeOK, Shapes
    <2>1. ASSUME NEW r, NEW h, Return(t, r, h), made' \subseteq made,
                 UNCHANGED started, loc[t].place \notin Workdirs
          PROVE  NothingLeft'
        BY <2>1, LeaveKeeps DEF Return, TypeOK
    <2>2. ASSUME NEW c \in Calls, Goto(t, c), UNCHANGED <<made, started>>
          PROVE  NothingLeft'
        <3> DEFINE l == [loc[t] EXCEPT !.pc = c]
        <3>1. loc' = [loc EXCEPT ![t] = l] /\ l.place = loc[t].place
            BY <2>0, <2>2, PcLocal DEF Local
        <3> HIDE DEF l
        <3> QED
            BY <2>2, <3>1, LeaveKeeps
    <2>3. loc[t].pc \in {"manifest", "base", "workdir"}
          \/ loc[t].call = "download" => loc[t].place \notin Workdirs
        BY <2>0, SessionAssumption DEF Shape, Local, Places
    <2> USE FailLeaves
    <2>4. CASE Manifest(t)
        <3>1. ASSUME NEW c \in Contents, NEW h \in BOOLEAN,
                     loc' = [loc EXCEPT ![t].pc = "base", ![t].want = c,
                                        ![t].held = h]
              PROVE  NothingLeft'
            <4> DEFINE l == [loc[t] EXCEPT !.pc = "base", !.want = c,
                                           !.held = h]
            <4>1. loc' = [loc EXCEPT ![t] = l] /\ l.place = loc[t].place
                BY <2>0, <3>1 DEF TypeOK, Local
            <4> HIDE DEF l
            <4> QED
                BY <2>4, <4>1, LeaveKeeps DEF Manifest, files
        <3> QED
            BY <2>1, <2>3, <2>4, <3>1 DEF Manifest, At, files
    <2>5. CASE TempBase(t)
        BY <2>1, <2>2, <2>3, <2>5 DEF TempBase, At, files, Calls
    <2>6. CASE MakeWorkdir(t)
        <3>1. ASSUME NEW d \in Workdirs, made' = made \cup {d},
                     loc' = [loc EXCEPT ![t].pc = "names", ![t].place = d]
              PROVE  NothingLeft'
            <4> DEFINE l == [loc[t] EXCEPT !.pc = "names", !.place = d]
            <4>1. loc' = [loc EXCEPT ![t] = l] /\ l.place = d
                BY <2>0, <3>1 DEF TypeOK, Local
            <4> HIDE DEF l
            <4>2. loc[t].place = None /\ None \notin Workdirs
                BY <2>0, <2>6, SessionAssumption
                    DEF MakeWorkdir, At, Shape, Local, Places
            <4>3. loc[t].place \notin made'
                BY <3>1, <4>2 DEF TypeOK
            <4> QED
                BY <2>6, <3>1, <4>1, <4>3, LeaveKeeps DEF MakeWorkdir
        <3> QED
            BY <2>1, <2>3, <2>6, <3>1 DEF MakeWorkdir, At
    <2>7. CASE Names(t)
        <3>1. CASE loc' = [loc EXCEPT ![t].pc = "open", ![t].held = FALSE]
                   /\ UNCHANGED <<files, leaked>>
            <4> DEFINE l == [loc[t] EXCEPT !.pc = "open", !.held = FALSE]
            <4>1. loc' = [loc EXCEPT ![t] = l] /\ l.place = loc[t].place
                BY <2>0, <3>1 DEF TypeOK, Local
            <4> HIDE DEF l
            <4> QED
                BY <2>7, <3>1, <4>1, LeaveKeeps DEF Names, files
        <3> QED
            BY <2>7, <3>1 DEF Names
    <2>8. CASE OpenPart(t)
        BY <2>1, <2>2, <2>3, <2>8 DEF OpenPart, FailDownload, Calls
    <2>9. CASE Receive(t)
        BY <2>1, <2>2, <2>3, <2>9 DEF Receive, FailDownload, Calls
    <2>10. CASE VerifyPackage(t)
        BY <2>2, <2>10 DEF VerifyPackage, files, Calls
    <2>11. CASE VerifyDownload(t)
        BY <2>1, <2>3, <2>11 DEF VerifyDownload
    <2>12. CASE AskVerifier(t)
        <3> DEFINE c == IF ctx.sig = None THEN "context" ELSE "signature"
                   l == [loc[t] EXCEPT !.sig = ctx.sig, !.pc = c]
        <3>1. loc' = [loc EXCEPT ![t] = l] /\ l.place = loc[t].place
            BY <2>0, <2>12 DEF AskVerifier, TypeOK, Local
        <3> HIDE DEF l
        <3> QED
            BY <2>12, <3>1, LeaveKeeps DEF AskVerifier, files
    <2>13. CASE CallVerifier(t)
        BY <2>2, <2>13 DEF CallVerifier, files, Calls
    <2>14. CASE ReadContext(t)
        BY <2>2, <2>14 DEF ReadContext, files, Calls
    <2>15. CASE Spawn(t)
        <3>1. CASE Return(t, "started", FALSE) /\ UNCHANGED files
                   /\ started' = started \cup {Record(t)}
            <4>1. Record(t) \in started'
                  /\ Record(t).package = loc[t].place
                BY <3>1 DEF Record
            <4> QED
                BY <3>1, <4>1, LeaveKeeps DEF Return, files
        <3> QED
            BY <2>15, <3>1 DEF Spawn
    <2> QED
        BY <1>3, <2>4, <2>5, <2>6, <2>7, <2>8, <2>9, <2>10, <2>11, <2>12,
           <2>13, <2>14, <2>15 DEF Step
<1> QED
    BY <1>1, <1>2, <1>3 DEF Next

\* Every way out of update_perform that starts no updater removes the
\* directory the call has made (update.c:791-851).
THEOREM NoDirectoryLeft == Spec => []NothingLeft
<1> DEFINE I == TypeOK /\ Shapes /\ NothingLeft
<1>1. Init => I
    BY InitTyped DEF Init, NothingLeft
<1>2. I /\ [Next]_vars => I'
    BY NextTyped, NextLeaves
<1> QED
    BY <1>1, <1>2, PTL DEF Spec
==============================================================================
