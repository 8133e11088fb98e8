------------------------------- MODULE Session -------------------------------
(***************************************************************************)
(* The library in the process of the application (libupdate/src/update.c): *)
(* one context under one lock, and the calls that several threads make.    *)
(*                                                                         *)
(* Every access to the context is in a section between ctx_lock and        *)
(* ctx_unlock that calls nothing which locks or waits; such a section is   *)
(* one step.  What a call does between two sections (talking to the        *)
(* server, hashing, asking the verifier, starting the updater) it does     *)
(* with copies, and other threads run in between.                          *)
(*                                                                         *)
(* Any call may fail at any point where the code can return an error; the  *)
(* failure is then one of the outcomes of the step.  Removals, whose       *)
(* results the code ignores, succeed.                                      *)
(***************************************************************************)
CONSTANTS
    Threads,
    Apps,       \* configurations update_init can be given
    Contents,   \* what a package file can hold; its digest stands for it
    Pin,        \* Pin[a]: expected_sha256 of configuration a, or None
    Verifiers,  \* signature verifiers
    Approves,   \* Approves[v]: the packages verifier v lets pass
    Workdirs,   \* directories update_perform makes
    Dests,      \* paths update_download is given
    None,
    Habits      \* what the application and its platform may do, see HabitKinds

(***************************************************************************)
(* "reopen": the session is closed while calls are running.                *)
(* "same_second": two calls of update_perform in one second, which the     *)
(* clock, the process id and the attempt number cannot tell apart.         *)
(* "low_memory": the expected digest cannot be copied.                     *)
(***************************************************************************)
HabitKinds == {"reopen", "same_second", "low_memory"}

Places == Workdirs \cup Dests

ASSUME SessionAssumption ==
    /\ Pin \in [Apps -> Contents \cup {None}]
    /\ Approves \in [Verifiers -> SUBSET Contents]
    /\ Workdirs \cap Dests = {}
    /\ None \notin Apps \cup Contents \cup Verifiers \cup Places
    /\ Habits \subseteq HabitKinds

VARIABLES
    ctx,        \* s_ctx: the open configuration and the verifier
    loc,        \* what each thread is doing, with its copies
    made,       \* working directories that exist
    part,       \* packages of which a .part file exists
    zip,        \* the package under each path, or None
    started,    \* the updaters that were started
    leaked,     \* has a release note been dropped that nobody can free?
    exited      \* has update_apply ended the process?

vars == <<ctx, loc, made, part, zip, started, leaked, exited>>
files == <<made, part, zip>>

Calls ==
    {"idle", "manifest", "base", "workdir", "names", "open", "receive",
     "verify", "ask", "signature", "context", "spawn"}

(***************************************************************************)
(* The copies of a call.  held: info.description is allocated.  want: the  *)
(* digest the package is compared with, None if with none.  result: what   *)
(* the last call returned.  pinned and guard are for the properties: the   *)
(* digest and the verifier that the session demanded when the call began.  *)
(***************************************************************************)
Idle == [pc |-> "idle", call |-> "none", place |-> None, held |-> FALSE,
         want |-> None, sig |-> None, pinned |-> None, guard |-> None,
         result |-> "none"]

Local == [pc : Calls,
          call : {"none", "check", "download", "apply", "perform"},
          place : Places \cup {None}, held : BOOLEAN,
          want : Contents \cup {None}, sig : Verifiers \cup {None},
          pinned : Contents \cup {None}, guard : Verifiers \cup {None},
          result : {"none", "ok", "error", "noop", "started"}]

Updater == [package : Places, want : Contents \cup {None},
            guard : Verifiers \cup {None}]

Closed == [app |-> None, sig |-> None]

TypeOK ==
    /\ ctx \in [app : Apps \cup {None}, sig : Verifiers \cup {None}]
    /\ loc \in [Threads -> Local]
    /\ made \subseteq Workdirs
    /\ part \subseteq Places
    /\ zip \in [Places -> Contents \cup {None}]
    /\ started \subseteq Updater
    /\ leaked \in BOOLEAN
    /\ exited \in BOOLEAN

Init ==
    /\ ctx = Closed
    /\ loc = [t \in Threads |-> Idle]
    /\ made = {}
    /\ part = {}
    /\ zip = [p \in Places |-> None]
    /\ started = {}
    /\ leaked = FALSE
    /\ exited = FALSE

-----------------------------------------------------------------------------
At(t, l) == ~exited /\ loc[t].pc = l
Goto(t, l) == loc' = [loc EXCEPT ![t].pc = l]

\* Whether the call drops a description that nobody can free any more.
Return(t, result, dropped) ==
    /\ loc' = [loc EXCEPT ![t] = [Idle EXCEPT !.result = result]]
    /\ leaked' = (leaked \/ dropped)

\* A failed update_perform removes the working directory it has made.
Fail(t, dropped) ==
    /\ Return(t, "error", dropped)
    /\ IF loc[t].call = "perform"
       THEN /\ made' = made \ {loc[t].place}
            /\ part' = part \ {loc[t].place}
            /\ zip' = [zip EXCEPT ![loc[t].place] = None]
       ELSE UNCHANGED files

\* A failed download removes the .part file, whoever has made it.
FailDownload(t) ==
    \/ /\ loc[t].call = "perform"
       /\ Fail(t, FALSE)
    \/ /\ loc[t].call = "download"
       /\ Return(t, "error", FALSE)
       /\ part' = part \ {loc[t].place}
       /\ UNCHANGED <<made, zip>>

(***************************************************************************)
(* Calls that are one section.                                             *)
(***************************************************************************)
OpenSession(t, a) ==
    /\ At(t, "idle")
    /\ ctx.app = None
    /\ ctx' = [app |-> a, sig |-> None]
    /\ UNCHANGED <<loc, files, started, leaked, exited>>

\* Mutant: the strings are freed and the context still counts as open.
FreesOnly(t) ==
    /\ At(t, "idle")
    /\ "reopen" \in Habits \/ \A u \in Threads : loc[u].pc = "idle"
    /\ ctx.app # None
    /\ ctx' = [ctx EXCEPT !.app = "freed"]
    /\ UNCHANGED <<loc, files, started, leaked, exited>>

Shutdown(t) ==
    /\ At(t, "idle")
    /\ "reopen" \in Habits \/ \A u \in Threads : loc[u].pc = "idle"
    /\ ctx' = Closed
    /\ UNCHANGED <<loc, files, started, leaked, exited>>

\* A running call can no longer count on a verifier the application replaces.
SetVerifier(t, v) ==
    /\ At(t, "idle")
    /\ ctx.app # None
    /\ ctx' = [ctx EXCEPT !.sig = v]
    /\ loc' = [u \in Threads |->
                  IF loc[u].guard = v THEN loc[u]
                                      ELSE [loc[u] EXCEPT !.guard = None]]
    /\ UNCHANGED <<files, started, leaked, exited>>

(***************************************************************************)
(* update_check, alone or as the first part of update_perform.             *)
(***************************************************************************)
Check(t, call) ==
    /\ At(t, "idle")
    /\ ctx.app # None
    /\ loc' = [loc EXCEPT ![t] = [Idle EXCEPT !.pc = "manifest",
                                              !.call = call,
                                              !.guard = ctx.sig]]
    /\ UNCHANGED <<ctx, files, started, leaked, exited>>

\* The info of update_check is its caller's.  A manifest that was read has
\* a description or none; one that is not newer ends update_perform.
Manifest(t) ==
    /\ At(t, "manifest")
    /\ \/ Return(t, "error", FALSE)
       \/ /\ loc[t].call = "check"
          /\ Return(t, "ok", FALSE)
       \/ /\ loc[t].call = "perform"
          /\ \E description \in BOOLEAN :
                \/ Return(t, "noop", description)
                \/ /\ \E c \in Contents :
                        loc' = [loc EXCEPT ![t].pc = "base", ![t].want = c,
                                           ![t].held = description]
                   /\ UNCHANGED leaked
    /\ UNCHANGED <<ctx, files, started, exited>>

(***************************************************************************)
(* update_perform: the working directory.                                  *)
(***************************************************************************)
TempBase(t) ==
    /\ At(t, "base")
    /\ \/ Return(t, "error", loc[t].held)
       \/ ctx.app # None /\ Goto(t, "workdir") /\ UNCHANGED leaked
    /\ UNCHANGED <<ctx, files, started, exited>>

\* A directory that exists counts as created, whichever call has made it.
MakeWorkdir(t) ==
    /\ At(t, "workdir")
    /\ \/ Return(t, "error", loc[t].held) /\ UNCHANGED made
       \/ /\ \E d \in Workdirs :
                /\ d \notin made \/ "same_second" \in Habits
                /\ made' = made \cup {d}
                /\ loc' = [loc EXCEPT ![t].pc = "names", ![t].place = d]
          /\ UNCHANGED leaked
    /\ UNCHANGED <<ctx, part, zip, started, exited>>

\* Mutant: a failure here keeps the directory.
NamesKeepWorkdir(t) ==
    /\ At(t, "names")
    /\ \/ Return(t, "error", FALSE)
       \/ /\ loc' = [loc EXCEPT ![t].pc = "open", ![t].held = FALSE]
          /\ UNCHANGED leaked
    /\ UNCHANGED <<ctx, files, started, exited>>

\* The paths are checked, then the strings of the info are copied and it is
\* freed; either may fail.
Names(t) ==
    /\ At(t, "names")
    /\ \/ Fail(t, loc[t].held)
       \/ Fail(t, FALSE)
       \/ /\ loc' = [loc EXCEPT ![t].pc = "open", ![t].held = FALSE]
          /\ UNCHANGED <<files, leaked>>
    /\ UNCHANGED <<ctx, started, exited>>

(***************************************************************************)
(* The download, of update_download and of update_perform.                 *)
(***************************************************************************)
Download(t, d) ==
    /\ At(t, "idle")
    /\ ctx.app # None
    /\ \E w \in {Pin[ctx.app]} \cup IF "low_memory" \in Habits THEN {None}
                                                               ELSE {} :
          loc' = [loc EXCEPT ![t] = [Idle EXCEPT !.pc = "open",
                                                 !.call = "download",
                                                 !.place = d,
                                                 !.want = w,
                                                 !.pinned = Pin[ctx.app]]]
    /\ UNCHANGED <<ctx, files, started, leaked, exited>>

\* The answer of the server goes to a file beside the one it is for.
OpenPart(t) ==
    /\ At(t, "open")
    /\ \/ /\ loc[t].place \in made \cup Dests
          /\ part' = part \cup {loc[t].place}
          /\ Goto(t, "receive")
          /\ UNCHANGED <<made, zip, leaked>>
       \/ FailDownload(t)
    /\ UNCHANGED <<ctx, started, exited>>

\* A body that is complete is renamed into place, whatever it holds; the file
\* of any other is removed.
Receive(t) ==
    /\ At(t, "receive")
    /\ \/ /\ loc[t].place \in part
          /\ part' = part \ {loc[t].place}
          /\ \E c \in Contents : zip' = [zip EXCEPT ![loc[t].place] = c]
          /\ Goto(t, "verify")
          /\ UNCHANGED <<made, leaked>>
       \/ FailDownload(t)
    /\ UNCHANGED <<ctx, started, exited>>

Matches(t) == zip[loc[t].place] = loc[t].want

\* Mutant: the digest is compared only when the session pins one.
VerifiesPinnedOnly(t) ==
    /\ At(t, "verify")
    /\ loc[t].call = "perform"
    /\ Goto(t, "ask")
    /\ UNCHANGED <<ctx, files, started, leaked, exited>>

VerifyPackage(t) ==
    /\ At(t, "verify")
    /\ loc[t].call = "perform"
    /\ \/ Matches(t) /\ Goto(t, "ask") /\ UNCHANGED <<files, leaked>>
       \/ Fail(t, FALSE)
    /\ UNCHANGED <<ctx, started, exited>>

\* Mutant: a file that does not match is removed and reported all the same.
ReportsMismatch(t) ==
    /\ At(t, "verify")
    /\ loc[t].call = "download"
    /\ Return(t, "ok", FALSE)
    /\ zip' = IF loc[t].want = None \/ Matches(t)
              THEN zip
              ELSE [zip EXCEPT ![loc[t].place] = None]
    /\ UNCHANGED <<ctx, made, part, started, exited>>

\* A download without a digest to compare is not verified.
VerifyDownload(t) ==
    /\ At(t, "verify")
    /\ loc[t].call = "download"
    /\ \/ /\ loc[t].want = None \/ Matches(t)
          /\ Return(t, "ok", FALSE)
          /\ UNCHANGED zip
       \/ /\ loc[t].want # None
          /\ Return(t, "error", FALSE)
          /\ zip' = [zip EXCEPT ![loc[t].place] = None]
    /\ UNCHANGED <<ctx, made, part, started, exited>>

(***************************************************************************)
(* The verifier of the application, called without the lock.               *)
(***************************************************************************)
\* Whether the session is still open is not looked at.
AskVerifier(t) ==
    /\ At(t, "ask")
    /\ loc' = [loc EXCEPT ![t].sig = ctx.sig,
                          ![t].pc = IF ctx.sig = None THEN "context"
                                                      ELSE "signature"]
    /\ UNCHANGED <<ctx, files, started, leaked, exited>>

Approved(t) == zip[loc[t].place] \in Approves[loc[t].sig]

\* Mutant: the answer of the verifier is not waited for.
IgnoresVerifier(t) ==
    /\ At(t, "signature")
    /\ Goto(t, "context")
    /\ UNCHANGED <<ctx, files, started, leaked, exited>>

CallVerifier(t) ==
    /\ At(t, "signature")
    /\ IF Approved(t)
       THEN Goto(t, "context") /\ UNCHANGED <<files, leaked>>
       ELSE Fail(t, FALSE)
    /\ UNCHANGED <<ctx, started, exited>>

(***************************************************************************)
(* Starting the updater, for update_perform and update_apply.              *)
(***************************************************************************)
Apply(t, d) ==
    /\ At(t, "idle")
    /\ ctx.app # None
    /\ loc' = [loc EXCEPT ![t] = [Idle EXCEPT !.pc = "context",
                                              !.call = "apply",
                                              !.place = d]]
    /\ UNCHANGED <<ctx, files, started, leaked, exited>>

ReadContext(t) ==
    /\ At(t, "context")
    /\ \/ ctx.app # None /\ Goto(t, "spawn") /\ UNCHANGED <<files, leaked>>
       \/ Fail(t, FALSE)
    /\ UNCHANGED <<ctx, started, exited>>

Record(t) ==
    [package |-> loc[t].place, want |-> loc[t].want, guard |-> loc[t].guard]

\* update_apply ends the process when the updater runs.
Spawn(t) ==
    /\ At(t, "spawn")
    /\ \/ /\ Return(t, "started", FALSE)
          /\ started' = started \cup {Record(t)}
          /\ exited' = (loc[t].call = "apply")
          /\ UNCHANGED files
       \/ Fail(t, FALSE) /\ UNCHANGED <<started, exited>>
    /\ UNCHANGED ctx

-----------------------------------------------------------------------------
Step(t) ==
    \/ Manifest(t) \/ TempBase(t) \/ MakeWorkdir(t) \/ Names(t)
    \/ OpenPart(t) \/ Receive(t) \/ VerifyPackage(t) \/ VerifyDownload(t)
    \/ AskVerifier(t) \/ CallVerifier(t) \/ ReadContext(t) \/ Spawn(t)

Begin(t) ==
    \/ \E a \in Apps : OpenSession(t, a)
    \/ Shutdown(t)
    \/ \E v \in Verifiers \cup {None} : SetVerifier(t, v)
    \/ \E call \in {"check", "perform"} : Check(t, call)
    \/ \E d \in Dests : Download(t, d) \/ Apply(t, d)

Next == \E t \in Threads : Begin(t) \/ Step(t)

Spec == Init /\ [][Next]_vars

-----------------------------------------------------------------------------
(***************************************************************************)
(* Properties.                                                             *)
(***************************************************************************)

\* The package an updater was started for by update_perform is, from then on
\* and whatever other calls do, the one whose digest the manifest named
\* (update.c:831-836; the updater reads it only after the application exits).
PackageKept == \A u \in started : u.want # None => zip[u.package] = u.want

\* A verifier that was registered when update_perform began, and that nobody
\* replaced, has approved the package (update.h: "Return UPDATE_OK to allow
\* install, UPDATE_ERROR to abort").
ApprovedFirst ==
    \A u \in started : u.guard # None => zip[u.package] \in Approves[u.guard]

\* Every working directory belongs to a call in progress or to an updater
\* that still needs it: each way out of update_perform removes its own.
NothingLeft ==
    made \subseteq {u.package : u \in started}
                       \cup {loc[t].place : t \in Threads}

\* A download that succeeds under a pinned digest has compared its file with
\* it and found it to match, at that moment and whatever other downloads to
\* the same path did before (update.h: "Verifies SHA-256 if expected_sha256
\* was set in options").
PinHolds ==
    [][\A t \in Threads :
          /\ loc[t].call = "download" /\ loc'[t].result = "ok"
          /\ loc[t].pinned # None
          => zip'[loc[t].place] = loc[t].pinned]_vars

\* Every description that update_check allocates is freed or handed to the
\* caller (update.h: "Always call update_info_free when the struct is no
\* longer needed").
NoLeak == ~leaked
=============================================================================
