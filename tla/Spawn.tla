-------------------------------- MODULE Spawn --------------------------------
(***************************************************************************)
(* Starting a program (platform_process_spawn_with_cwd in                  *)
(* libupdate/src/platform_process.c) from several threads of one process.  *)
(* A pipe tells the caller how exec ended: its write end closes when the   *)
(* child becomes the program, and carries a byte when it cannot.  A child  *)
(* inherits every write end that is open in the process when it is forked, *)
(* the ones of other callers too, and sets close-on-exec on its own only.  *)
(***************************************************************************)
CONSTANTS
    Callers,    \* threads that start a program; child c is the one of caller c
    Lingers     \* does the program run until the process that started it is
                \* gone, as the updater does?

ASSUME SpawnAssumption == Lingers \in BOOLEAN

VARIABLES
    spawnPc,    \* where each caller is
    child,      \* what became of its child
    open,       \* the write ends that are open in the process
    inherited,  \* inherited[c]: the write ends that are open in child c
    told,       \* the pipes with a byte in them
    spawned,    \* what each call returned
    gone        \* has the process ended?

spawnVars == <<spawnPc, child, open, inherited, told, spawned, gone>>

SpawnInit ==
    /\ spawnPc = [t \in Callers |-> "idle"]
    /\ child = [t \in Callers |-> "none"]
    /\ open = {}
    /\ inherited = [t \in Callers |-> {}]
    /\ told = {}
    /\ spawned = [t \in Callers |-> "none"]
    /\ gone = FALSE

At(t, l) == ~gone /\ spawnPc[t] = l
Goto(t, l) == spawnPc' = [spawnPc EXCEPT ![t] = l]
SpawnReturns(t, result) ==
    /\ Goto(t, "done")
    /\ spawned' = [spawned EXCEPT ![t] = result]

OpenPipe(t) ==
    /\ At(t, "idle")
    /\ \/ /\ open' = open \cup {t}
          /\ Goto(t, "fork")
          /\ UNCHANGED spawned
       \/ /\ SpawnReturns(t, "error")
          /\ UNCHANGED open
    /\ UNCHANGED <<child, inherited, told, gone>>

Fork(t) ==
    /\ At(t, "fork")
    /\ \/ /\ child' = [child EXCEPT ![t] = "forked"]
          /\ inherited' = [inherited EXCEPT ![t] = open]
          /\ Goto(t, "close")
          /\ UNCHANGED <<open, spawned>>
       \/ /\ open' = open \ {t}
          /\ SpawnReturns(t, "error")
          /\ UNCHANGED <<child, inherited>>
    /\ UNCHANGED <<told, gone>>

\* Mutant: the parent keeps its own write end.
KeepsEnd(t) ==
    /\ At(t, "close")
    /\ Goto(t, "read")
    /\ UNCHANGED <<child, open, inherited, told, spawned, gone>>

CloseEnd(t) ==
    /\ At(t, "close")
    /\ open' = open \ {t}
    /\ Goto(t, "read")
    /\ UNCHANGED <<child, inherited, told, spawned, gone>>

ReadByte(t) ==
    /\ At(t, "read")
    /\ t \in told
    /\ Goto(t, "reap")
    /\ UNCHANGED <<child, open, inherited, told, spawned, gone>>

\* The end of the pipe is reached when nobody holds a write end any more.
ReadEnd(t) ==
    /\ At(t, "read")
    /\ t \notin told
    /\ t \notin open
    /\ \A c \in Callers : t \notin inherited[c]
    /\ SpawnReturns(t, "ok")
    /\ UNCHANGED <<child, open, inherited, told, gone>>

Reap(t) ==
    /\ At(t, "reap")
    /\ child[t] \in {"failed", "killed", "ended"}
    /\ SpawnReturns(t, "error")
    /\ UNCHANGED <<child, open, inherited, told, gone>>

Exec(c) ==
    /\ child[c] = "forked"
    /\ child' = [child EXCEPT ![c] = "running"]
    /\ inherited' = [inherited EXCEPT ![c] = @ \ {c}]
    /\ UNCHANGED <<spawnPc, open, told, spawned, gone>>

\* Mutant: the child leaves without a word.
ExitsSilently(c) ==
    /\ child[c] = "forked"
    /\ child' = [child EXCEPT ![c] = "failed"]
    /\ inherited' = [inherited EXCEPT ![c] = {}]
    /\ UNCHANGED <<spawnPc, open, told, spawned, gone>>

ExecFails(c) ==
    /\ child[c] = "forked"
    /\ child' = [child EXCEPT ![c] = "failed"]
    /\ inherited' = [inherited EXCEPT ![c] = {}]
    /\ told' = told \cup {c}
    /\ UNCHANGED <<spawnPc, open, spawned, gone>>

\* The child is killed before it could do either.
ChildKilled(c) ==
    /\ child[c] = "forked"
    /\ child' = [child EXCEPT ![c] = "killed"]
    /\ inherited' = [inherited EXCEPT ![c] = {}]
    /\ UNCHANGED <<spawnPc, open, told, spawned, gone>>

ProgramEnds(c) ==
    /\ child[c] = "running"
    /\ Lingers => gone
    /\ child' = [child EXCEPT ![c] = "ended"]
    /\ inherited' = [inherited EXCEPT ![c] = {}]
    /\ UNCHANGED <<spawnPc, open, told, spawned, gone>>

\* The application ends when the updater is started: update_apply by itself,
\* update_perform through UPDATE_STARTED.
AppExits ==
    /\ ~gone
    /\ \E t \in Callers : spawned[t] = "ok"
    /\ gone' = TRUE
    /\ open' = {}
    /\ UNCHANGED <<spawnPc, child, inherited, told, spawned>>

CallSteps(t) ==
    Fork(t) \/ CloseEnd(t) \/ ReadByte(t) \/ ReadEnd(t) \/ Reap(t)

ChildSteps(c) == Exec(c) \/ ExecFails(c) \/ ProgramEnds(c)

SpawnNext ==
    \/ \E t \in Callers : OpenPipe(t) \/ CallSteps(t)
    \/ \E c \in Callers : ChildSteps(c) \/ ChildKilled(c)
    \/ AppExits

(***************************************************************************)
(* Threads and processes are scheduled, and the application does exit.     *)
(***************************************************************************)
SpawnFairness ==
    /\ \A t \in Callers : WF_spawnVars(CallSteps(t))
    /\ \A c \in Callers : WF_spawnVars(ChildSteps(c))
    /\ WF_spawnVars(AppExits)

SpawnSpec == SpawnInit /\ [][SpawnNext]_spawnVars /\ SpawnFairness
-----------------------------------------------------------------------------
\* What a call says is true: "ok" if its program was started (or was killed on
\* the way there), "error" only if no child of it is left, however the forks,
\* execs and reads of several callers interleave
\* (platform_process.c:350-380).
SpawnTruth ==
    \A t \in Callers :
        /\ spawned[t] = "ok" => child[t] \in {"running", "ended", "killed"}
        /\ spawned[t] = "error" => child[t] \in {"none", "failed"}

\* A caller never waits for itself or for its own program: what still holds
\* its pipe open is its child on the way to exec, or a child of another caller
\* (platform_process.c:353 closes the one by exec, 364 the parent's end), and
\* it reaps only a child that ends (platform_process.c:370).
WaitsForOthers ==
    \A t \in Callers :
        /\ At(t, "read") => t \notin open
        /\ At(t, "reap") => child[t] = "failed"
        /\ \A c \in Callers :
              t \in inherited[c] =>
                  child[c] = "forked" \/ (child[c] = "running" /\ c # t)

\* A call to start a program returns, or the process has ended meanwhile
\* (platform_process.c:364-380; update.h:141 says of update_perform that it
\* returns UPDATE_STARTED or UPDATE_NOOP).
SpawnReturned ==
    \A t \in Callers : spawnPc[t] # "idle" ~> spawnPc[t] = "done" \/ gone
==============================================================================
