------------------------------ MODULE LifecycleV1 ------------------------------
(***************************************************************************)
(* The v1 lifecycle server: one JSON record per job, guarded by a file     *)
(* lock, shared by every MCP server of the user, by the detached Codex     *)
(* runners and, through its command line, by the Claude daemon.            *)
(*                                                                         *)
(* A step is a critical section of the job's lock, or an effect outside    *)
(* it: an external command, a signal, the life of a process.  `lock` is    *)
(* only held across steps by a Codex launch and by an interrupt.           *)
(***************************************************************************)
EXTENDS Naturals

CONSTANTS
    Job,        \* jobs
    Client,     \* threads that serve the other tool calls
    NoJob,      \* stands for no job
    MaxFaults   \* bound on the deaths of threads and of runners

ASSUME NoJobAssumption == NoJob \notin Job
ASSUME FaultsAssumption == MaxFaults \in Nat
ASSUME ClientAssumption == {"free", "launch"} \cap Client = {}

VARIABLES
    job,        \* the record: state, and what it knows of the worker
    provider,   \* "claude" or "codex"
    origin,     \* a spawn, a follow-up, or a follow-up of a job without provider id
    lock,       \* who holds the lock of the job across steps
    launch,     \* the thread that serves the spawn or the follow-up
    worker,     \* the session of the Claude daemon
    runner,     \* the detached Codex runner, as a process
    flag,       \* the runner's `interrupted`, set by its SIGTERM handler
    child,      \* the `codex exec` process under it
    call,       \* of a client: where it is, the tool, the job, what the status
                \* command told it, the process its pidfd refers to
    fresh,      \* the record has the revision of the client's snapshot
    faults      \* deaths so far

given == <<provider, origin>>
procVars == <<runner, flag, child>>
vars == <<job, given, lock, launch, worker, procVars, call, fresh, faults>>

Providers == {"claude", "codex"}
Origins == {"spawn", "followup", "orphan"}
TERMINAL_STATES == {"succeeded", "failed", "interrupted"}
States == TERMINAL_STATES \cup {"none", "starting", "launching", "running",
                                "interrupting", "unknown", "gone"}
Interrupted == {"interrupting", "interrupted"}
Armed == {"armed", "opening", "running"}      \* the SIGTERM handler is installed
Alive == Armed \cup {"handshake", "refuse", "setup", "collect"}
CallPC == {"idle", "poll", "act", "stop", "stopped", "stopfail", "open",
           "recheck", "signal", "sigerr"}
RawStates == {"none", "running", "succeeded", "failed", "interrupted", "unknown"}
Terminal(j) == job[j].state \in TERMINAL_STATES
Exists(j) == job[j].state \notin {"none", "gone"}
Free(j) == lock[j] = "free"

TypeOK ==
    /\ job \in [Job -> [state : States, prov : BOOLEAN, thread : BOOLEAN,
                        pid : BOOLEAN, ident : BOOLEAN]]
    /\ provider \in [Job -> Providers]
    /\ origin \in [Job -> Origins]
    /\ lock \in [Job -> {"free", "launch"} \cup Client]
    /\ launch \in [Job -> {"none", "created", "locked", "spawned", "ran",
                           "refused", "stop", "stopped", "stopfail", "done"}]
    /\ worker \in [Job -> {"none", "busy", "done", "failed", "stopped", "removed"}]
    /\ runner \in [Job -> Alive \cup {"none", "zombie", "gone", "reused"}]
    /\ flag \in [Job -> BOOLEAN]
    /\ child \in [Job -> {"none", "busy", "signalled", "ok", "bad"}]
    /\ call \in [Client -> [pc : CallPC, op : {"status", "cleanup"},
                           job : Job \cup {NoJob}, raw : RawStates,
                           fd : {"none", "runner", "other"}]]
    /\ fresh \in [Client -> BOOLEAN]
    /\ faults \in 0 .. MaxFaults

NoRecord == [state |-> "none", prov |-> FALSE, thread |-> FALSE,
             pid |-> FALSE, ident |-> FALSE]

Idle == [pc |-> "idle", op |-> "status", job |-> NoJob, raw |-> "none",
         fd |-> "none"]

Init ==
    /\ job = [j \in Job |-> NoRecord]
    /\ provider = [j \in Job |-> "codex"]
    /\ origin = [j \in Job |-> "spawn"]
    /\ lock = [j \in Job |-> "free"]
    /\ launch = [j \in Job |-> "none"]
    /\ worker = [j \in Job |-> "none"]
    /\ runner = [j \in Job |-> "none"]
    /\ flag = [j \in Job |-> FALSE]
    /\ child = [j \in Job |-> "none"]
    /\ call = [c \in Client |-> Idle]
    /\ fresh = [c \in Client |-> FALSE]
    /\ faults = 0

-----------------------------------------------------------------------------
\* Writing the record.  Every save raises the revision, so a snapshot is current
\* exactly as long as nobody saved since it was taken: `fresh`.
SaveRecord(j, record) ==
    /\ job' = [job EXCEPT ![j] = record]
    /\ fresh' = [c \in Client |-> fresh[c] /\ call[c].job # j]

SaveState(j, s) == SaveRecord(j, [job[j] EXCEPT !.state = s])

\* A critical section that finds the directory of the job removed raises.
SaveIfExists(j, record) ==
    IF Exists(j) THEN SaveRecord(j, record) ELSE UNCHANGED <<job, fresh>>

Fault == faults < MaxFaults /\ faults' = faults + 1

Release(j, holder) ==
    lock' = [lock EXCEPT ![j] = IF @ = holder THEN "free" ELSE @]

\* process_matches(): /proc still shows the process that was recorded.  It shows
\* a zombie, too.
ProcessMatches(j) == runner[j] \in Alive \cup {"zombie"}

-----------------------------------------------------------------------------
\* Mutant: the record begins in a state that nobody knows.
NewJobUntyped(j, p, o) ==
    /\ job[j].state = "none"
    /\ provider' = [provider EXCEPT ![j] = p]
    /\ origin' = [origin EXCEPT ![j] = o]
    /\ SaveState(j, "created")
    /\ launch' = [launch EXCEPT ![j] = "created"]
    /\ UNCHANGED <<lock, worker, procVars, call, faults>>

\* The record of a new job, for the launch to take on.
NewJob(j, p, o) ==
    /\ job[j].state = "none"
    /\ provider' = [provider EXCEPT ![j] = p]
    /\ origin' = [origin EXCEPT ![j] = o]
    /\ SaveState(j, "starting")
    /\ launch' = [launch EXCEPT ![j] = "created"]
    /\ UNCHANGED <<lock, worker, procVars, call, faults>>

\* A spawn and a follow-up that pass the preflight checks.  A follow-up of a Codex
\* job needs the thread of its parent, which it syncs and otherwise leaves alone;
\* of a Claude job nothing is checked, and ClaudeRefused leaves one that never got
\* a provider id.
Spawn(j, p) == NewJob(j, p, "spawn")
Followup(j, p) == NewJob(j, p, "followup") \/ (p = "claude" /\ NewJob(j, p, "orphan"))

EndLaunch(j) == launch' = [launch EXCEPT ![j] = "done"]

\* Codex: from here to the publication of the runner's identity the lock is held.
LaunchBegin(j) ==
    /\ launch[j] = "created" /\ provider[j] = "codex" /\ Free(j)
    /\ IF ~Exists(j) \/ job[j].state \in Interrupted
       THEN EndLaunch(j) /\ UNCHANGED <<job, fresh, lock>>
       ELSE /\ SaveRecord(j, [job[j] EXCEPT !.state = "launching",
                                            !.pid = FALSE, !.ident = FALSE])
            /\ lock' = [lock EXCEPT ![j] = "launch"]
            /\ launch' = [launch EXCEPT ![j] = "locked"]
    /\ UNCHANGED <<given, worker, procVars, call, faults>>

LaunchPopen(j) ==
    /\ launch[j] = "locked"
    /\ \/ /\ runner' = [runner EXCEPT ![j] = "handshake"]
          /\ launch' = [launch EXCEPT ![j] = "spawned"]
          /\ UNCHANGED <<job, fresh, lock>>
       \/ /\ SaveState(j, "failed")                          \* OSError
          /\ EndLaunch(j) /\ Release(j, "launch")
          /\ UNCHANGED runner
    /\ UNCHANGED <<given, worker, flag, child, call, faults>>

LaunchPublish(j) ==
    /\ launch[j] = "spawned"
    /\ \E readable \in BOOLEAN :
          /\ IF readable THEN UNCHANGED faults ELSE Fault
          /\ SaveRecord(j, [job[j] EXCEPT !.pid = TRUE, !.ident = readable,
                            !.thread = @ \/ origin[j] = "followup",
                            !.state = IF readable THEN "running" ELSE "failed"])
    /\ EndLaunch(j) /\ Release(j, "launch")
    /\ UNCHANGED <<given, worker, procVars, call>>

\* Claude: `run` or `cont` of the wrapper, outside the lock.  It may fail, or
\* start a session and print no id; without the id of the session that it is to
\* continue it raises before it runs anything.
ClaudeRun(j) ==
    /\ launch[j] = "created" /\ provider[j] = "claude"
    /\ IF origin[j] = "orphan"
       THEN EndLaunch(j) /\ UNCHANGED worker
       ELSE \E started \in BOOLEAN, named \in BOOLEAN :
              /\ worker' = [worker EXCEPT ![j] = IF started THEN "busy" ELSE @]
              /\ launch' = [launch EXCEPT ![j] =
                               IF started /\ named THEN "ran" ELSE "refused"]
    /\ UNCHANGED <<job, given, lock, procVars, call, fresh, faults>>

ClaudeRefused(j) ==
    /\ launch[j] = "refused" /\ Free(j)
    /\ SaveIfExists(j, [job[j] EXCEPT !.state =
                           IF @ \in Interrupted THEN "interrupted" ELSE "failed"])
    /\ EndLaunch(j)
    /\ UNCHANGED <<given, lock, worker, procVars, call, faults>>

ClaudeRecord(j) ==
    LET late == Exists(j) /\ job[j].state \in Interrupted IN
    /\ launch[j] = "ran" /\ Free(j)
    /\ SaveIfExists(j, [job[j] EXCEPT !.prov = TRUE,
                           !.state = IF late THEN "interrupting" ELSE "running"])
    /\ launch' = [launch EXCEPT ![j] = IF late THEN "stop" ELSE "done"]
    /\ UNCHANGED <<given, lock, worker, procVars, call, faults>>

\* `stop` of the wrapper: an exit code of zero means the session has ended.
StopSession(j, ok) ==
    worker' = [worker EXCEPT ![j] = IF ok /\ @ = "busy" THEN "stopped" ELSE @]

LaunchStop(j) ==
    /\ launch[j] = "stop"
    /\ \E ok \in BOOLEAN :
          /\ StopSession(j, ok)
          /\ launch' = [launch EXCEPT ![j] = IF ok THEN "stopped" ELSE "stopfail"]
    /\ UNCHANGED <<job, given, lock, procVars, call, fresh, faults>>

\* The launch records the stop whatever the record says by now.
LaunchStopRecord(j) ==
    /\ launch[j] \in {"stopped", "stopfail"} /\ Free(j)
    /\ SaveIfExists(j, [job[j] EXCEPT !.state =
                   IF launch[j] = "stopped" THEN "interrupted" ELSE "unknown"])
    /\ EndLaunch(j)
    /\ UNCHANGED <<given, lock, worker, procVars, call, faults>>

-----------------------------------------------------------------------------
Goto(c, where) == call' = [call EXCEPT ![c].pc = where]
Hangup(c) == call' = [call EXCEPT ![c] = Idle]

\* What `status` of the wrapper prints of a session.
StatusOf(w) == CASE w = "busy" -> "running"
                 [] w = "done" -> "succeeded"
                 [] w = "failed" -> "failed"
                 [] w = "stopped" -> "interrupted"
                 [] OTHER -> "unknown"

\* The call after its sync: status, list, wait and result are answered, a clean-up
\* goes on if the job has ended.
AfterSync(c, j, o, s) ==
    IF o # "status" /\ s \in TERMINAL_STATES
    THEN [Idle EXCEPT !.pc = "act", !.op = o, !.job = j]
    ELSE Idle

\* sync(), first critical section.  For Codex it judges the record by the
\* process; for Claude it takes a snapshot and then asks the daemon, outside the
\* lock (in the same step: a snapshot that a save overtakes before the answer is
\* discarded like one that is overtaken after it).
Sync(c, j, o) ==
    LET s == job[j].state
        asks == /\ provider[j] = "claude" /\ ~Terminal(j)
                /\ job[j].prov /\ s # "interrupting"
        judged == IF provider[j] = "claude" \/ Terminal(j) \/ s = "launching" THEN s
                  ELSE IF ~job[j].pid \/ ~job[j].ident THEN "failed"
                  ELSE IF ProcessMatches(j) THEN s
                  ELSE IF s = "interrupting" THEN "interrupted" ELSE "failed"
    IN
    /\ call[c].pc = "idle" /\ Exists(j) /\ Free(j)
    /\ IF asks
       THEN /\ \E answer \in {StatusOf(worker[j]), "unknown"} :
                  call' = [call EXCEPT ![c] = [Idle EXCEPT !.pc = "poll", !.op = o,
                                                  !.job = j, !.raw = answer]]
            /\ fresh' = [fresh EXCEPT ![c] = TRUE]
            /\ UNCHANGED job
       ELSE /\ IF judged # s THEN SaveState(j, judged) ELSE UNCHANGED <<job, fresh>>
            /\ call' = [call EXCEPT ![c] = AfterSync(c, j, o, judged)]
    /\ UNCHANGED <<given, lock, launch, worker, procVars, faults>>

\* Mutant: the answer counts whatever was saved since the snapshot.
SyncApplyStale(c) ==
    LET j == call[c].job IN
    /\ call[c].pc = "poll" /\ Free(j)
    /\ Hangup(c)
    /\ SaveIfExists(j, [job[j] EXCEPT !.state = call[c].raw])
    /\ UNCHANGED <<given, lock, launch, worker, procVars, faults>>

\* sync(), second critical section: the answer counts if the revision is the one
\* of the snapshot.
SyncApply(c) ==
    LET j == call[c].job
        counts == fresh[c] /\ ~Terminal(j)
        s == IF counts THEN call[c].raw ELSE job[j].state
    IN
    /\ call[c].pc = "poll" /\ Free(j)
    /\ IF ~Exists(j)
       THEN Hangup(c) /\ UNCHANGED job /\ fresh' = [fresh EXCEPT ![c] = FALSE]
       ELSE /\ call' = [call EXCEPT ![c] = AfterSync(c, j, call[c].op, s)]
            /\ IF counts THEN SaveState(j, s)
               ELSE UNCHANGED job /\ fresh' = [fresh EXCEPT ![c] = FALSE]
    /\ UNCHANGED <<given, lock, launch, worker, procVars, faults>>

\* The record is removed under the lock, if it is still terminal; with
\* delete_provider_state only after the daemon removed its own.
Cleanup(c) ==
    LET j == call[c].job IN
    /\ call[c].pc = "act" /\ Free(j)
    /\ \/ /\ ~Exists(j) \/ ~Terminal(j) \/ (provider[j] = "claude" /\ job[j].prov)
          /\ UNCHANGED <<job, fresh, worker>>       \* changed state, or rm failed
       \/ /\ Exists(j) /\ Terminal(j)
          /\ SaveState(j, "gone")
          /\ \/ UNCHANGED worker
             \/ /\ provider[j] = "claude" /\ job[j].prov
                /\ worker' = [worker EXCEPT ![j] = "removed"]
    /\ Hangup(c)
    /\ UNCHANGED <<given, lock, launch, procVars, faults>>

-----------------------------------------------------------------------------
\* interrupt(), in the lock: a job that has not been launched is marked, a Claude
\* job is marked before its session is stopped, a Codex job is marked once a
\* pidfd is known to refer to its runner.
Interrupt(c, j) ==
    LET s == job[j].state IN
    /\ call[c].pc = "idle" /\ Exists(j) /\ ~Terminal(j) /\ Free(j)
    /\ \/ /\ provider[j] = "claude"
          /\ SaveState(j, "interrupting")
          /\ call' = [call EXCEPT ![c] =
                         IF job[j].prov THEN [Idle EXCEPT !.pc = "stop", !.job = j]
                                        ELSE Idle]
          /\ UNCHANGED lock
       \/ /\ provider[j] = "codex" /\ s \in {"starting", "launching"} /\ ~job[j].pid
          /\ SaveState(j, "interrupted")
          /\ UNCHANGED <<call, lock>>
       \/ /\ provider[j] = "codex" /\ ~(s \in {"starting", "launching"} /\ ~job[j].pid)
          /\ IF job[j].pid /\ job[j].ident /\ ProcessMatches(j)
             THEN /\ lock' = [lock EXCEPT ![j] = c]
                  /\ call' = [call EXCEPT ![c] = [Idle EXCEPT !.pc = "open", !.job = j]]
                  /\ UNCHANGED <<job, fresh>>
             ELSE SaveState(j, "failed") /\ UNCHANGED <<call, lock>>
    /\ UNCHANGED <<given, launch, worker, procVars, faults>>

\* pidfd_open(): the pid may have been freed, or given to another process.
OpenPidfd(c) ==
    LET j == call[c].job IN
    /\ call[c].pc = "open"
    /\ IF runner[j] = "gone"
       THEN SaveState(j, "failed") /\ Release(j, c) /\ Hangup(c)
       ELSE /\ call' = [call EXCEPT ![c].pc = "recheck",
                           ![c].fd = IF runner[j] = "reused" THEN "other" ELSE "runner"]
            /\ UNCHANGED <<job, fresh, lock>>
    /\ UNCHANGED <<given, launch, worker, procVars, faults>>

\* Mutant: the pidfd is trusted without a second look at the identity.
RecheckTrusting(c) ==
    LET j == call[c].job IN
    /\ call[c].pc = "recheck"
    /\ SaveState(j, "interrupting") /\ Goto(c, "signal")
    /\ Release(j, c)
    /\ UNCHANGED <<given, launch, worker, procVars, faults>>

\* Mutant: the end is recorded before the signal is sent.
RecheckEager(c) ==
    LET j == call[c].job IN
    /\ call[c].pc = "recheck"
    /\ IF ProcessMatches(j)
       THEN SaveState(j, "interrupted") /\ Goto(c, "signal")
       ELSE SaveState(j, "failed") /\ Hangup(c)
    /\ Release(j, c)
    /\ UNCHANGED <<given, launch, worker, procVars, faults>>

\* The identity is compared again, with the pidfd in hand.
Recheck(c) ==
    LET j == call[c].job IN
    /\ call[c].pc = "recheck"
    /\ IF ProcessMatches(j)
       THEN SaveState(j, "interrupting") /\ Goto(c, "signal")
       ELSE SaveState(j, "failed") /\ Hangup(c)
    /\ Release(j, c)
    /\ UNCHANGED <<given, launch, worker, procVars, faults>>

\* SIGTERM at the runner: its handler, once installed, sets the flag and signals
\* the child; before and after that the process dies of it.
Terminate(j) ==
    /\ runner' = [runner EXCEPT ![j] = IF @ \in Alive \ Armed THEN "zombie" ELSE @]
    /\ flag' = [flag EXCEPT ![j] = @ \/ runner[j] \in Armed]
    /\ child' = [child EXCEPT ![j] =
                    IF @ = "busy" /\ runner[j] = "running" THEN "signalled" ELSE @]

\* A pidfd of a process that has gone signals nobody, whoever has its pid by now.
SignalRunner(c) ==
    LET j == call[c].job IN
    /\ call[c].pc = "signal"
    /\ \/ /\ IF call[c].fd = "runner" THEN Terminate(j) ELSE UNCHANGED procVars
          /\ Hangup(c) /\ UNCHANGED faults
       \/ Fault /\ Goto(c, "sigerr") /\ UNCHANGED procVars
    /\ UNCHANGED <<job, given, lock, launch, worker, fresh>>

SignalFailed(c) ==
    LET j == call[c].job IN
    /\ call[c].pc = "sigerr" /\ Free(j)
    /\ IF job[j].state = "interrupting" THEN SaveState(j, "unknown")
       ELSE UNCHANGED <<job, fresh>>
    /\ Hangup(c)
    /\ UNCHANGED <<given, lock, launch, worker, procVars, faults>>

StopClaude(c) ==
    /\ call[c].pc = "stop"
    /\ \E ok \in BOOLEAN : /\ StopSession(call[c].job, ok)
                           /\ Goto(c, IF ok THEN "stopped" ELSE "stopfail")
    /\ UNCHANGED <<job, given, lock, launch, procVars, fresh, faults>>

\* Mutant: the stop is recorded whatever the record says by now.
StopRecordBlind(c) ==
    LET j == call[c].job IN
    /\ call[c].pc \in {"stopped", "stopfail"} /\ Free(j)
    /\ SaveIfExists(j, [job[j] EXCEPT !.state =
                   IF call[c].pc = "stopped" THEN "interrupted" ELSE "unknown"])
    /\ Hangup(c)
    /\ UNCHANGED <<given, lock, launch, worker, procVars, faults>>

StopRecord(c) ==
    LET j == call[c].job IN
    /\ call[c].pc \in {"stopped", "stopfail"} /\ Free(j)
    /\ IF Exists(j) /\ ~Terminal(j)
       THEN SaveState(j, IF call[c].pc = "stopped" THEN "interrupted" ELSE "unknown")
       ELSE UNCHANGED <<job, fresh>>
    /\ Hangup(c)
    /\ UNCHANGED <<given, lock, launch, worker, procVars, faults>>

-----------------------------------------------------------------------------
\* The detached runner.  It runs nothing before the record names it.
RunnerTo(j, where) == runner' = [runner EXCEPT ![j] = where]

\* Mutant: the runner does not wait to be named in the record.
HandshakeSkipped(j) ==
    /\ runner[j] = "handshake" /\ Free(j)
    /\ RunnerTo(j, IF job[j].state \in Interrupted THEN "refuse" ELSE "setup")
    /\ UNCHANGED <<job, fresh, given, lock, launch, worker, flag, child, call, faults>>

Handshake(j) ==
    /\ runner[j] = "handshake" /\ Free(j)
    /\ IF ~Exists(j) THEN RunnerTo(j, "zombie") /\ UNCHANGED <<job, fresh>>
       ELSE IF job[j].pid /\ job[j].ident
       THEN /\ RunnerTo(j, IF job[j].state \in Interrupted THEN "refuse" ELSE "setup")
            /\ UNCHANGED <<job, fresh>>
       ELSE /\ RunnerTo(j, "zombie")                     \* five seconds have passed
            /\ IF Terminal(j) THEN UNCHANGED <<job, fresh>> ELSE SaveState(j, "failed")
    /\ UNCHANGED <<given, lock, launch, worker, flag, child, call, faults>>

\* Interrupted before it began.
Refuse(j) ==
    /\ runner[j] = "refuse" /\ Free(j)
    /\ SaveIfExists(j, [job[j] EXCEPT !.state = "interrupted"])
    /\ RunnerTo(j, "zombie")
    /\ UNCHANGED <<given, lock, launch, worker, flag, child, call, faults>>

\* Mutant: the flag is not looked at again once Codex is started.
RunnerStepOneLook(j) ==
    /\ \/ runner[j] = "setup" /\ RunnerTo(j, "armed") /\ UNCHANGED child
       \/ /\ runner[j] = "armed"
          /\ RunnerTo(j, IF flag[j] THEN "collect" ELSE "opening")
          /\ child' = [child EXCEPT ![j] = IF flag[j] THEN @ ELSE "busy"]
       \/ runner[j] = "opening" /\ RunnerTo(j, "running") /\ UNCHANGED child
       \/ /\ runner[j] = "running" /\ child[j] \in {"ok", "bad"}
          /\ RunnerTo(j, "collect") /\ UNCHANGED child
    /\ UNCHANGED <<job, given, lock, launch, worker, flag, call, fresh, faults>>

\* The handler is installed, the flag is looked at, Codex is started, the flag is
\* looked at again: a signal in between found no child to signal.
RunnerStep(j) ==
    /\ \/ runner[j] = "setup" /\ RunnerTo(j, "armed") /\ UNCHANGED child
       \/ /\ runner[j] = "armed"
          /\ RunnerTo(j, IF flag[j] THEN "collect" ELSE "opening")
          /\ child' = [child EXCEPT ![j] = IF flag[j] THEN @ ELSE "busy"]
       \/ /\ runner[j] = "opening" /\ RunnerTo(j, "running")
          /\ child' = [child EXCEPT ![j] = IF flag[j] THEN "signalled" ELSE @]
       \/ /\ runner[j] = "running" /\ child[j] \in {"ok", "bad"}
          /\ RunnerTo(j, "collect") /\ UNCHANGED child
    /\ UNCHANGED <<job, given, lock, launch, worker, flag, call, fresh, faults>>

\* The last record of the runner, written from what it finds in the lock.
Finish(j) ==
    /\ runner[j] = "collect" /\ Free(j)
    /\ IF ~Exists(j) THEN UNCHANGED <<job, fresh>>
       ELSE IF job[j].state \in Interrupted \/ flag[j] THEN SaveState(j, "interrupted")
       ELSE \E heard \in BOOLEAN :
              SaveRecord(j, [job[j] EXCEPT !.thread = @ \/ heard,
                   !.state = IF child[j] = "ok" THEN "succeeded" ELSE "failed"])
    /\ RunnerTo(j, "zombie")
    /\ UNCHANGED <<given, lock, launch, worker, flag, child, call, faults>>

\* Anything else that fails is caught, and leaves a record.
RunnerRaises(j) ==
    /\ runner[j] \in {"setup", "armed", "collect"} /\ Free(j)
    /\ SaveIfExists(j, [job[j] EXCEPT !.state =
                           IF @ \in Interrupted THEN "interrupted" ELSE "failed"])
    /\ RunnerTo(j, "zombie")
    /\ UNCHANGED <<given, lock, launch, worker, flag, child, call, faults>>

-----------------------------------------------------------------------------
\* The processes outside: Codex and the Claude session end by themselves, the
\* runner is reaped by the server that started it (or by init), its pid is free
\* then, and may be given away.
ChildEnds(j) ==
    /\ child[j] \in {"busy", "signalled"}
    /\ \E how \in {"ok", "bad"} : /\ child[j] = "signalled" => how = "bad"
                                 /\ child' = [child EXCEPT ![j] = how]
    /\ UNCHANGED <<job, given, lock, launch, worker, runner, flag, call, fresh, faults>>

SessionEnds(j) ==
    /\ worker[j] = "busy"
    /\ \E how \in {"done", "failed"} : worker' = [worker EXCEPT ![j] = how]
    /\ UNCHANGED <<job, given, lock, launch, procVars, call, fresh, faults>>

Reap(j) ==
    /\ \/ runner[j] = "zombie" /\ RunnerTo(j, "gone")
       \/ runner[j] = "gone" /\ RunnerTo(j, "reused")
    /\ UNCHANGED <<job, given, lock, launch, worker, flag, child, call, fresh, faults>>

\* A server dies with its threads, and the kernel releases their locks; a runner
\* is killed.  Codex goes on without it.
ServerDies ==
    /\ Fault
    /\ \/ \E c \in Client :
             /\ call[c].pc # "idle" /\ Hangup(c) /\ UNCHANGED launch
             /\ lock' = [j \in Job |-> IF lock[j] = c THEN "free" ELSE lock[j]]
             /\ fresh' = [fresh EXCEPT ![c] = FALSE]
       \/ \E j \in Job :
             /\ launch[j] \notin {"none", "done"} /\ EndLaunch(j)
             /\ Release(j, "launch") /\ UNCHANGED <<call, fresh>>
    /\ UNCHANGED <<job, given, worker, procVars>>

RunnerKilled(j) ==
    /\ runner[j] \in Alive /\ Fault
    /\ RunnerTo(j, "zombie")
    /\ UNCHANGED <<job, given, lock, launch, worker, flag, child, call, fresh>>

-----------------------------------------------------------------------------
LaunchStep(j) ==
    \/ LaunchBegin(j) \/ LaunchPopen(j) \/ LaunchPublish(j)
    \/ ClaudeRun(j) \/ ClaudeRefused(j) \/ ClaudeRecord(j)
    \/ LaunchStop(j) \/ LaunchStopRecord(j)

CallStep(c) ==
    \/ SyncApply(c) \/ Cleanup(c)
    \/ OpenPidfd(c) \/ Recheck(c) \/ SignalRunner(c) \/ SignalFailed(c)
    \/ StopClaude(c) \/ StopRecord(c)

RunnerProcess(j) ==
    Handshake(j) \/ Refuse(j) \/ RunnerStep(j) \/ Finish(j) \/ RunnerRaises(j)

Next ==
    \/ \E j \in Job : \/ \E p \in Providers : Spawn(j, p) \/ Followup(j, p)
                      \/ LaunchStep(j) \/ RunnerProcess(j) \/ RunnerKilled(j)
                      \/ ChildEnds(j) \/ SessionEnds(j) \/ Reap(j)
    \/ \E c \in Client :
          \/ CallStep(c)
          \/ \E j \in Job : \/ Interrupt(c, j)
                            \/ \E o \in {"status", "cleanup"} : Sync(c, j, o)
    \/ ServerDies

\* Threads and runners that live go on, and a signalled Codex ends.  A call of
\* interrupt ends in a wait that syncs again and again, on a thread of its own
\* however busy the others are (strong fairness: the clients of an instance are
\* few), and whoever wants to know the end asks again.  Nothing is assumed of a
\* Codex or a session that is left alone, nor of a user.
Fairness ==
    /\ \A j \in Job : /\ WF_vars(LaunchStep(j)) /\ WF_vars(RunnerProcess(j))
                      /\ WF_vars(runner[j] = "zombie" /\ Reap(j))
                      /\ WF_vars(child[j] = "signalled" /\ ChildEnds(j))
                      /\ SF_vars(\E c \in Client : Sync(c, j, "status"))
    /\ \A c \in Client : WF_vars(CallStep(c))

Spec == Init /\ [][Next]_vars /\ Fairness

-----------------------------------------------------------------------------
\* No pidfd that is about to be signalled refers to a process that got the pid of
\* a runner after it: "a stale or reused PID is never targeted", although the
\* runner may exit between any two steps of the interrupt (interrupt()).
OnlyRunnersSignalled == \A c \in Client : call[c].pc = "signal" => call[c].fd = "runner"

\* Codex works only for a record that names the runner it works under: whatever
\* thread dies between the fork and the publication of the identity, no Codex
\* runs that nobody could interrupt (run_codex_runner()'s handshake).
NoUnrecordedCodex ==
    \A j \in Job : child[j] \in {"busy", "signalled"} =>
        job[j].state = "gone" \/ (job[j].pid /\ job[j].ident)

\* Nobody ends a Codex job under a live runner whose Codex still works: a sync, an
\* interrupt, a late launch or the runner's own timeout would otherwise report an
\* end, and offer the record for clean-up, while the worktree is still written.
EndedMeansStopped ==
    \A j \in Job : child[j] = "busy" /\ runner[j] \in Alive =>
        ~Terminal(j) /\ job[j].state # "gone"

\* Once the launch of a job is over, its outcome is final: no sync with an old
\* snapshot, second interrupt or finishing runner rewrites it.  (While the launch
\* is under way it is not: see LaunchBegin and LaunchStopRecord.)
OutcomeFinal ==
    [][\A j \in Job : launch[j] = "done" /\ Terminal(j) =>
          job'[j].state \in {job[j].state, "gone"}]_vars

\* An interrupt that was recorded is not forgotten: the record moves to an end or to
\* `unknown`, never back to running, and to success only by way of `unknown`.
InterruptSticks ==
    [][\A j \in Job : job[j].state = "interrupting" =>
          job'[j].state \notin {"starting", "launching", "running", "succeeded"}]_vars

\* An interrupt is answered: if no server and no runner dies, a job does not stay
\* `interrupting`.  The one exception is the follow-up of a Claude job that has no
\* provider id: its launch raises and leaves the record as it was (followup()).
InterruptAnswered ==
    [](faults = 0) =>
        \A j \in Job : (job[j].state = "interrupting" /\ origin[j] # "orphan")
                          ~> job[j].state # "interrupting"
================================================================================
