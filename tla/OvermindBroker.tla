--------------------------- MODULE OvermindBroker ---------------------------
(***************************************************************************)
(* The Overmind v2 broker (overmind_v2/broker.py) over Codex workers.      *)
(*                                                                         *)
(* The broker is one daemon process with many threads: a launch thread and *)
(* a watcher thread per job, one thread per client call (`show --fresh`    *)
(* reconciles, `stop` and `forget` change records), and, at start, the     *)
(* recovery loop of the main thread.  They share nothing but the store,    *)
(* the watcher table and the destructive lock, and between any two store   *)
(* transactions or provider reads another thread may run.  The daemon may  *)
(* crash at any point; the workers and the store survive it.               *)
(***************************************************************************)
EXTENDS OvermindStore, CodexRunner

CONSTANTS
  Callers,       \* client threads that run `show --fresh`
  NoJob,         \* "this thread has no job"
  FailureLimit,  \* OBSERVATION_FAILURE_LIMIT
  Faults,        \* may a store or provider call raise (busy database, I/O)?
  MaxCrashes,    \* bound on the number of daemon crashes
  MaxCalls       \* bound on the number of show, stop and forget calls

ASSUME NoJobAssumption == NoJob \notin Jobs
ASSUME FailureLimitAssumption == FailureLimit \in Nat \ {0}
ASSUME FaultsAssumption == Faults \in BOOLEAN
ASSUME BoundsAssumption == MaxCrashes \in Nat /\ MaxCalls \in Nat

VARIABLES
  thread,    \* program counter and locals of every thread
  failures,  \* consecutive failed observations of each watcher
  stopping,  \* what _stop read of the jobs it has not dealt with yet
  pending,   \* jobs the recovery loop has still to reconcile
  daemon,    \* "up" serves calls, "recovering" runs recovery, or "down"
  crashes,   \* number of daemon crashes so far
  calls      \* number of show, stop and forget calls so far

brokerVars == <<thread, failures, stopping, pending, daemon, crashes, calls>>
vars == <<storeVars, runnerVars, brokerVars>>

-----------------------------------------------------------------------------
(* Threads. *)

Launcher(j) == <<"launch", j>>
Watcher(j) == <<"watch", j>>
Show(c) == <<"show", c>>
Stopper == <<"stop", NoJob>>
Recovery == <<"recover", NoJob>>

Launchers == {Launcher(j) : j \in Jobs}
Watchers == {Watcher(j) : j \in Jobs}
Shows == {Show(c) : c \in Callers}
Observers == Watchers \cup Shows \cup {Recovery}
Threads == Launchers \cup Observers \cup {Stopper}

\* What a provider call told the thread: a state, the column groups it
\* carries and the error it names.
Observation == [state : States, cols : SUBSET Columns, error : Errors]

NoObservation == [state |-> "queued", cols |-> {}, error |-> "none"]

Unobservable == [state |-> "unknown", cols |-> {}, error |-> "unobservable"]
Unsignalled == [state |-> "unknown", cols |-> {}, error |-> "unsignalled"]
SignalSent == [state |-> "running", cols |-> {}, error |-> "none"]
Launched == [state |-> "starting", cols |-> {"state_path", "runner"},
             error |-> "none"]

\* Mutation: a missing state file is not told from one with contents.
ReportedUnchecked(file) ==
  [state |-> file, cols |-> {"runner", "result"}, error |-> "none"]

\* CodexProvider.reconcile on the contents of the state file.
Reported(file) ==
  CASE file = "missing"   -> Unobservable
    [] file = "starting"  -> [state |-> file, cols |-> {"runner"},
                              error |-> "none"]
    [] file \in {"running", "succeeded"}
                          -> [state |-> file, cols |-> {"runner", "result"},
                              error |-> "none"]
    [] file \in {"failed", "interrupted"}
                          -> [state |-> file, cols |-> {"runner", "result"},
                              error |-> "worker"]

Pcs == {"idle", "start", "fetch", "spawn", "identify", "settle", "failRead",
        "failWrite", "read", "file", "process", "apply", "commit", "evidence",
        "giveUp", "pop", "next", "recoverFail"}

Thread == [pc : Pcs, job : Jobs \cup {NoJob}, obs : Observation,
           seen : States]

Idle == [pc |-> "idle", job |-> NoJob, obs |-> NoObservation,
         seen |-> "queued"]

At(pc, j) == [Idle EXCEPT !.pc = pc, !.job = j]

\* The call returned a record in that state.
Settled(j, state) == [At("settle", j) EXCEPT !.seen = state]

TypeOK ==
  /\ StoreTypeOK
  /\ RunnerTypeOK
  /\ thread \in [Threads -> Thread]
  /\ \A t \in Threads : thread[t].pc \notin {"idle", "next"} =>
                          thread[t].job \in Jobs
  /\ failures \in [Jobs -> Nat]
  /\ stopping \in [Jobs -> Row]
  /\ pending \in SUBSET Jobs
  /\ daemon \in {"up", "recovering", "down"}
  /\ crashes \in 0 .. MaxCrashes
  /\ calls \in 0 .. MaxCalls

Init ==
  /\ StoreInit
  /\ RunnerInit
  /\ thread = [t \in Threads |-> Idle]
  /\ failures = [j \in Jobs |-> 0]
  /\ stopping = [j \in Jobs |-> NoRow]
  /\ pending = {}
  /\ daemon = "up"
  /\ crashes = 0
  /\ calls = 0

Goto(t, pc) == thread' = [thread EXCEPT ![t].pc = pc]

Finish(t) == thread' = [thread EXCEPT ![t] = Idle]

\* _watch: register and start a watcher unless one is registered and alive.
WithWatcher(threads, j) ==
  IF threads[Watcher(j)].pc = "idle"
    THEN [threads EXCEPT ![Watcher(j)] = At("read", j)]
    ELSE threads

\* The last step of a thread that watches the job if it has not ended.
WatchUnlessEnded(threads, j, state) ==
  IF state \in TerminalStates THEN threads ELSE WithWatcher(threads, j)

\* An exception leaves the thread's current call.  A launch goes to its
\* except branch, a watcher counts the failure, recovery goes to its own
\* except branch, and a client's call ends with the error.
Raise(t) ==
  \/ /\ t \in Launchers
     /\ thread' = [thread EXCEPT ![t] = At("failRead", t[2])]
     /\ UNCHANGED <<failures, stopping>>
  \/ /\ t \in Watchers
     /\ failures' = [failures EXCEPT ![t[2]] = @ + 1]
     /\ thread' = [thread EXCEPT ![t] =
                     At(IF failures[t[2]] + 1 >= FailureLimit
                          THEN "giveUp" ELSE "read", t[2])]
     /\ UNCHANGED stopping
  \/ /\ t \in Shows
     /\ Finish(t)
     /\ UNCHANGED <<failures, stopping>>
  \/ /\ t = Stopper
     /\ Finish(t)
     /\ stopping' = [j \in Jobs |-> NoRow]
     /\ UNCHANGED failures
  \/ /\ t = Recovery
     /\ Goto(t, "recoverFail")
     /\ UNCHANGED <<failures, stopping>>

control == <<pending, daemon, crashes, calls>>

\* A client's call is taken up while the daemon serves calls.
Call ==
  /\ daemon = "up"
  /\ calls < MaxCalls
  /\ calls' = calls + 1
  /\ UNCHANGED <<pending, daemon, crashes>>

-----------------------------------------------------------------------------
(* run, run-many, reply: create the records, then one thread per job. *)

\* The group is new, or some job still holds it.
GroupOpen(S) ==
  \A j \in S :
    \/ \A k \in Group(j) : row[k] = NoRow
    \/ \E k \in Group(j) : Exists(k)

Run(S) ==
  /\ daemon = "up"
  /\ S # {}
  /\ \A j, k \in S : GroupOf[j] = GroupOf[k]
  /\ GroupOpen(S)
  /\ CreateLaunch(S)
  /\ thread' = [t \in Threads |->
                  IF \E j \in S : t = Launcher(j) THEN At("start", t[2])
                                                  ELSE thread[t]]
  /\ UNCHANGED <<runnerVars, failures, stopping, control>>

\* Mutation: the launch does not insist on a queued record.
LaunchStartUnguarded(j) ==
  LET t == Launcher(j) IN
  /\ thread[t].pc = "start"
  /\ IF Exists(j)
       THEN UpdateJob(j, "starting", {}, "none") /\ Goto(t, "fetch")
       ELSE Finish(t) /\ UNCHANGED storeVars
  /\ UNCHANGED <<runnerVars, failures, stopping, control>>

\* update_job(state="starting", allowed_states={"queued"}); it is outside the
\* try, so a conflict simply ends the thread.
LaunchStart(j) ==
  LET t == Launcher(j) IN
  /\ thread[t].pc = "start"
  /\ IF row[j].state = "queued"
       THEN UpdateJob(j, "starting", {}, "none") /\ Goto(t, "fetch")
       ELSE Finish(t) /\ UNCHANGED storeVars
  /\ UNCHANGED <<runnerVars, failures, stopping, control>>

\* get_job, then the provider call: nothing looks at the job's state again.
LaunchFetch(j) ==
  LET t == Launcher(j) IN
  /\ thread[t].pc = "fetch"
  /\ IF Exists(j) THEN Goto(t, "spawn") /\ UNCHANGED <<failures, stopping>>
                  ELSE Raise(t)
  /\ UNCHANGED <<storeVars, runnerVars, control>>

LaunchSpawn(j) ==
  LET t == Launcher(j) IN
  /\ thread[t].pc = "spawn"
  /\ Spawn(j)
  /\ Goto(t, "identify")
  /\ UNCHANGED <<storeVars, failures, stopping, control>>

\* Popen fails, or the process is gone before its identity is read.
LaunchSpawnFails(j) ==
  LET t == Launcher(j) IN
  /\ \/ thread[t].pc = "spawn"
     \/ thread[t].pc = "identify" /\ ~ProcessMatches(j)
  /\ Raise(t)
  /\ UNCHANGED <<storeVars, runnerVars, control>>

LaunchWriteState(j) ==
  LET t == Launcher(j) IN
  /\ thread[t].pc = "identify"
  /\ WriteStartingFile(j)
  /\ thread' = [thread EXCEPT ![t].pc = "apply", ![t].obs = Launched]
  /\ UNCHANGED <<storeVars, failures, stopping, control>>

\* Mutation: only a job seen running is watched.
LaunchSettleRunning(j) ==
  LET t == Launcher(j) IN
  /\ thread[t].pc = "settle"
  /\ IF Exists(j)
       THEN /\ thread' = IF row[j].state = "running"
                           THEN WithWatcher([thread EXCEPT ![t] = Idle], j)
                           ELSE [thread EXCEPT ![t] = Idle]
            /\ UNCHANGED <<failures, stopping>>
       ELSE Raise(t)
  /\ UNCHANGED <<storeVars, runnerVars, control>>

LaunchSettle(j) ==
  LET t == Launcher(j) IN
  /\ thread[t].pc = "settle"
  /\ IF Exists(j)
       THEN /\ thread' = WatchUnlessEnded([thread EXCEPT ![t] = Idle], j,
                                          row[j].state)
            /\ UNCHANGED <<failures, stopping>>
       ELSE Raise(t)
  /\ UNCHANGED <<storeVars, runnerVars, control>>

\* The except branch of _launch_job: read the state, then record the failure.
LaunchFailRead(j) ==
  LET t == Launcher(j) IN
  /\ thread[t].pc = "failRead"
  /\ IF Exists(j) /\ row[j].state # "failed" THEN Goto(t, "failWrite")
                                             ELSE Finish(t)
  /\ UNCHANGED <<storeVars, runnerVars, failures, stopping, control>>

LaunchFailWrite(j) ==
  LET t == Launcher(j) IN
  /\ thread[t].pc = "failWrite"
  /\ IF Exists(j) THEN UpdateJob(j, "failed", {}, "launch")
                  ELSE UNCHANGED storeVars
  /\ Finish(t)
  /\ UNCHANGED <<runnerVars, failures, stopping, control>>

-----------------------------------------------------------------------------
(* _reconcile_job and _apply_observation, in whichever thread runs them. *)

ShowFresh(c, j) ==
  /\ Call
  /\ thread[Show(c)].pc = "idle"
  /\ Exists(j) /\ ~IsTerminal(j)
  /\ thread' = [thread EXCEPT ![Show(c)] = At("read", j)]
  /\ UNCHANGED <<storeVars, runnerVars, failures, stopping>>

\* get_job: a job that has ended is returned as it is.
ReadJob(t) ==
  LET j == thread[t].job IN
  /\ thread[t].pc = "read"
  /\ IF Exists(j)
       THEN /\ thread' = [thread EXCEPT ![t] =
                            IF IsTerminal(j) THEN Settled(j, row[j].state)
                                             ELSE At("file", j)]
            /\ UNCHANGED <<failures, stopping>>
       ELSE Raise(t)
  /\ UNCHANGED <<storeVars, runnerVars, control>>

ReadFile(t) ==
  LET file == stateFile[thread[t].job] IN
  /\ thread[t].pc = "file"
  /\ thread' = [thread EXCEPT
                  ![t].pc = IF file \in {"starting", "running"}
                              THEN "process" ELSE "apply",
                  ![t].obs = Reported(file)]
  /\ UNCHANGED <<storeVars, runnerVars, failures, stopping, control>>

\* The file said the worker had not ended: does its process still run?
CheckProcess(t) ==
  /\ thread[t].pc = "process"
  /\ thread' = [thread EXCEPT
                  ![t].pc = "apply",
                  ![t].obs = IF ProcessMatches(thread[t].job)
                               THEN @ ELSE Unobservable]
  /\ UNCHANGED <<storeVars, runnerVars, failures, stopping, control>>

Changed(old, obs) ==
  \/ obs.state # old.state
  \/ ~(obs.cols \subseteq old.cols)
  \/ obs.error # "none" /\ obs.error # old.error

\* Mutation: artifacts are taken to come with a launch only.
HasLaunchEvidence(obs) == "state_path" \in obs.cols

\* Artifacts come with a launch and with every file a runner has taken over.
HasEvidence(obs) == obs.cols \cap {"state_path", "result"} # {}

\* The record has been brought up to date and reads `state`.
Applied(j, obs, state) ==
  IF HasEvidence(obs)
    THEN [pc |-> "evidence", job |-> j, obs |-> obs, seen |-> state]
    ELSE Settled(j, state)

\* The read that decides whether anything changed ...
ApplyRead(t) ==
  LET j == thread[t].job
      obs == thread[t].obs IN
  /\ thread[t].pc = "apply"
  /\ IF Exists(j)
       THEN /\ IF Changed(row[j], obs)
                 THEN Goto(t, "commit")
                 ELSE thread' = [thread EXCEPT ![t] =
                                   Applied(j, obs, row[j].state)]
            /\ UNCHANGED <<failures, stopping>>
       ELSE Raise(t)
  /\ UNCHANGED <<storeVars, runnerVars, control>>

\* ... and the transaction that writes it, by when the record may be another.
ApplyCommit(t) ==
  LET j == thread[t].job
      obs == thread[t].obs IN
  /\ thread[t].pc = "commit"
  /\ IF Exists(j)
       THEN /\ UpdateJob(j, obs.state, obs.cols, obs.error)
            /\ thread' = [thread EXCEPT ![t] =
                            Applied(j, obs, row'[j].state)]
            /\ UNCHANGED <<failures, stopping>>
       ELSE Raise(t) /\ UNCHANGED storeVars
  /\ UNCHANGED <<runnerVars, control>>

\* add_artifact always, add_usage when the worker's outcome is in the file.
RecordEvidence(t) ==
  LET j == thread[t].job IN
  /\ thread[t].pc = "evidence"
  /\ IF Exists(j)
       THEN /\ IF thread[t].obs.state \in ReportedOutcomes
                 THEN AddUsage(j) ELSE UNCHANGED storeVars
            /\ thread' = [thread EXCEPT ![t] = Settled(j, @.seen)]
            /\ UNCHANGED <<failures, stopping>>
       ELSE Raise(t) /\ UNCHANGED storeVars
  /\ UNCHANGED <<runnerVars, control>>

-----------------------------------------------------------------------------
(* What each observer does with the record it got back. *)

WatchSettle(j) ==
  LET t == Watcher(j) IN
  /\ thread[t].pc = "settle"
  /\ thread' = [thread EXCEPT
                  ![t] = At(IF @.seen \in TerminalStates
                              THEN "pop" ELSE "read", j)]
  /\ failures' = [failures EXCEPT ![j] = 0]
  /\ UNCHANGED <<storeVars, runnerVars, stopping, control>>

\* Too many failures in a row: "observation lost".
WatchGiveUp(j) ==
  LET t == Watcher(j) IN
  /\ thread[t].pc = "giveUp"
  /\ IF Exists(j) THEN UpdateJob(j, "unknown", {}, "lost")
                  ELSE UNCHANGED storeVars
  /\ Goto(t, "pop")
  /\ UNCHANGED <<runnerVars, failures, stopping, control>>

\* The finally clause: leave the watcher table.
WatchPop(j) ==
  LET t == Watcher(j) IN
  /\ thread[t].pc = "pop"
  /\ Finish(t)
  /\ failures' = [failures EXCEPT ![j] = 0]
  /\ UNCHANGED <<storeVars, runnerVars, stopping, control>>

ShowSettle(c) ==
  /\ thread[Show(c)].pc = "settle"
  /\ Finish(Show(c))
  /\ UNCHANGED <<storeVars, runnerVars, failures, stopping, control>>

\* Stop and recovery watch the job if it has not ended, then go on.
LoopSettle(t) ==
  /\ t \in {Stopper, Recovery}
  /\ thread[t].pc = "settle"
  /\ thread' = WatchUnlessEnded([thread EXCEPT ![t] = At("next", NoJob)],
                                thread[t].job, thread[t].seen)
  /\ UNCHANGED <<storeVars, runnerVars, failures, stopping, control>>

-----------------------------------------------------------------------------
(* stop and forget: one at a time, under the destructive lock. *)

\* The jobs a target names: one job, or every job of a group.
IsTarget(S) ==
  \E j \in Jobs : /\ Exists(j)
                  /\ S \in {{j}, {k \in Group(j) : Exists(k)}}

\* All the records are read before the first is acted upon.
StopBegin(S) ==
  /\ Call
  /\ thread[Stopper].pc = "idle"
  /\ IsTarget(S)
  /\ \E j \in S : ~IsTerminal(j)
  /\ stopping' = [j \in Jobs |-> IF j \in S /\ ~IsTerminal(j)
                                   THEN row[j] ELSE NoRow]
  /\ thread' = [thread EXCEPT ![Stopper] = At("next", NoJob)]
  /\ UNCHANGED <<storeVars, runnerVars, failures>>

\* The record that was read names no provider process.
StopUnlaunched(j) ==
  /\ thread[Stopper].pc = "next"
  /\ stopping[j] # NoRow
  /\ stopping[j].cols = {}
  /\ UpdateJob(j, "interrupted", {}, "stopped")
  /\ stopping' = [stopping EXCEPT ![j] = NoRow]
  /\ UNCHANGED <<runnerVars, thread, failures, control>>

\* CodexProvider.interrupt: signal the process if its identity still holds.
StopSignal(j) ==
  /\ thread[Stopper].pc = "next"
  /\ stopping[j] # NoRow
  /\ stopping[j].cols # {}
  /\ IF ProcessMatches(j) THEN Terminate(j) ELSE UNCHANGED runnerVars
  /\ thread' = [thread EXCEPT ![Stopper] =
                  [At("apply", j) EXCEPT
                     !.obs = IF ProcessMatches(j) THEN SignalSent
                                                  ELSE Unsignalled]]
  /\ stopping' = [stopping EXCEPT ![j] = NoRow]
  /\ UNCHANGED <<storeVars, failures, control>>

StopEnd ==
  /\ thread[Stopper].pc = "next"
  /\ \A j \in Jobs : stopping[j] = NoRow
  /\ Finish(Stopper)
  /\ UNCHANGED <<storeVars, runnerVars, failures, stopping, control>>

Forget(S) ==
  /\ Call
  /\ thread[Stopper].pc = "idle"
  /\ IsTarget(S)
  /\ ForgetJobs(S)
  /\ UNCHANGED <<runnerVars, thread, failures, stopping>>

-----------------------------------------------------------------------------
(* Crash and recovery of the daemon. *)

Crash ==
  /\ daemon # "down"
  /\ crashes < MaxCrashes
  /\ crashes' = crashes + 1
  /\ daemon' = "down"
  /\ thread' = [t \in Threads |-> Idle]
  /\ failures' = [j \in Jobs |-> 0]
  /\ stopping' = [j \in Jobs |-> NoRow]
  /\ pending' = {}
  /\ UNCHANGED <<storeVars, runnerVars, calls>>

\* Mutation: recovery also resumes the launches that were under way.
RestartResuming ==
  /\ daemon = "down"
  /\ daemon' = "recovering"
  /\ pending' = NonterminalJobs
  /\ thread' = [t \in Threads |->
                  CASE t = Recovery -> At("next", NoJob)
                    [] \E j \in NonterminalJobs : t = Launcher(j)
                         -> At("fetch", t[2])
                    [] OTHER -> thread[t]]
  /\ UNCHANGED <<storeVars, runnerVars, failures, stopping, crashes, calls>>

\* Mutation: recovery looks only at jobs that name a provider process.
RestartLaunchedOnly ==
  /\ daemon = "down"
  /\ daemon' = "recovering"
  /\ pending' = {j \in NonterminalJobs : row[j].cols # {}}
  /\ thread' = [thread EXCEPT ![Recovery] = At("next", NoJob)]
  /\ UNCHANGED <<storeVars, runnerVars, failures, stopping, crashes, calls>>

\* reconcile_nonterminal runs to its end before the first call is served.
Restart ==
  /\ daemon = "down"
  /\ daemon' = "recovering"
  /\ pending' = NonterminalJobs
  /\ thread' = [thread EXCEPT ![Recovery] = At("next", NoJob)]
  /\ UNCHANGED <<storeVars, runnerVars, failures, stopping, crashes, calls>>

RecoverNext(j) ==
  /\ thread[Recovery].pc = "next"
  /\ j \in pending
  /\ pending' = pending \ {j}
  /\ thread' = [thread EXCEPT ![Recovery] = At("read", j)]
  /\ UNCHANGED <<storeVars, runnerVars, failures, stopping, daemon, crashes,
                 calls>>

\* Mutation: a job that cannot be reconciled counts as failed.
RecoverFailAsFailed ==
  LET j == thread[Recovery].job IN
  /\ thread[Recovery].pc = "recoverFail"
  /\ UpdateJob(j, "failed", {}, "recovery")
  /\ thread' = [thread EXCEPT ![Recovery] = At("next", NoJob)]
  /\ UNCHANGED <<runnerVars, failures, stopping, control>>

RecoverFail ==
  LET j == thread[Recovery].job IN
  /\ thread[Recovery].pc = "recoverFail"
  /\ UpdateJob(j, "unknown", {}, "recovery")
  /\ thread' = [thread EXCEPT ![Recovery] = At("next", NoJob)]
  /\ UNCHANGED <<runnerVars, failures, stopping, control>>

RecoverEnd ==
  /\ thread[Recovery].pc = "next"
  /\ pending = {}
  /\ daemon' = "up"
  /\ Finish(Recovery)
  /\ UNCHANGED <<storeVars, runnerVars, failures, stopping, pending, crashes,
                 calls>>

-----------------------------------------------------------------------------
(* Faults: a store transaction that stays busy past its retries, or a      *)
(* provider read that raises.                                              *)

CallFails(t) ==
  /\ Faults
  /\ \/ thread[t].pc \in {"fetch", "read", "file", "apply", "commit",
                          "evidence"}
     \/ thread[t].pc = "settle" /\ t \in Launchers
  /\ Raise(t)
  /\ UNCHANGED <<storeVars, runnerVars, control>>

\* The same in a place that has no handler around it: the launch thread
\* before its try or inside its except, the watcher's last update (whose
\* exception is swallowed), and the update of an unlaunched job by stop.
LastCallFails(t) ==
  /\ Faults
  /\ \/ /\ t \in Launchers
        /\ thread[t].pc \in {"start", "failRead", "failWrite"}
        /\ Finish(t)
        /\ UNCHANGED stopping
     \/ /\ t \in Watchers
        /\ thread[t].pc = "giveUp"
        /\ Goto(t, "pop")
        /\ UNCHANGED stopping
     \/ /\ t = Stopper
        /\ thread[t].pc = "next"
        /\ \E j \in Jobs : stopping[j] # NoRow
        /\ Finish(t)
        /\ stopping' = [j \in Jobs |-> NoRow]
  /\ UNCHANGED <<storeVars, runnerVars, failures, control>>

-----------------------------------------------------------------------------
LaunchStep(j) ==
  \/ LaunchStart(j)
  \/ LaunchFetch(j)
  \/ LaunchSpawn(j)
  \/ LaunchSpawnFails(j)
  \/ LaunchWriteState(j)
  \/ LaunchSettle(j)
  \/ LaunchFailRead(j)
  \/ LaunchFailWrite(j)

ObserveStep(t) ==
  \/ ReadJob(t)
  \/ ReadFile(t)
  \/ CheckProcess(t)
  \/ ApplyRead(t)
  \/ ApplyCommit(t)
  \/ RecordEvidence(t)

WatchStep(j) == WatchSettle(j) \/ WatchGiveUp(j) \/ WatchPop(j)

StopStep ==
  \/ \E j \in Jobs : StopUnlaunched(j) \/ StopSignal(j)
  \/ StopEnd

RecoverStep ==
  \/ \E j \in Jobs : RecoverNext(j)
  \/ RecoverFail
  \/ RecoverEnd

\* A step of one of the broker's own threads, once it has been started.
ThreadStep ==
  \/ \E j \in Jobs : LaunchStep(j) \/ WatchStep(j)
  \/ \E t \in Threads : ObserveStep(t) \/ LoopSettle(t)
  \/ \E c \in Callers : ShowSettle(c)
  \/ StopStep
  \/ RecoverStep

\* What clients ask for.
CallStep ==
  \/ \E S \in SUBSET Jobs : Run(S) \/ StopBegin(S) \/ Forget(S)
  \/ \E c \in Callers, j \in Jobs : ShowFresh(c, j)

FaultStep == \E t \in Threads : CallFails(t) \/ LastCallFails(t)

WorkerStep ==
  /\ \E j \in Jobs : RunnerStep(j)
  /\ UNCHANGED <<storeVars, brokerVars>>

Next ==
  \/ ThreadStep
  \/ CallStep
  \/ WorkerStep
  \/ FaultStep
  \/ Crash
  \/ Restart

Spec == Init /\ [][Next]_vars

-----------------------------------------------------------------------------
(* Properties. *)

\* Recovery never launches again, and no launch is made twice: over all the
\* crashes and restarts of the daemon at most one worker process is started
\* for a job (_launch_job, reconcile_nonterminal).
NoDuplicateLaunch == \A j \in Jobs : spawns[j] <= 1

\* A worker is only ever started for a job whose record left "queued" through
\* the launch itself: a job that was stopped, or given up by recovery, while
\* still queued never gets a process (the allowed_states of _launch_job).
OnlyStartedJobsRun ==
  \A j \in Jobs : spawns[j] > 0 /\ Exists(j) =>
                    \E i \in 1 .. Len(events[j]) : events[j][i] = "starting"

\* The recorded outcome is honest whatever stale observations were in flight:
\* success, the worker's own failure and the worker's own interruption are
\* recorded only if the worker's state file says the same; the other terminal
\* records carry the error of the broker verdict they come from.
HonestOutcome ==
  \A j \in Jobs :
    /\ row[j].state = "succeeded" => stateFile[j] = "succeeded"
    /\ row[j].state = "failed" =>
         row[j].error = "launch" \/ stateFile[j] = "failed"
    /\ row[j].state = "interrupted" =>
         row[j].error = "stopped" \/ stateFile[j] = "interrupted"
    /\ row[j].state = "unknown" =>
         row[j].error \in {"unobservable", "unsignalled", "lost", "recovery"}

\* Who follows the ledger sees what the record says: the newest lifecycle
\* event carries the record's state, and an event with a terminal state is
\* followed by no event with another state (update_job).
LedgerAgrees ==
  \A j \in Jobs :
    LET n == Len(events[j]) IN
    /\ Exists(j) <=> n > 0
    /\ n > 0 => events[j][n] = row[j].state
    /\ \A i \in 1 .. n : events[j][i] \in TerminalStates =>
                           events[j][i] = row[j].state

\* While the daemon serves calls, a job that is starting or running has its
\* launch thread still at work or a watcher that will observe it again; no
\* race of launch, watch, show and stop leaves it unwatched (_watch).
NoJobUnwatched ==
  \A j \in Jobs :
    daemon = "up" /\ row[j].state \in {"starting", "running"} =>
      \/ thread[Launcher(j)].pc # "idle"
      \/ thread[Watcher(j)].pc \notin {"idle", "giveUp", "pop"}

\* A success recorded by a daemon that never crashed has its usage evidence,
\* or some thread is about to add it: two observers that see the same outcome
\* cannot each leave the evidence to the other (_apply_observation).
EvidenceFollows ==
  \A j \in Jobs :
    crashes = 0 /\ row[j].state = "succeeded" /\ ~usage[j] =>
      \E t \in Threads : /\ thread[t].pc = "evidence"
                         /\ thread[t].job = j
                         /\ thread[t].obs.state = "succeeded"

\* The broker implements the lifecycle it promises.
Lifecycle == INSTANCE JobLifecycle
  WITH Jobs <- Jobs, state <- [j \in Jobs |-> row[j].state]

LifecycleSpec == Lifecycle!Spec

-----------------------------------------------------------------------------
(* Fairness: the daemon's threads are scheduled by the operating system, a *)
(* worker ends, and a daemon that went down is started by the next client. *)

FairRunner(j) ==
  WF_vars(RunnerProgress(j) /\ UNCHANGED <<storeVars, brokerVars>>)

Fairness ==
  /\ \A j \in Jobs : /\ FairRunner(j)
                     /\ WF_vars(LaunchStep(j) \/ ObserveStep(Launcher(j)))
                     /\ WF_vars(WatchStep(j) \/ ObserveStep(Watcher(j)))
  /\ WF_vars(RecoverStep \/ ObserveStep(Recovery) \/ LoopSettle(Recovery))
  /\ WF_vars(Restart)

FairSpec == Spec /\ Fairness

\* Every job that was queued ends, whatever calls, crashes and deaths of the
\* worker come in between (the watcher loop, and recovery after a crash).
EveryJobEnds ==
  \A j \in Jobs : row[j].state = "queued" ~>
                    row[j].state \in TerminalStates \cup {"forgotten"}

-----------------------------------------------------------------------------
(* What the repository says of the program and the program does not do. *)

\* "stopped before provider launch" (and the stop action
\* interrupted_before_launch) says that no worker was started for the job.
StoppedBeforeLaunch ==
  \A j \in Jobs : row[j].error = "stopped" => ~ProcessMatches(j)

\* "Provider terminal events normalize into durable terminal state": an
\* outcome the worker has reported is not recorded as unknown.
ReportedOutcomeRecorded ==
  [][\A j \in Jobs : stateFile[j] \in ReportedOutcomes /\ ~IsTerminal(j)
                       => row'[j].state # "unknown"]_vars

=============================================================================
