------------------------ MODULE OvermindBroker_proofs ------------------------
(***************************************************************************)
(* Theorems of OvermindBroker, for every number of jobs, callers, crashes  *)
(* and calls.                                                              *)
(***************************************************************************)
EXTENDS OvermindBroker, TLAPS

-----------------------------------------------------------------------------
(* The thread identities. *)

LEMMA ThreadNames ==
  /\ \A j \in Jobs : Launcher(j) \in Threads /\ Watcher(j) \in Threads
  /\ \A c \in Callers : Show(c) \in Threads
  /\ Stopper \in Threads
  /\ Recovery \in Threads
BY DEF Threads, Launchers, Observers, Watchers, Shows

LEMMA ThreadJob ==
  /\ \A t \in Launchers : t[2] \in Jobs
  /\ \A t \in Watchers : t[2] \in Jobs
BY DEF Launchers, Watchers, Launcher, Watcher

-----------------------------------------------------------------------------
(* The values threads are set to. *)

LEMMA ObservationTypes ==
  /\ NoObservation \in Observation
  /\ Unobservable \in Observation
  /\ Unsignalled \in Observation
  /\ SignalSent \in Observation
  /\ Launched \in Observation
BY DEF NoObservation, Unobservable, Unsignalled, SignalSent, Launched,
       Observation, States, TerminalStates, Columns, Errors

LEMMA ReportedType ==
  ASSUME NEW file \in FileStates
  PROVE  Reported(file) \in Observation
<1>1. CASE file = "missing"
  BY <1>1, ObservationTypes DEF Reported
<1>2. CASE file = "starting"
  BY <1>2 DEF Reported, Observation, States, TerminalStates, Columns, Errors
<1>3. CASE file \in {"running", "succeeded"}
  BY <1>3 DEF Reported, Observation, States, TerminalStates, Columns, Errors
<1>4. CASE file \in {"failed", "interrupted"}
  BY <1>4 DEF Reported, Observation, States, TerminalStates, Columns, Errors
<1>5. QED
  BY <1>1, <1>2, <1>3, <1>4 DEF FileStates, ReportedOutcomes

LEMMA IdleType == Idle \in Thread
BY ObservationTypes DEF Idle, Thread, Pcs, States, TerminalStates

LEMMA AtType ==
  ASSUME NEW pc \in Pcs, NEW j \in Jobs \cup {NoJob}
  PROVE  /\ At(pc, j) \in Thread
         /\ At(pc, j).pc = pc
         /\ At(pc, j).job = j
         /\ At(pc, j).obs = NoObservation
         /\ At(pc, j).seen = "queued"
BY IdleType DEF At, Thread, Idle

LEMMA SettledType ==
  ASSUME NEW j \in Jobs \cup {NoJob}, NEW state \in States
  PROVE  /\ Settled(j, state) \in Thread
         /\ Settled(j, state).pc = "settle"
         /\ Settled(j, state).job = j
         /\ Settled(j, state).obs = NoObservation
BY IdleType DEF Settled, At, Thread, Idle, Pcs

LEMMA AppliedType ==
  ASSUME NEW j \in Jobs \cup {NoJob}, NEW obs \in Observation,
         NEW state \in States
  PROVE  /\ Applied(j, obs, state) \in Thread
         /\ Applied(j, obs, state).job = j
         /\ Applied(j, obs, state).pc \in {"settle", "evidence"}
         /\ Applied(j, obs, state).pc = "evidence" =>
              Applied(j, obs, state).obs = obs
<1>1. CASE HasEvidence(obs)
  BY <1>1 DEF Applied, Thread, Pcs
<1>2. CASE ~HasEvidence(obs)
  BY <1>2, SettledType DEF Applied
<1>3. QED
  BY <1>1, <1>2

-----------------------------------------------------------------------------
(* Type correctness. *)

\* The part of TypeOK about the threads.
ThreadsOK(threads) ==
  /\ threads \in [Threads -> Thread]
  /\ \A t \in Threads : threads[t].pc \notin {"idle", "next"} =>
                          threads[t].job \in Jobs

\* Setting one thread to a proper value keeps the threads proper.
LEMMA SetThread ==
  ASSUME NEW threads, ThreadsOK(threads), NEW t \in Threads,
         NEW value \in Thread,
         value.pc \notin {"idle", "next"} => value.job \in Jobs
  PROVE  ThreadsOK([threads EXCEPT ![t] = value])
BY DEF ThreadsOK

LEMMA StartWatcher ==
  ASSUME NEW threads, ThreadsOK(threads), NEW j \in Jobs, NEW state
  PROVE  ThreadsOK(WatchUnlessEnded(threads, j, state))
<1>1. At("read", j) \in Thread /\ At("read", j).job \in Jobs
  BY AtType DEF Pcs
<1>2. ThreadsOK([threads EXCEPT ![Watcher(j)] = At("read", j)])
  BY <1>1, SetThread, ThreadNames
<1>3. QED
  BY <1>2 DEF WatchUnlessEnded, WithWatcher

LEMMA RaiseType ==
  ASSUME TypeOK, NEW t \in Threads, Raise(t),
         t = Recovery => thread[t].pc \notin {"idle", "next"}
  PROVE  /\ ThreadsOK(thread')
         /\ failures' \in [Jobs -> Nat]
         /\ stopping' \in [Jobs -> Row]
<1> USE DEF TypeOK
<1>0. ThreadsOK(thread)
  BY DEF ThreadsOK
<1>1. CASE t \in Launchers /\ thread' = [thread EXCEPT ![t] = At("failRead", t[2])]
             /\ UNCHANGED <<failures, stopping>>
  <2>1. At("failRead", t[2]) \in Thread /\ At("failRead", t[2]).job \in Jobs
    BY <1>1, AtType, ThreadJob DEF Pcs
  <2>2. QED
    BY <2>1, <1>0, <1>1, SetThread
<1>2. CASE t \in Watchers
             /\ failures' = [failures EXCEPT ![t[2]] = @ + 1]
             /\ thread' = [thread EXCEPT ![t] =
                     At(IF failures[t[2]] + 1 >= FailureLimit
                          THEN "giveUp" ELSE "read", t[2])]
             /\ UNCHANGED stopping
  <2>1. \A pc \in {"giveUp", "read"} :
          At(pc, t[2]) \in Thread /\ At(pc, t[2]).job \in Jobs
    BY <1>2, AtType, ThreadJob DEF Pcs
  <2>2. ThreadsOK(thread')
    BY <2>1, <1>0, <1>2, SetThread
  <2>3. failures' \in [Jobs -> Nat]
    <3>1. t[2] \in Jobs
      BY <1>2, ThreadJob
    <3>2. failures[t[2]] + 1 \in Nat
      BY <3>1
    <3>3. failures' = [failures EXCEPT ![t[2]] = failures[t[2]] + 1]
      BY <1>2
    <3>4. QED
      BY <3>1, <3>2, <3>3
  <2>4. QED
    BY <2>2, <2>3, <1>2
<1>3. CASE Finish(t)
             /\ (UNCHANGED stopping \/ stopping' = [j \in Jobs |-> NoRow])
             /\ UNCHANGED failures
  <2>1. Idle \in Thread /\ Idle.pc = "idle"
    BY IdleType DEF Idle
  <2>2. ThreadsOK(thread')
    BY <2>1, <1>0, <1>3, SetThread DEF Finish
  <2>3. NoRow \in Row
    BY DEF NoRow, Row, Errors
  <2>4. QED
    BY <2>2, <2>3, <1>3
<1>4. CASE t = Recovery /\ Goto(t, "recoverFail") /\ UNCHANGED <<failures, stopping>>
  <2>1. thread' = [thread EXCEPT ![t] = [thread[t] EXCEPT !.pc = "recoverFail"]]
    BY <1>4 DEF Goto
  <2>2. [thread[t] EXCEPT !.pc = "recoverFail"] \in Thread
    BY DEF Thread, Pcs
  <2>3. [thread[t] EXCEPT !.pc = "recoverFail"].job \in Jobs
    BY <1>4 DEF Thread
  <2>4. QED
    BY <2>1, <2>2, <2>3, <1>0, <1>4, SetThread
<1>5. QED
  BY <1>1, <1>2, <1>3, <1>4 DEF Raise

\* Moving a thread that has a job, with or without a new observation.
LEMMA MoveThread ==
  ASSUME NEW threads, ThreadsOK(threads), NEW t \in Threads,
         threads[t].job \in Jobs, NEW pc \in Pcs, NEW obs \in Observation
  PROVE  /\ ThreadsOK([threads EXCEPT ![t].pc = pc])
         /\ ThreadsOK([threads EXCEPT ![t].pc = pc, ![t].obs = obs])
<1>1. /\ [threads[t] EXCEPT !.pc = pc] \in Thread
      /\ [threads[t] EXCEPT !.pc = pc].job \in Jobs
  BY DEF ThreadsOK, Thread
<1>2. /\ [threads[t] EXCEPT !.pc = pc, !.obs = obs] \in Thread
      /\ [threads[t] EXCEPT !.pc = pc, !.obs = obs].job \in Jobs
  BY DEF ThreadsOK, Thread
<1>3. ThreadsOK([threads EXCEPT ![t] = [threads[t] EXCEPT !.pc = pc]])
  BY <1>1, SetThread
<1>4. ThreadsOK([threads EXCEPT ![t] = [threads[t] EXCEPT !.pc = pc,
                                                          !.obs = obs]])
  BY <1>2, SetThread
<1>5. threads \in [Threads -> Thread]
  BY DEF ThreadsOK
<1>6. [threads EXCEPT ![t].pc = pc, ![t].obs = obs]
        = [threads EXCEPT ![t] = [threads[t] EXCEPT !.pc = pc, !.obs = obs]]
  BY <1>5 DEF Thread
<1>7. QED
  BY <1>3, <1>4, <1>6

LEMMA IdleThread ==
  ASSUME NEW threads, ThreadsOK(threads), NEW t \in Threads
  PROVE  /\ ThreadsOK([threads EXCEPT ![t] = Idle])
         /\ ThreadsOK([threads EXCEPT ![t] = At("next", NoJob)])
<1>1. Idle \in Thread /\ Idle.pc = "idle"
  BY IdleType DEF Idle
<1>2. At("next", NoJob) \in Thread /\ At("next", NoJob).pc = "next"
  BY AtType DEF Pcs
<1>3. QED
  BY <1>1, <1>2, SetThread

\* A thread set to work at some place on a job.
LEMMA SendThread ==
  ASSUME NEW threads, ThreadsOK(threads), NEW t \in Threads, NEW j \in Jobs,
         NEW pc \in Pcs
  PROVE  ThreadsOK([threads EXCEPT ![t] = At(pc, j)])
<1>1. At(pc, j) \in Thread /\ At(pc, j).job = j
  BY AtType
<1>2. QED
  BY <1>1, SetThread

\* Goto and Finish as steps.
LEMMA GotoType ==
  ASSUME ThreadsOK(thread), NEW t \in Threads, thread[t].job \in Jobs,
         NEW pc \in Pcs, Goto(t, pc)
  PROVE  ThreadsOK(thread')
BY MoveThread, ObservationTypes DEF Goto

LEMMA FinishType ==
  ASSUME ThreadsOK(thread), NEW t \in Threads, Finish(t)
  PROVE  ThreadsOK(thread')
BY IdleThread DEF Finish

LEMMA UpdateJobType ==
  ASSUME StoreTypeOK, NEW j \in Jobs, NEW state \in States,
         NEW cols \in SUBSET Columns, NEW error \in Errors,
         UpdateJob(j, state, cols, error)
  PROVE  StoreTypeOK'
<1>1. CASE Dropped(j, state)
  BY <1>1 DEF UpdateJob, StoreTypeOK
<1>2. CASE ~Dropped(j, state)
  <2>1. UpdatedRow(row[j], state, cols, error) \in Row
    BY DEF UpdatedRow, StoreTypeOK, Row
  <2>2. Append(events[j], state) \in Seq(States)
    BY DEF StoreTypeOK
  <2>3. QED
    BY <1>2, <2>1, <2>2 DEF UpdateJob, StoreTypeOK
<1>3. QED
  BY <1>1, <1>2

LEMMA CreateLaunchType ==
  ASSUME StoreTypeOK, NEW S \in SUBSET Jobs, CreateLaunch(S)
  PROVE  StoreTypeOK'
<1>1. QueuedRow \in Row /\ <<"queued">> \in Seq(States)
  BY DEF QueuedRow, Row, States, Errors
<1>2. QED
  BY <1>1 DEF CreateLaunch, StoreTypeOK

LEMMA ForgetJobsType ==
  ASSUME StoreTypeOK, NEW S \in SUBSET Jobs, ForgetJobs(S)
  PROVE  StoreTypeOK'
<1>1. ForgottenRow \in Row /\ <<>> \in Seq(States)
  BY DEF ForgottenRow, Row, States, Errors
<1>2. QED
  BY <1>1 DEF ForgetJobs, StoreTypeOK

LEMMA RunnerStepType ==
  ASSUME RunnerTypeOK, NEW j \in Jobs,
         RunnerStep(j) \/ Spawn(j) \/ WriteStartingFile(j) \/ Terminate(j)
  PROVE  RunnerTypeOK'
<1> USE DEF RunnerTypeOK, RunnerPhases, FileStates, ReportedOutcomes
<1>1. CASE Spawn(j)
  BY <1>1 DEF Spawn
<1>2. CASE WriteStartingFile(j)
  BY <1>2 DEF WriteStartingFile
<1>3. CASE Terminate(j)
  BY <1>3 DEF Terminate
<1>4. CASE Handshake(j) \/ HandshakeTimeout(j)
  BY <1>4 DEF Handshake, HandshakeTimeout
<1>5. CASE InstallHandler(j) \/ ChildExits(j) \/ ExitRunner(j) \/ KillRunner(j)
  BY <1>5 DEF InstallHandler, ChildExits, ExitRunner, KillRunner
<1>6. CASE RecordOutcome(j)
  <2>1. RecordedOutcomes(j) \subseteq FileStates
    BY DEF RecordedOutcomes
  <2>2. QED
    BY <1>6, <2>1 DEF RecordOutcome
<1>7. QED
  BY <1>1, <1>2, <1>3, <1>4, <1>5, <1>6 DEF RunnerStep, RunnerProgress

\* The part of TypeOK about the daemon itself.
ControlOK ==
  /\ pending \in SUBSET Jobs
  /\ daemon \in {"up", "recovering", "down"}
  /\ crashes \in 0 .. MaxCrashes
  /\ calls \in 0 .. MaxCalls

LEMMA TypeParts ==
  /\ TypeOK <=> /\ StoreTypeOK
                /\ RunnerTypeOK
                /\ ThreadsOK(thread)
                /\ failures \in [Jobs -> Nat]
                /\ stopping \in [Jobs -> Row]
                /\ ControlOK
  /\ TypeOK' <=> /\ StoreTypeOK'
                 /\ RunnerTypeOK'
                 /\ ThreadsOK(thread')
                 /\ failures' \in [Jobs -> Nat]
                 /\ stopping' \in [Jobs -> Row]
                 /\ ControlOK'
BY DEF TypeOK, ThreadsOK, ControlOK

LEMMA UnchangedTypes ==
  /\ StoreTypeOK /\ UNCHANGED storeVars => StoreTypeOK'
  /\ RunnerTypeOK /\ UNCHANGED runnerVars => RunnerTypeOK'
  /\ ControlOK /\ UNCHANGED control => ControlOK'
BY DEF StoreTypeOK, RunnerTypeOK, ControlOK, storeVars, runnerVars, control

LEMMA NoRowType == NoRow \in Row
BY DEF NoRow, Row, Errors

LEMMA LaunchStepType ==
  ASSUME TypeOK, NEW j \in Jobs, LaunchStep(j)
  PROVE  TypeOK'
<1>1. /\ StoreTypeOK /\ RunnerTypeOK /\ ThreadsOK(thread) /\ ControlOK
      /\ failures \in [Jobs -> Nat] /\ stopping \in [Jobs -> Row]
  BY TypeParts
<1>2. /\ Launcher(j) \in Threads
      /\ Launcher(j) # Recovery
      /\ Launcher(j)[2] = j
  BY ThreadNames DEF Launcher, Recovery
<1>3. thread[Launcher(j)].pc \notin {"idle", "next"} =>
        thread[Launcher(j)].job \in Jobs
  BY <1>1, <1>2 DEF ThreadsOK
<1>4. {"fetch", "spawn", "identify", "failWrite", "apply"} \subseteq Pcs
  BY DEF Pcs
<1>5. CASE LaunchStart(j)
  <2>1. ThreadsOK(thread')
    <3>1. CASE Goto(Launcher(j), "fetch")
      BY <3>1, <1>5, <1>1, <1>2, <1>3, <1>4, GotoType DEF LaunchStart
    <3>2. CASE Finish(Launcher(j))
      BY <3>2, <1>1, <1>2, FinishType
    <3>3. QED
      BY <3>1, <3>2, <1>5 DEF LaunchStart
  <2>2. StoreTypeOK'
    <3>1. CASE row[j].state = "queued"
      BY <3>1, <1>5, <1>1, UpdateJobType DEF LaunchStart, States, Errors
    <3>2. CASE row[j].state # "queued"
      BY <3>2, <1>5, <1>1, UnchangedTypes DEF LaunchStart
    <3>3. QED
      BY <3>1, <3>2
  <2>3. QED
    BY <2>1, <2>2, <1>1, <1>5, TypeParts, UnchangedTypes DEF LaunchStart
<1>6. CASE LaunchFetch(j)
  <2>1. /\ ThreadsOK(thread')
        /\ failures' \in [Jobs -> Nat]
        /\ stopping' \in [Jobs -> Row]
    <3>1. CASE Exists(j)
      BY <3>1, <1>6, <1>1, <1>2, <1>3, <1>4, GotoType DEF LaunchFetch
    <3>2. CASE ~Exists(j)
      BY <3>2, <1>6, <1>2, RaiseType DEF LaunchFetch
    <3>3. QED
      BY <3>1, <3>2
  <2>2. QED
    BY <2>1, <1>1, <1>6, TypeParts, UnchangedTypes DEF LaunchFetch
<1>7. CASE LaunchSpawn(j)
  <2>1. ThreadsOK(thread')
    BY <1>7, <1>1, <1>2, <1>3, <1>4, GotoType DEF LaunchSpawn
  <2>2. QED
    BY <2>1, <1>1, <1>7, RunnerStepType, TypeParts, UnchangedTypes
    DEF LaunchSpawn
<1>8. CASE LaunchSpawnFails(j)
  <2>1. /\ ThreadsOK(thread')
        /\ failures' \in [Jobs -> Nat]
        /\ stopping' \in [Jobs -> Row]
    BY <1>8, <1>2, RaiseType DEF LaunchSpawnFails
  <2>2. QED
    BY <2>1, <1>1, <1>8, TypeParts, UnchangedTypes DEF LaunchSpawnFails
<1>9. CASE LaunchWriteState(j)
  <2>1. ThreadsOK(thread')
    BY <1>9, <1>1, <1>2, <1>3, <1>4, MoveThread, ObservationTypes
    DEF LaunchWriteState
  <2>2. QED
    BY <2>1, <1>1, <1>9, RunnerStepType, TypeParts, UnchangedTypes
    DEF LaunchWriteState
<1>10. CASE LaunchSettle(j)
  <2>1. /\ ThreadsOK(thread')
        /\ failures' \in [Jobs -> Nat]
        /\ stopping' \in [Jobs -> Row]
    <3>1. CASE Exists(j)
      <4>1. ThreadsOK([thread EXCEPT ![Launcher(j)] = Idle])
        BY <1>1, <1>2, IdleThread
      <4>2. thread' = WatchUnlessEnded([thread EXCEPT ![Launcher(j)] = Idle],
                                       j, row[j].state)
        BY <3>1, <1>10 DEF LaunchSettle
      <4>3. ThreadsOK(thread')
        BY <4>1, <4>2, StartWatcher
      <4>4. QED
        BY <4>3, <3>1, <1>10, <1>1 DEF LaunchSettle
    <3>2. CASE ~Exists(j)
      BY <3>2, <1>10, <1>2, RaiseType DEF LaunchSettle
    <3>3. QED
      BY <3>1, <3>2
  <2>2. QED
    BY <2>1, <1>1, <1>10, TypeParts, UnchangedTypes DEF LaunchSettle
<1>11. CASE LaunchFailRead(j)
  <2>1. ThreadsOK(thread')
    <3>1. CASE Goto(Launcher(j), "failWrite")
      BY <3>1, <1>11, <1>1, <1>2, <1>3, <1>4, GotoType DEF LaunchFailRead
    <3>2. CASE Finish(Launcher(j))
      BY <3>2, <1>1, <1>2, FinishType
    <3>3. QED
      BY <3>1, <3>2, <1>11 DEF LaunchFailRead
  <2>2. QED
    BY <2>1, <1>1, <1>11, TypeParts, UnchangedTypes DEF LaunchFailRead
<1>12. CASE LaunchFailWrite(j)
  <2>1. ThreadsOK(thread')
    BY <1>12, <1>1, <1>2, FinishType DEF LaunchFailWrite
  <2>2. StoreTypeOK'
    <3>1. CASE Exists(j)
      BY <3>1, <1>12, <1>1, UpdateJobType
      DEF LaunchFailWrite, States, TerminalStates, Errors
    <3>2. CASE ~Exists(j)
      BY <3>2, <1>12, <1>1, UnchangedTypes DEF LaunchFailWrite
    <3>3. QED
      BY <3>1, <3>2
  <2>3. QED
    BY <2>1, <2>2, <1>1, <1>12, TypeParts, UnchangedTypes
    DEF LaunchFailWrite
<1>13. QED
  BY <1>5, <1>6, <1>7, <1>8, <1>9, <1>10, <1>11, <1>12 DEF LaunchStep

\* An observer is at a place of its own only with a job, so that even the
\* recovery thread may raise there.
LEMMA ObserveStepType ==
  ASSUME TypeOK, NEW t \in Threads, ObserveStep(t)
  PROVE  TypeOK'
<1> DEFINE j == thread[t].job
<1> DEFINE Rest == /\ ThreadsOK(thread')
                   /\ failures' \in [Jobs -> Nat]
                   /\ stopping' \in [Jobs -> Row]
<1>1. /\ StoreTypeOK /\ RunnerTypeOK /\ ThreadsOK(thread) /\ ControlOK
      /\ failures \in [Jobs -> Nat] /\ stopping \in [Jobs -> Row]
  BY TypeParts
<1>2. thread[t].pc \notin {"idle", "next"}
  BY DEF ObserveStep, ReadJob, ReadFile, CheckProcess, ApplyRead, ApplyCommit,
         RecordEvidence
<1>3. /\ j \in Jobs
      /\ thread[t] \in Thread
      /\ thread[t].obs \in Observation
      /\ thread[t].seen \in States
  BY <1>1, <1>2 DEF ThreadsOK, Thread
<1>4. {"file", "process", "apply", "commit"} \subseteq Pcs
  BY DEF Pcs
<1>5. ASSUME Raise(t)
      PROVE  Rest
  BY <1>2, <1>5, RaiseType
<1>6. /\ thread[t].obs.state \in States
      /\ thread[t].obs.cols \in SUBSET Columns
      /\ thread[t].obs.error \in Errors
  BY <1>3 DEF Observation
<1>7. ASSUME NEW value \in Thread, value.job \in Jobs,
             thread' = [thread EXCEPT ![t] = value]
      PROVE  ThreadsOK(thread')
  BY <1>1, <1>7, SetThread
<1>8. \A s \in States : /\ Settled(j, s) \in Thread
                        /\ Settled(j, s).job \in Jobs
                        /\ \A obs \in Observation :
                             /\ Applied(j, obs, s) \in Thread
                             /\ Applied(j, obs, s).job \in Jobs
  BY <1>3, SettledType, AppliedType
<1> HIDE DEF j
<1>9. CASE ReadJob(t)
  <2>1. Rest
    <3>1. CASE Exists(j)
      <4>1. At("file", j) \in Thread /\ At("file", j).job \in Jobs
        BY <1>3, <1>4, AtType
      <4>2. ThreadsOK(thread')
        BY <4>1, <3>1, <1>9, <1>7, <1>8 DEF ReadJob, Exists, j
      <4>3. QED
        BY <4>2, <3>1, <1>9, <1>1 DEF ReadJob, j
    <3>2. CASE ~Exists(j)
      BY <3>2, <1>5, <1>9 DEF ReadJob, j
    <3>3. QED
      BY <3>1, <3>2
  <2>2. QED
    BY <2>1, <1>1, <1>9, TypeParts, UnchangedTypes DEF ReadJob
<1>10. CASE ReadFile(t)
  <2>1. Reported(stateFile[j]) \in Observation
    BY <1>1, <1>3, ReportedType DEF RunnerTypeOK
  <2>2. PICK pc \in {"process", "apply"} :
          thread' = [thread EXCEPT ![t].pc = pc,
                                   ![t].obs = Reported(stateFile[j])]
    BY <1>10 DEF ReadFile, j
  <2>3. ThreadsOK(thread')
    BY <2>1, <2>2, <1>1, <1>3, <1>4, MoveThread DEF j
  <2>4. QED
    BY <2>3, <1>1, <1>10, TypeParts, UnchangedTypes DEF ReadFile
<1>11. CASE CheckProcess(t)
  <2>1. PICK obs \in Observation :
          thread' = [thread EXCEPT ![t].pc = "apply", ![t].obs = obs]
    <3>1. CASE ProcessMatches(j)
      <4>1. thread' = [thread EXCEPT ![t].pc = "apply",
                                     ![t].obs = thread[t].obs]
        BY <3>1, <1>1, <1>11 DEF CheckProcess, j, ThreadsOK, Thread
      <4>2. QED
        BY <4>1, <1>3
    <3>2. CASE ~ProcessMatches(j)
      <4>1. thread' = [thread EXCEPT ![t].pc = "apply",
                                     ![t].obs = Unobservable]
        BY <3>2, <1>11 DEF CheckProcess, j
      <4>2. QED
        BY <4>1, ObservationTypes
    <3>3. QED
      BY <3>1, <3>2
  <2>2. ThreadsOK(thread')
    BY <2>1, <1>1, <1>3, <1>4, MoveThread DEF j
  <2>3. QED
    BY <2>2, <1>1, <1>11, TypeParts, UnchangedTypes DEF CheckProcess
<1>12. CASE ApplyRead(t)
  <2>1. Rest
    <3>1. CASE Exists(j) /\ Changed(row[j], thread[t].obs)
      BY <3>1, <1>12, <1>1, <1>3, <1>4, GotoType DEF ApplyRead, j
    <3>2. CASE Exists(j) /\ ~Changed(row[j], thread[t].obs)
      <4>1. thread' = [thread EXCEPT ![t] =
                         Applied(j, thread[t].obs, row[j].state)]
        BY <3>2, <1>12 DEF ApplyRead, j
      <4>2. ThreadsOK(thread')
        BY <4>1, <3>2, <1>3, <1>7, <1>8 DEF Exists
      <4>3. QED
        BY <4>2, <3>2, <1>12, <1>1 DEF ApplyRead, j
    <3>3. CASE ~Exists(j)
      BY <3>3, <1>5, <1>12 DEF ApplyRead, j
    <3>4. QED
      BY <3>1, <3>2, <3>3
  <2>2. QED
    BY <2>1, <1>1, <1>12, TypeParts, UnchangedTypes DEF ApplyRead
<1>13. CASE ApplyCommit(t)
  <2>1. CASE Exists(j)
    <3>1. UpdateJob(j, thread[t].obs.state, thread[t].obs.cols,
                    thread[t].obs.error)
      BY <2>1, <1>13 DEF ApplyCommit, j
    <3>2. StoreTypeOK'
      BY <3>1, <1>1, <1>3, <1>6, UpdateJobType
    <3>3. row'[j].state \in States
      BY <3>1, <2>1, <1>1, <1>3, <1>6
      DEF UpdateJob, UpdatedRow, Exists, StoreTypeOK
    <3>4. thread' = [thread EXCEPT ![t] =
                       Applied(j, thread[t].obs, row'[j].state)]
      BY <2>1, <1>13 DEF ApplyCommit, j
    <3>5. ThreadsOK(thread')
      BY <3>3, <3>4, <1>3, <1>7, <1>8
    <3>6. QED
      BY <3>2, <3>5, <2>1, <1>1, <1>13, TypeParts, UnchangedTypes
      DEF ApplyCommit, j
  <2>2. CASE ~Exists(j)
    BY <2>2, <1>1, <1>5, <1>13, TypeParts, UnchangedTypes DEF ApplyCommit, j
  <2>3. QED
    BY <2>1, <2>2
<1>14. CASE RecordEvidence(t)
  <2>1. CASE Exists(j)
    <3>1. StoreTypeOK'
      <4>1. CASE AddUsage(j)
        BY <4>1, <1>1, <1>3 DEF AddUsage, StoreTypeOK
      <4>2. CASE UNCHANGED storeVars
        BY <4>2, <1>1, UnchangedTypes
      <4>3. QED
        BY <4>1, <4>2, <2>1, <1>14 DEF RecordEvidence, j
    <3>2. thread' = [thread EXCEPT ![t] = Settled(j, thread[t].seen)]
      BY <2>1, <1>14 DEF RecordEvidence, j
    <3>3. ThreadsOK(thread')
      BY <3>2, <1>3, <1>7, <1>8
    <3>4. QED
      BY <3>1, <3>3, <2>1, <1>1, <1>14, TypeParts, UnchangedTypes
      DEF RecordEvidence, j
  <2>2. CASE ~Exists(j)
    BY <2>2, <1>1, <1>5, <1>14, TypeParts, UnchangedTypes
    DEF RecordEvidence, j
  <2>3. QED
    BY <2>1, <2>2
<1>15. QED
  BY <1>9, <1>10, <1>11, <1>12, <1>13, <1>14 DEF ObserveStep

LEMMA WatchStepType ==
  ASSUME TypeOK, NEW j \in Jobs, WatchStep(j)
  PROVE  TypeOK'
<1>1. /\ StoreTypeOK /\ RunnerTypeOK /\ ThreadsOK(thread) /\ ControlOK
      /\ failures \in [Jobs -> Nat] /\ stopping \in [Jobs -> Row]
  BY TypeParts
<1>2. Watcher(j) \in Threads
  BY ThreadNames
<1>3. [failures EXCEPT ![j] = 0] \in [Jobs -> Nat]
  BY <1>1
<1>4. {"pop", "read"} \subseteq Pcs
  BY DEF Pcs
<1>5. CASE WatchSettle(j)
  <2>1. PICK pc \in {"pop", "read"} :
          thread' = [thread EXCEPT ![Watcher(j)] = At(pc, j)]
    <3>1. CASE thread[Watcher(j)].seen \in TerminalStates
      BY <3>1, <1>5 DEF WatchSettle
    <3>2. CASE thread[Watcher(j)].seen \notin TerminalStates
      BY <3>2, <1>5 DEF WatchSettle
    <3>3. QED
      BY <3>1, <3>2
  <2>2. ThreadsOK(thread')
    BY <2>1, <1>1, <1>2, <1>4, SendThread
  <2>3. QED
    BY <2>2, <1>1, <1>3, <1>5, TypeParts, UnchangedTypes DEF WatchSettle
<1>6. CASE WatchGiveUp(j)
  <2>1. thread[Watcher(j)].job \in Jobs
    BY <1>1, <1>2, <1>6 DEF WatchGiveUp, ThreadsOK
  <2>2. ThreadsOK(thread')
    BY <2>1, <1>1, <1>2, <1>4, <1>6, GotoType DEF WatchGiveUp
  <2>3. StoreTypeOK'
    <3>1. CASE Exists(j)
      BY <3>1, <1>6, <1>1, UpdateJobType
      DEF WatchGiveUp, States, TerminalStates, Errors
    <3>2. CASE ~Exists(j)
      BY <3>2, <1>6, <1>1, UnchangedTypes DEF WatchGiveUp
    <3>3. QED
      BY <3>1, <3>2
  <2>4. QED
    BY <2>2, <2>3, <1>1, <1>6, TypeParts, UnchangedTypes DEF WatchGiveUp
<1>7. CASE WatchPop(j)
  BY <1>1, <1>2, <1>3, <1>7, FinishType, TypeParts, UnchangedTypes
  DEF WatchPop
<1>8. QED
  BY <1>5, <1>6, <1>7 DEF WatchStep

\* Stop, recovery and their common way of settling a job.
LEMMA LoopSettleType ==
  ASSUME TypeOK, NEW t \in Threads, LoopSettle(t)
  PROVE  TypeOK'
<1>1. /\ StoreTypeOK /\ RunnerTypeOK /\ ThreadsOK(thread) /\ ControlOK
      /\ failures \in [Jobs -> Nat] /\ stopping \in [Jobs -> Row]
  BY TypeParts
<1>2. thread[t].job \in Jobs
  BY <1>1 DEF LoopSettle, ThreadsOK
<1>3. ThreadsOK([thread EXCEPT ![t] = At("next", NoJob)])
  BY <1>1, IdleThread
<1>4. thread' = WatchUnlessEnded([thread EXCEPT ![t] = At("next", NoJob)],
                                 thread[t].job, thread[t].seen)
  BY DEF LoopSettle
<1>5. ThreadsOK(thread')
  BY <1>2, <1>3, <1>4, StartWatcher
<1>6. QED
  BY <1>5, <1>1, TypeParts, UnchangedTypes DEF LoopSettle

LEMMA StopStepType ==
  ASSUME TypeOK, StopStep
  PROVE  TypeOK'
<1>1. /\ StoreTypeOK /\ RunnerTypeOK /\ ThreadsOK(thread) /\ ControlOK
      /\ failures \in [Jobs -> Nat] /\ stopping \in [Jobs -> Row]
  BY TypeParts
<1>2. \A j \in Jobs : [stopping EXCEPT ![j] = NoRow] \in [Jobs -> Row]
  BY <1>1, NoRowType
<1>3. ASSUME NEW j \in Jobs, StopUnlaunched(j)
      PROVE  TypeOK'
  <2>1. StoreTypeOK'
    BY <1>1, <1>3, UpdateJobType
    DEF StopUnlaunched, States, TerminalStates, Errors
  <2>2. QED
    BY <2>1, <1>1, <1>2, <1>3, TypeParts, UnchangedTypes DEF StopUnlaunched
<1>4. ASSUME NEW j \in Jobs, StopSignal(j)
      PROVE  TypeOK'
  <2>1. RunnerTypeOK'
    BY <1>1, <1>4, RunnerStepType, UnchangedTypes DEF StopSignal
  <2>2. PICK obs \in Observation :
          thread' = [thread EXCEPT ![Stopper] =
                       [At("apply", j) EXCEPT !.obs = obs]]
    BY <1>4, ObservationTypes DEF StopSignal
  <2>3. /\ [At("apply", j) EXCEPT !.obs = obs] \in Thread
        /\ [At("apply", j) EXCEPT !.obs = obs].job \in Jobs
    BY AtType DEF Pcs, Thread
  <2>4. ThreadsOK(thread')
    BY <2>2, <2>3, <1>1, SetThread, ThreadNames
  <2>5. QED
    BY <2>1, <2>4, <1>1, <1>2, <1>4, TypeParts, UnchangedTypes DEF StopSignal
<1>5. CASE StopEnd
  BY <1>1, <1>5, FinishType, ThreadNames, TypeParts, UnchangedTypes
  DEF StopEnd
<1>6. QED
  BY <1>3, <1>4, <1>5 DEF StopStep

LEMMA RecoverStepType ==
  ASSUME TypeOK, RecoverStep
  PROVE  TypeOK'
<1>1. /\ StoreTypeOK /\ RunnerTypeOK /\ ThreadsOK(thread) /\ ControlOK
      /\ failures \in [Jobs -> Nat] /\ stopping \in [Jobs -> Row]
  BY TypeParts
<1>2. ASSUME NEW j \in Jobs, RecoverNext(j)
      PROVE  TypeOK'
  <2>1. ThreadsOK(thread')
    BY <1>1, <1>2, SendThread, ThreadNames DEF RecoverNext, Pcs
  <2>2. ControlOK'
    BY <1>1, <1>2 DEF RecoverNext, ControlOK
  <2>3. QED
    BY <2>1, <2>2, <1>1, <1>2, TypeParts, UnchangedTypes DEF RecoverNext
<1>3. CASE RecoverFail
  <2>1. thread[Recovery].job \in Jobs
    BY <1>1, <1>3, ThreadNames DEF RecoverFail, ThreadsOK
  <2>2. StoreTypeOK'
    BY <2>1, <1>1, <1>3, UpdateJobType
    DEF RecoverFail, States, TerminalStates, Errors
  <2>3. ThreadsOK(thread')
    BY <1>1, <1>3, IdleThread, ThreadNames DEF RecoverFail
  <2>4. QED
    BY <2>2, <2>3, <1>1, <1>3, TypeParts, UnchangedTypes DEF RecoverFail
<1>4. CASE RecoverEnd
  <2>1. ControlOK'
    BY <1>1, <1>4 DEF RecoverEnd, ControlOK
  <2>2. QED
    BY <2>1, <1>1, <1>4, FinishType, ThreadNames, TypeParts, UnchangedTypes
    DEF RecoverEnd
<1>5. QED
  BY <1>2, <1>3, <1>4 DEF RecoverStep

LEMMA CallStepType ==
  ASSUME TypeOK, CallStep
  PROVE  TypeOK'
<1>1. /\ StoreTypeOK /\ RunnerTypeOK /\ ThreadsOK(thread) /\ ControlOK
      /\ failures \in [Jobs -> Nat] /\ stopping \in [Jobs -> Row]
  BY TypeParts
<1>2. ASSUME NEW S \in SUBSET Jobs, Run(S)
      PROVE  TypeOK'
  <2>1. \A j \in Jobs : /\ At("start", j) \in Thread
                        /\ At("start", j).job \in Jobs
    BY AtType DEF Pcs
  <2>2. \A t \in Threads : \A j \in S : t = Launcher(j) => t[2] = j
    BY DEF Launcher
  <2>3. ThreadsOK(thread')
    BY <2>1, <2>2, <1>1, <1>2 DEF Run, ThreadsOK
  <2>4. QED
    BY <2>3, <1>1, <1>2, CreateLaunchType, TypeParts, UnchangedTypes DEF Run
<1>3. ASSUME Call
      PROVE  ControlOK'
  BY <1>1, <1>3, BoundsAssumption DEF Call, ControlOK
<1>4. ASSUME NEW S \in SUBSET Jobs, StopBegin(S)
      PROVE  TypeOK'
  <2>1. stopping' \in [Jobs -> Row]
    BY <1>1, <1>4, NoRowType DEF StopBegin, StoreTypeOK
  <2>2. ThreadsOK(thread')
    BY <1>1, <1>4, IdleThread, ThreadNames DEF StopBegin
  <2>3. QED
    BY <2>1, <2>2, <1>1, <1>3, <1>4, TypeParts, UnchangedTypes DEF StopBegin
<1>5. ASSUME NEW S \in SUBSET Jobs, Forget(S)
      PROVE  TypeOK'
  BY <1>1, <1>3, <1>5, ForgetJobsType, TypeParts, UnchangedTypes DEF Forget
<1>6. ASSUME NEW c \in Callers, NEW j \in Jobs, ShowFresh(c, j)
      PROVE  TypeOK'
  <2>1. ThreadsOK(thread')
    BY <1>1, <1>6, SendThread, ThreadNames DEF ShowFresh, Pcs
  <2>2. QED
    BY <2>1, <1>1, <1>3, <1>6, TypeParts, UnchangedTypes DEF ShowFresh
<1>7. QED
  BY <1>2, <1>4, <1>5, <1>6 DEF CallStep

LEMMA FaultStepType ==
  ASSUME TypeOK, FaultStep
  PROVE  TypeOK'
<1>1. /\ StoreTypeOK /\ RunnerTypeOK /\ ThreadsOK(thread) /\ ControlOK
      /\ failures \in [Jobs -> Nat] /\ stopping \in [Jobs -> Row]
  BY TypeParts
<1>2. ASSUME NEW t \in Threads, CallFails(t)
      PROVE  TypeOK'
  <2>1. t = Recovery => thread[t].pc \notin {"idle", "next"}
    BY <1>2 DEF CallFails, Launchers, Launcher, Recovery
  <2>2. QED
    BY <2>1, <1>1, <1>2, RaiseType, TypeParts, UnchangedTypes DEF CallFails
<1>3. ASSUME NEW t \in Threads, LastCallFails(t)
      PROVE  TypeOK'
  <2>1. ThreadsOK(thread')
    <3>1. CASE Finish(t)
      BY <3>1, <1>1, FinishType
    <3>2. CASE thread[t].pc = "giveUp" /\ Goto(t, "pop")
      BY <3>2, <1>1, GotoType DEF ThreadsOK, Pcs
    <3>3. QED
      BY <3>1, <3>2, <1>3 DEF LastCallFails
  <2>2. stopping' \in [Jobs -> Row]
    BY <1>1, <1>3, NoRowType DEF LastCallFails
  <2>3. QED
    BY <2>1, <2>2, <1>1, <1>3, TypeParts, UnchangedTypes DEF LastCallFails
<1>4. QED
  BY <1>2, <1>3 DEF FaultStep

\* Every step keeps the types.
LEMMA NextType == TypeOK /\ [Next]_vars => TypeOK'
<1> SUFFICES ASSUME TypeOK, [Next]_vars
             PROVE  TypeOK'
  OBVIOUS
<1>1. /\ StoreTypeOK /\ RunnerTypeOK /\ ThreadsOK(thread) /\ ControlOK
      /\ failures \in [Jobs -> Nat] /\ stopping \in [Jobs -> Row]
  BY TypeParts
<1>2. ASSUME NEW c \in Callers, ShowSettle(c)
      PROVE  TypeOK'
  BY <1>1, <1>2, FinishType, ThreadNames, TypeParts, UnchangedTypes
  DEF ShowSettle
<1>3. CASE ThreadStep
  BY <1>2, <1>3, LaunchStepType, WatchStepType, ObserveStepType,
     LoopSettleType, StopStepType, RecoverStepType
  DEF ThreadStep
<1>4. CASE WorkerStep
  <2>1. RunnerTypeOK'
    BY <1>1, <1>4, RunnerStepType DEF WorkerStep
  <2>2. QED
    BY <2>1, <1>1, <1>4, TypeParts, UnchangedTypes
    DEF WorkerStep, brokerVars, control
<1>5. CASE Crash
  <2>1. ThreadsOK(thread')
    BY <1>5, IdleType DEF Crash, ThreadsOK, Idle
  <2>2. ControlOK'
    BY <1>1, <1>5, BoundsAssumption DEF Crash, ControlOK
  <2>3. /\ failures' \in [Jobs -> Nat]
        /\ stopping' \in [Jobs -> Row]
    BY <1>5, NoRowType DEF Crash
  <2>4. QED
    BY <2>1, <2>2, <2>3, <1>1, <1>5, TypeParts, UnchangedTypes DEF Crash
<1>6. CASE Restart
  <2>1. ThreadsOK(thread')
    BY <1>1, <1>6, IdleThread, ThreadNames DEF Restart
  <2>2. ControlOK'
    BY <1>1, <1>6 DEF Restart, ControlOK, NonterminalJobs
  <2>3. QED
    BY <2>1, <2>2, <1>1, <1>6, TypeParts, UnchangedTypes DEF Restart
<1>7. CASE UNCHANGED vars
  BY <1>1, <1>7, TypeParts, UnchangedTypes DEF vars, brokerVars, control
<1>8. QED
  BY <1>3, <1>4, <1>5, <1>6, <1>7, CallStepType, FaultStepType DEF Next

LEMMA InitType == Init => TypeOK
<1> SUFFICES ASSUME Init
             PROVE  TypeOK
  OBVIOUS
<1>1. StoreTypeOK
  BY NoRowType DEF Init, StoreInit, StoreTypeOK
<1>2. RunnerTypeOK
  BY DEF Init, RunnerInit, RunnerTypeOK, RunnerPhases, FileStates
<1>3. ThreadsOK(thread)
  BY IdleType DEF Init, ThreadsOK, Idle
<1>4. failures \in [Jobs -> Nat] /\ stopping \in [Jobs -> Row] /\ ControlOK
  BY NoRowType, BoundsAssumption DEF Init, ControlOK
<1>5. QED
  BY <1>1, <1>2, <1>3, <1>4, TypeParts

\* Type correctness: whatever the interleaving of threads, workers, faults and
\* crashes, every variable keeps its type, and every thread that is at work on
\* a record works on a job.
THEOREM TypeCorrect == Spec => []TypeOK
<1>1. QED
  BY InitType, NextType, PTL DEF Spec

-----------------------------------------------------------------------------
(* One launch, and the state file it leads to.                             *)
(*                                                                         *)
(* HonestOutcome speaks of the record and the state file; what is in       *)
(* between is the observation a thread carries from its read to its        *)
(* commit.  So the invariant says that every observation in flight is      *)
(* still true of the file, and for that the file must never leave an       *)
(* outcome: no second launch may write "starting" over it, and only the    *)
(* runner that said "running" may record one.                              *)

Launching == {"start", "fetch", "spawn", "identify"}

LaunchInv(j) ==
  LET pc == thread[Launcher(j)].pc IN
  /\ row[j] = NoRow \/ pc \in {"start", "fetch", "spawn"} =>
       runner[j] = "absent" /\ stateFile[j] = "missing" /\ spawns[j] = 0
  /\ pc \in Launching => row[j] # NoRow
  /\ pc = "identify" => stateFile[j] = "missing"
  /\ runner[j] \in {"preparing", "executing", "recording"} =>
       stateFile[j] = "running"
  /\ spawns[j] <= 1

\* A record or an observation says nothing the state file contradicts.
Honest(entry, file) ==
  /\ entry.state = "succeeded" => file = "succeeded"
  /\ entry.state = "failed" => entry.error = "launch" \/ file = "failed"
  /\ entry.state = "interrupted" =>
       entry.error = "stopped" \/ file = "interrupted"
  /\ entry.state = "unknown" =>
       entry.error \in {"unobservable", "unsignalled", "lost", "recovery"}

InFlight == {"process", "apply", "commit", "evidence"}

HonestThreads(threads, files) ==
  \A t \in Threads : threads[t].pc \in InFlight =>
                       Honest(threads[t].obs, files[threads[t].job])

IInv ==
  /\ TypeOK
  /\ \A j \in Jobs : LaunchInv(j)
  /\ \A j \in Jobs : Honest(row[j], stateFile[j])
  /\ HonestThreads(thread, stateFile)

\* Most steps only move threads to places where they neither launch nor carry
\* an observation.
KeepsThreads(old, new) ==
  \A t \in Threads : \/ new[t] = old[t]
                     \/ new[t].pc \notin InFlight \cup Launching

LEMMA KeptHonest ==
  ASSUME NEW old, NEW new, NEW files, KeepsThreads(old, new),
         HonestThreads(old, files)
  PROVE  HonestThreads(new, files)
BY DEF KeepsThreads, HonestThreads

LEMMA PlaceFields ==
  /\ Idle.pc = "idle"
  /\ \A pc, j : At(pc, j).pc = pc /\ At(pc, j).job = j
  /\ \A j, s : Settled(j, s).pc = "settle"
BY DEF Idle, At, Settled

LEMMA AppliedFields ==
  ASSUME NEW j, NEW obs, NEW s
  PROVE  \/ Applied(j, obs, s).pc = "settle"
         \/ /\ Applied(j, obs, s).pc = "evidence"
            /\ Applied(j, obs, s).job = j
            /\ Applied(j, obs, s).obs = obs
BY PlaceFields DEF Applied

LEMMA SetCalm ==
  ASSUME NEW threads \in [Threads -> Thread], NEW t \in Threads, NEW value,
         value.pc \notin InFlight \cup Launching
  PROVE  KeepsThreads(threads, [threads EXCEPT ![t] = value])
BY DEF KeepsThreads

LEMMA GotoCalm ==
  ASSUME thread \in [Threads -> Thread], NEW t \in Threads, NEW pc,
         pc \notin InFlight \cup Launching, Goto(t, pc)
  PROVE  KeepsThreads(thread, thread')
<1>1. thread[t] \in Thread
  OBVIOUS
<1>2. thread'[t].pc = pc
  BY <1>1 DEF Goto, Thread
<1>3. \A u \in Threads : u # t => thread'[u] = thread[u]
  BY DEF Goto
<1>4. QED
  BY <1>2, <1>3 DEF KeepsThreads

LEMMA FinishCalm ==
  ASSUME thread \in [Threads -> Thread], NEW t \in Threads, Finish(t)
  PROVE  KeepsThreads(thread, thread')
BY PlaceFields, SetCalm DEF Finish, InFlight, Launching

LEMMA WatchCalm ==
  ASSUME NEW threads, NEW new \in [Threads -> Thread], NEW j \in Jobs,
         NEW state, KeepsThreads(threads, new)
  PROVE  KeepsThreads(threads, WatchUnlessEnded(new, j, state))
<1>1. At("read", j).pc \notin InFlight \cup Launching
  BY PlaceFields DEF InFlight, Launching
<1>2. KeepsThreads(threads, [new EXCEPT ![Watcher(j)] = At("read", j)])
  BY <1>1, ThreadNames DEF KeepsThreads
<1>3. QED
  BY <1>2 DEF WatchUnlessEnded, WithWatcher

LEMMA RaiseCalm ==
  ASSUME thread \in [Threads -> Thread], NEW t \in Threads, Raise(t)
  PROVE  KeepsThreads(thread, thread')
<1> USE DEF InFlight, Launching
<1> DEFINE calm == {"failRead", "giveUp", "read"}
<1>0. ASSUME NEW pc \in calm, NEW j, thread' = [thread EXCEPT ![t] = At(pc, j)]
      PROVE  KeepsThreads(thread, thread')
  <2>1. At(pc, j).pc = pc
    BY PlaceFields
  <2>2. At(pc, j).pc \notin InFlight \cup Launching
    BY <2>1
  <2>3. QED
    BY <2>2, <1>0, SetCalm
<1>1. CASE thread' = [thread EXCEPT ![t] = At("failRead", t[2])]
  BY <1>0, <1>1
<1>2. CASE thread' = [thread EXCEPT ![t] =
                        At(IF failures[t[2]] + 1 >= FailureLimit
                             THEN "giveUp" ELSE "read", t[2])]
  BY <1>0, <1>2
<1>3. CASE Finish(t)
  BY <1>3, FinishCalm
<1>4. CASE Goto(t, "recoverFail")
  BY <1>4, GotoCalm
<1>5. QED
  BY <1>1, <1>2, <1>3, <1>4 DEF Raise

\* What a step does to the records: nothing, a launch, a removal, or an update
\* that says nothing the state file contradicts.
Update(j, entry) ==
  /\ UpdateJob(j, entry.state, entry.cols, entry.error)
  /\ Honest(entry, stateFile[j])

StoreStep ==
  \/ UNCHANGED <<row, events>>
  \/ \E S \in SUBSET Jobs : CreateLaunch(S) \/ ForgetJobs(S)
  \/ \E j \in Jobs, entry \in Observation : Update(j, entry)

LEMMA UpdateEntry ==
  ASSUME NEW j \in Jobs, NEW state \in States, NEW error \in Errors,
         UpdateJob(j, state, {}, error),
         Honest([state |-> state, cols |-> {}, error |-> error], stateFile[j])
  PROVE  StoreStep
<1> DEFINE entry == [state |-> state, cols |-> {}, error |-> error]
<1>1. entry \in Observation
  BY DEF Observation
<1>2. Update(j, entry)
  BY DEF Update
<1>3. QED
  BY <1>1, <1>2 DEF StoreStep

LEMMA NextStore ==
  ASSUME IInv, [Next]_vars
  PROVE  StoreStep
<1> USE DEF States, TerminalStates, Errors, Honest
<1>1. ASSUME NEW j \in Jobs, LaunchStep(j)
      PROVE  StoreStep
  <2>1. CASE LaunchStart(j) /\ row[j].state = "queued"
    BY <2>1, UpdateEntry DEF LaunchStart
  <2>2. CASE LaunchFailWrite(j) /\ Exists(j)
    BY <2>2, UpdateEntry DEF LaunchFailWrite
  <2>3. CASE UNCHANGED storeVars
    BY <2>3 DEF StoreStep, storeVars
  <2>4. QED
    BY <2>1, <2>2, <2>3, <1>1
    DEF LaunchStep, LaunchStart, LaunchFetch, LaunchSpawn, LaunchSpawnFails,
        LaunchWriteState, LaunchSettle, LaunchFailRead, LaunchFailWrite
<1>2. ASSUME NEW t \in Threads, ObserveStep(t)
      PROVE  StoreStep
  <2>1. CASE ApplyCommit(t) /\ Exists(thread[t].job)
    <3>1. thread[t].job \in Jobs /\ thread[t].obs \in Observation
      BY <2>1 DEF IInv, TypeOK, Thread, ApplyCommit
    <3>2. Update(thread[t].job, thread[t].obs)
      BY <2>1 DEF IInv, HonestThreads, InFlight, ApplyCommit, Update
    <3>3. QED
      BY <3>1, <3>2 DEF StoreStep
  <2>2. CASE RecordEvidence(t)
    BY <2>2 DEF RecordEvidence, StoreStep, AddUsage, storeVars
  <2>3. CASE UNCHANGED storeVars
    BY <2>3 DEF StoreStep, storeVars
  <2>4. QED
    BY <2>1, <2>2, <2>3, <1>2
    DEF ObserveStep, ReadJob, ReadFile, CheckProcess, ApplyRead, ApplyCommit
<1>3. ASSUME NEW j \in Jobs, WatchStep(j)
      PROVE  StoreStep
  <2>1. CASE WatchGiveUp(j) /\ Exists(j)
    BY <2>1, UpdateEntry DEF WatchGiveUp
  <2>2. CASE UNCHANGED storeVars
    BY <2>2 DEF StoreStep, storeVars
  <2>3. QED
    BY <2>1, <2>2, <1>3 DEF WatchStep, WatchSettle, WatchGiveUp, WatchPop
<1>4. CASE StopStep
  <2>1. ASSUME NEW j \in Jobs, StopUnlaunched(j)
        PROVE  StoreStep
    BY <2>1, UpdateEntry DEF StopUnlaunched
  <2>2. CASE UNCHANGED storeVars
    BY <2>2 DEF StoreStep, storeVars
  <2>3. QED
    BY <2>1, <2>2, <1>4 DEF StopStep, StopSignal, StopEnd
<1>5. CASE RecoverStep
  <2>1. CASE RecoverFail
    <3>1. thread[Recovery].job \in Jobs
      BY <2>1, ThreadNames DEF RecoverFail, IInv, TypeOK
    <3>2. QED
      BY <2>1, <3>1, UpdateEntry DEF RecoverFail
  <2>2. CASE UNCHANGED storeVars
    BY <2>2 DEF StoreStep, storeVars
  <2>3. QED
    BY <2>1, <2>2, <1>5 DEF RecoverStep, RecoverNext, RecoverEnd
<1>6. CASE ThreadStep
  <2>1. ASSUME NEW t \in Threads, LoopSettle(t)
        PROVE  StoreStep
    BY <2>1 DEF LoopSettle, StoreStep, storeVars
  <2>2. ASSUME NEW c \in Callers, ShowSettle(c)
        PROVE  StoreStep
    BY <2>2 DEF ShowSettle, StoreStep, storeVars
  <2>3. QED
    BY <2>1, <2>2, <1>1, <1>2, <1>3, <1>4, <1>5, <1>6 DEF ThreadStep
<1>7. CASE CallStep
  BY <1>7
  DEF CallStep, Run, StopBegin, Forget, ShowFresh, StoreStep, storeVars
<1>8. CASE WorkerStep \/ FaultStep \/ Crash \/ Restart \/ UNCHANGED vars
  BY <1>8
  DEF WorkerStep, FaultStep, CallFails, LastCallFails, Crash, Restart, vars,
      StoreStep, storeVars
<1>9. QED
  BY <1>6, <1>7, <1>8 DEF Next

\* No step contradicts the state file in a record, or unmakes a record.
LEMMA RowsKept ==
  ASSUME IInv, [Next]_vars, NEW j \in Jobs
  PROVE  /\ Honest(row'[j], stateFile[j])
         /\ row[j] # NoRow => row'[j] # NoRow
<1>1. row \in [Jobs -> Row] /\ Honest(row[j], stateFile[j])
  BY DEF IInv, TypeOK, StoreTypeOK
<1>2. StoreStep
  BY NextStore
<1>3. CASE UNCHANGED <<row, events>>
  BY <1>1, <1>3
<1>4. ASSUME NEW S \in SUBSET Jobs, CreateLaunch(S)
      PROVE  /\ Honest(row'[j], stateFile[j])
             /\ row[j] # NoRow => row'[j] # NoRow
  <2>1. row'[j] = QueuedRow \/ row'[j] = row[j]
    BY <1>4 DEF CreateLaunch
  <2>2. QED
    BY <2>1, <1>1 DEF QueuedRow, NoRow, Honest
<1>5. ASSUME NEW S \in SUBSET Jobs, ForgetJobs(S)
      PROVE  /\ Honest(row'[j], stateFile[j])
             /\ row[j] # NoRow => row'[j] # NoRow
  <2>1. row'[j] = ForgottenRow \/ row'[j] = row[j]
    BY <1>5 DEF ForgetJobs
  <2>2. QED
    BY <2>1, <1>1 DEF ForgottenRow, NoRow, Honest
<1>6. ASSUME NEW i \in Jobs, NEW entry \in Observation, Update(i, entry)
      PROVE  /\ Honest(row'[j], stateFile[j])
             /\ row[j] # NoRow => row'[j] # NoRow
  <2>1. \/ row'[j] = row[j]
        \/ /\ i = j
           /\ row'[j] = UpdatedRow(row[j], entry.state, entry.cols,
                                   entry.error)
    BY <1>1, <1>6 DEF Update, UpdateJob
  <2>2. CASE row'[j] = row[j]
    BY <2>2, <1>1
  <2>3. CASE /\ i = j
             /\ row'[j] = UpdatedRow(row[j], entry.state, entry.cols,
                                     entry.error)
    <3>1. entry.state \in States /\ Honest(entry, stateFile[j])
      BY <2>3, <1>6 DEF Update, Observation
    <3>2. /\ row'[j].state = entry.state
          /\ entry.error # "none" => row'[j].error = entry.error
      BY <2>3 DEF UpdatedRow
    <3>3. QED
      BY <3>1, <3>2 DEF Honest, NoRow, States, TerminalStates
  <2>4. QED
    BY <2>1, <2>2, <2>3
<1>7. QED
  BY <1>2, <1>3, <1>4, <1>5, <1>6 DEF StoreStep

\* What a step does to the threads and the runners, but for the steps of a
\* launch, of a signal and of a worker.
CalmStep ==
  /\ KeepsThreads(thread, thread')
  /\ UNCHANGED runnerVars

\* One thread carries an observation that is true of the state file.
CarryStep ==
  /\ \E t \in Threads, value \in Thread :
       /\ thread' = [thread EXCEPT ![t] = value]
       /\ value.pc \in InFlight
       /\ Honest(value.obs, stateFile[value.job])
  /\ UNCHANGED runnerVars

LaunchMove(j) ==
  LaunchStart(j) \/ LaunchFetch(j) \/ LaunchSpawn(j) \/ LaunchWriteState(j)

LEMMA LaunchControl ==
  ASSUME TypeOK, NEW j \in Jobs, LaunchStep(j)
  PROVE  CalmStep \/ LaunchMove(j)
<1> DEFINE t == Launcher(j)
<1>1. thread \in [Threads -> Thread] /\ t \in Threads
  BY ThreadNames DEF TypeOK
<1> HIDE DEF t
<1>2. CASE LaunchSpawnFails(j)
  BY <1>1, <1>2, RaiseCalm DEF LaunchSpawnFails, CalmStep, t
<1>3. CASE LaunchSettle(j)
  <2>1. CASE Raise(t)
    BY <2>1, <1>1, <1>3, RaiseCalm DEF LaunchSettle, CalmStep
  <2>2. CASE thread' = WatchUnlessEnded([thread EXCEPT ![t] = Idle], j,
                                        row[j].state)
    <3>1. KeepsThreads(thread, [thread EXCEPT ![t] = Idle])
      BY <1>1, PlaceFields, SetCalm DEF InFlight, Launching
    <3>2. [thread EXCEPT ![t] = Idle] \in [Threads -> Thread]
      BY <1>1, IdleType
    <3>3. KeepsThreads(thread, thread')
      BY <3>1, <3>2, <2>2, WatchCalm
    <3>4. QED
      BY <3>3, <1>3 DEF LaunchSettle, CalmStep
  <2>3. QED
    BY <2>1, <2>2, <1>3 DEF LaunchSettle, t
<1>4. CASE LaunchFailRead(j)
  <2>1. CASE Goto(t, "failWrite")
    <3>1. KeepsThreads(thread, thread')
      BY <2>1, <1>1, GotoCalm DEF InFlight, Launching
    <3>2. QED
      BY <3>1, <1>4 DEF LaunchFailRead, CalmStep
  <2>2. CASE Finish(t)
    BY <2>2, <1>1, <1>4, FinishCalm DEF LaunchFailRead, CalmStep
  <2>3. QED
    BY <2>1, <2>2, <1>4 DEF LaunchFailRead, t
<1>5. CASE LaunchFailWrite(j)
  BY <1>1, <1>5, FinishCalm DEF LaunchFailWrite, CalmStep, t
<1>6. QED
  BY <1>2, <1>3, <1>4, <1>5 DEF LaunchStep, LaunchMove

LEMMA ObserveControl ==
  ASSUME IInv, NEW t \in Threads, ObserveStep(t)
  PROVE  CalmStep \/ CarryStep
<1> DEFINE j == thread[t].job
<1>1. /\ thread \in [Threads -> Thread]
      /\ thread[t].pc \notin {"idle", "next"} => j \in Jobs
      /\ stateFile \in [Jobs -> FileStates]
  BY DEF IInv, TypeOK, RunnerTypeOK
<1>2. /\ thread[t] \in Thread
      /\ thread[t].obs \in Observation
      /\ thread[t].pc \in InFlight => Honest(thread[t].obs, stateFile[j])
  BY <1>1 DEF IInv, HonestThreads, Thread
<1>3. ASSUME NEW value, value.pc \notin InFlight \cup Launching,
             thread' = [thread EXCEPT ![t] = value], UNCHANGED runnerVars
      PROVE  CalmStep
  BY <1>1, <1>3, SetCalm DEF CalmStep
<1>4. ASSUME NEW pc \in {"process", "apply", "commit"}, NEW obs \in Observation,
             j \in Jobs, Honest(obs, stateFile[j]), UNCHANGED runnerVars,
             thread' = [thread EXCEPT ![t] = [thread[t] EXCEPT !.pc = pc,
                                                               !.obs = obs]]
      PROVE  CarryStep
  <2> DEFINE value == [thread[t] EXCEPT !.pc = pc, !.obs = obs]
  <2>1. /\ value \in Thread
        /\ value.pc \in InFlight
        /\ value.obs = obs
        /\ value.job = j
    BY <1>2 DEF Thread, Pcs, InFlight
  <2> HIDE DEF value
  <2>2. thread' = [thread EXCEPT ![t] = value]
    BY <1>4 DEF value
  <2>3. QED
    BY <2>1, <2>2, <1>4 DEF CarryStep
<1>5. ASSUME NEW state \in States, thread[t].pc \in InFlight, j \in Jobs,
             UNCHANGED runnerVars,
             thread' = [thread EXCEPT ![t] = Applied(j, thread[t].obs, state)]
      PROVE  CalmStep \/ CarryStep
  <2> DEFINE value == Applied(j, thread[t].obs, state)
  <2>1. value \in Thread
    BY <1>2, <1>5, AppliedType
  <2>2. CASE value.pc = "settle"
    BY <2>2, <1>3, <1>5 DEF InFlight, Launching
  <2>3. CASE /\ value.pc = "evidence"
             /\ value.job = j
             /\ value.obs = thread[t].obs
    BY <2>1, <2>3, <1>2, <1>5 DEF CarryStep, InFlight
  <2>4. QED
    BY <2>2, <2>3, AppliedFields
<1> HIDE DEF j
<1>6. ASSUME Raise(t), UNCHANGED runnerVars
      PROVE  CalmStep
  BY <1>1, <1>6, RaiseCalm DEF CalmStep
<1>7. CASE ReadJob(t)
  <2>1. CASE Raise(t)
    BY <2>1, <1>6, <1>7 DEF ReadJob
  <2>2. CASE thread' = [thread EXCEPT ![t] = Settled(j, row[j].state)]
    <3>1. Settled(j, row[j].state).pc \notin InFlight \cup Launching
      BY PlaceFields DEF InFlight, Launching
    <3>2. QED
      BY <3>1, <2>2, <1>3, <1>7 DEF ReadJob
  <2>3. CASE thread' = [thread EXCEPT ![t] = At("file", j)]
    <3>1. At("file", j).pc \notin InFlight \cup Launching
      BY PlaceFields DEF InFlight, Launching
    <3>2. QED
      BY <3>1, <2>3, <1>3, <1>7 DEF ReadJob
  <2>4. QED
    BY <2>1, <2>2, <2>3, <1>7 DEF ReadJob, j
<1>8. CASE ReadFile(t)
  <2>1. j \in Jobs
    BY <1>1, <1>8 DEF ReadFile
  <2>2. Reported(stateFile[j]) \in Observation
    BY <2>1, <1>1, ReportedType
  <2>3. Honest(Reported(stateFile[j]), stateFile[j])
    BY <2>1, <1>1
    DEF Reported, Honest, Unobservable, FileStates, ReportedOutcomes
  <2>4. PICK pc \in {"process", "apply"} :
          thread' = [thread EXCEPT ![t].pc = pc,
                                   ![t].obs = Reported(stateFile[j])]
    BY <1>8 DEF ReadFile, j
  <2>5. thread' = [thread EXCEPT ![t] =
                     [thread[t] EXCEPT !.pc = pc,
                                       !.obs = Reported(stateFile[j])]]
    BY <2>4, <1>1, <1>2 DEF Thread
  <2>6. QED
    BY <2>1, <2>2, <2>3, <2>5, <1>4, <1>8 DEF ReadFile
<1>9. CASE CheckProcess(t)
  <2>1. j \in Jobs /\ Honest(thread[t].obs, stateFile[j])
    BY <1>1, <1>2, <1>9 DEF CheckProcess, InFlight
  <2>2. Honest(Unobservable, stateFile[j])
    BY DEF Honest, Unobservable
  <2>3. PICK obs \in Observation :
          /\ Honest(obs, stateFile[j])
          /\ thread' = [thread EXCEPT ![t].pc = "apply", ![t].obs = obs]
    <3>1. CASE ProcessMatches(j)
      <4>1. thread' = [thread EXCEPT ![t].pc = "apply",
                                     ![t].obs = thread[t].obs]
        BY <3>1, <1>1, <1>9 DEF CheckProcess, j, Thread
      <4>2. QED
        BY <4>1, <2>1, <1>2
    <3>2. CASE ~ProcessMatches(j)
      <4>1. thread' = [thread EXCEPT ![t].pc = "apply",
                                     ![t].obs = Unobservable]
        BY <3>2, <1>9 DEF CheckProcess, j
      <4>2. QED
        BY <4>1, <2>2, ObservationTypes
    <3>3. QED
      BY <3>1, <3>2
  <2>4. thread' = [thread EXCEPT ![t] =
                     [thread[t] EXCEPT !.pc = "apply", !.obs = obs]]
    BY <2>3, <1>1, <1>2 DEF Thread
  <2>5. QED
    BY <2>1, <2>3, <2>4, <1>4, <1>9 DEF CheckProcess
<1>10. CASE ApplyRead(t)
  <2>1. thread[t].pc \in InFlight /\ j \in Jobs
    BY <1>1, <1>10 DEF ApplyRead, InFlight
  <2>2. CASE Raise(t)
    BY <2>2, <1>6, <1>10 DEF ApplyRead
  <2>3. CASE Goto(t, "commit")
    <3>1. thread' = [thread EXCEPT ![t] =
                       [thread[t] EXCEPT !.pc = "commit",
                                         !.obs = thread[t].obs]]
      BY <2>3, <1>1, <1>2 DEF Goto, Thread
    <3>2. QED
      BY <3>1, <2>1, <1>2, <1>4, <1>10 DEF ApplyRead
  <2>4. CASE /\ Exists(j)
             /\ thread' = [thread EXCEPT ![t] =
                             Applied(j, thread[t].obs, row[j].state)]
    BY <2>1, <2>4, <1>5, <1>10 DEF ApplyRead, Exists
  <2>5. QED
    BY <2>2, <2>3, <2>4, <1>10 DEF ApplyRead, j
<1>11. CASE ApplyCommit(t)
  <2>1. thread[t].pc \in InFlight /\ j \in Jobs
    BY <1>1, <1>11 DEF ApplyCommit, InFlight
  <2>2. CASE Raise(t)
    BY <2>2, <1>6, <1>11 DEF ApplyCommit
  <2>3. CASE Exists(j)
    <3>1. row'[j].state \in States
      BY <2>3, <2>1, <1>2, <1>11
      DEF IInv, TypeOK, StoreTypeOK, ApplyCommit, UpdateJob, UpdatedRow,
          Exists, Observation, j
    <3>2. QED
      BY <3>1, <2>1, <2>3, <1>5, <1>11 DEF ApplyCommit, j
  <2>4. QED
    BY <2>2, <2>3, <1>11 DEF ApplyCommit, j
<1>12. CASE RecordEvidence(t)
  <2>1. CASE Raise(t)
    BY <2>1, <1>6, <1>12 DEF RecordEvidence
  <2>2. CASE thread' = [thread EXCEPT ![t] = Settled(j, thread[t].seen)]
    <3>1. Settled(j, thread[t].seen).pc \notin InFlight \cup Launching
      BY PlaceFields DEF InFlight, Launching
    <3>2. QED
      BY <3>1, <2>2, <1>3, <1>12 DEF RecordEvidence
  <2>3. QED
    BY <2>1, <2>2, <1>1, <1>12 DEF RecordEvidence, j, Thread
<1>13. QED
  BY <1>7, <1>8, <1>9, <1>10, <1>11, <1>12 DEF ObserveStep

LEMMA NextControl ==
  ASSUME IInv, [Next]_vars
  PROVE  \/ CalmStep
         \/ CarryStep
         \/ \E j \in Jobs : LaunchMove(j) \/ StopSignal(j)
         \/ \E S \in SUBSET Jobs : Run(S)
         \/ WorkerStep
<1>1. TypeOK /\ thread \in [Threads -> Thread]
  BY DEF IInv, TypeOK
<1>2. \A pc \in {"idle", "next", "pop", "read"} : \A j :
        At(pc, j).pc \notin InFlight \cup Launching
  BY PlaceFields DEF InFlight, Launching
<1>3. ASSUME NEW t \in Threads, NEW pc \in {"idle", "next", "pop", "read"},
             NEW j, thread' = [thread EXCEPT ![t] = At(pc, j)],
             UNCHANGED runnerVars
      PROVE  CalmStep
  <2>1. At(pc, j).pc \notin InFlight \cup Launching
    BY <1>2
  <2>2. QED
    BY <2>1, <1>1, <1>3, SetCalm DEF CalmStep
<1>4. ASSUME NEW t \in Threads, Finish(t), UNCHANGED runnerVars
      PROVE  CalmStep
  BY <1>1, <1>4, FinishCalm DEF CalmStep
<1>5. ASSUME UNCHANGED <<thread, runnerVars>>
      PROVE  CalmStep
  BY <1>5 DEF CalmStep, KeepsThreads, runnerVars
<1>6. ASSUME NEW j \in Jobs, WatchStep(j)
      PROVE  CalmStep
  <2>1. Watcher(j) \in Threads
    BY ThreadNames
  <2>2. CASE WatchSettle(j)
    <3>1. PICK pc \in {"pop", "read"} :
            thread' = [thread EXCEPT ![Watcher(j)] = At(pc, j)]
      <4>1. CASE thread[Watcher(j)].seen \in TerminalStates
        BY <4>1, <2>2 DEF WatchSettle
      <4>2. CASE thread[Watcher(j)].seen \notin TerminalStates
        BY <4>2, <2>2 DEF WatchSettle
      <4>3. QED
        BY <4>1, <4>2
    <3>2. QED
      BY <2>1, <2>2, <3>1, <1>3 DEF WatchSettle
  <2>3. CASE WatchGiveUp(j)
    BY <2>1, <2>3, <1>1, GotoCalm
    DEF WatchGiveUp, CalmStep, InFlight, Launching
  <2>4. CASE WatchPop(j)
    BY <2>1, <2>4, <1>4 DEF WatchPop
  <2>5. QED
    BY <2>2, <2>3, <2>4, <1>6 DEF WatchStep
<1>7. ASSUME NEW t \in Threads, LoopSettle(t)
      PROVE  CalmStep
  <2> DEFINE next == [thread EXCEPT ![t] = At("next", NoJob)]
  <2>1. KeepsThreads(thread, next)
    BY <1>1, <1>2, SetCalm
  <2>2. next \in [Threads -> Thread]
    BY <1>1, AtType DEF Pcs
  <2>3. thread[t].job \in Jobs
    BY <1>7 DEF LoopSettle, IInv, TypeOK
  <2>4. KeepsThreads(thread, thread')
    BY <2>1, <2>2, <2>3, <1>7, WatchCalm DEF LoopSettle
  <2>5. QED
    BY <2>4, <1>7 DEF LoopSettle, CalmStep
<1>8. CASE StopStep
  <2>1. ASSUME NEW j \in Jobs, StopUnlaunched(j)
        PROVE  CalmStep
    BY <2>1, <1>5 DEF StopUnlaunched
  <2>2. CASE StopEnd
    BY <2>2, <1>4, ThreadNames DEF StopEnd
  <2>3. QED
    BY <2>1, <2>2, <1>8 DEF StopStep
<1>9. CASE RecoverStep
  <2>1. ASSUME NEW j \in Jobs, RecoverNext(j)
        PROVE  CalmStep
    BY <2>1, <1>3, ThreadNames DEF RecoverNext
  <2>2. CASE RecoverFail
    BY <2>2, <1>3, ThreadNames DEF RecoverFail
  <2>3. CASE RecoverEnd
    BY <2>3, <1>4, ThreadNames DEF RecoverEnd
  <2>4. QED
    BY <2>1, <2>2, <2>3, <1>9 DEF RecoverStep
<1>10. CASE CallStep
  <2>1. ASSUME NEW S \in SUBSET Jobs, StopBegin(S)
        PROVE  CalmStep
    BY <2>1, <1>3, ThreadNames DEF StopBegin
  <2>2. ASSUME NEW S \in SUBSET Jobs, Forget(S)
        PROVE  CalmStep
    BY <2>2, <1>5 DEF Forget
  <2>3. ASSUME NEW c \in Callers, NEW j \in Jobs, ShowFresh(c, j)
        PROVE  CalmStep
    BY <2>3, <1>3, ThreadNames DEF ShowFresh
  <2>4. QED
    BY <2>1, <2>2, <2>3, <1>10 DEF CallStep
<1>11. CASE FaultStep
  <2>1. ASSUME NEW t \in Threads, CallFails(t)
        PROVE  CalmStep
    BY <2>1, <1>1, RaiseCalm DEF CallFails, CalmStep
  <2>2. ASSUME NEW t \in Threads, LastCallFails(t)
        PROVE  CalmStep
    <3>1. CASE Finish(t)
      BY <3>1, <2>2, <1>4 DEF LastCallFails
    <3>2. CASE Goto(t, "pop")
      BY <3>2, <2>2, <1>1, GotoCalm
      DEF LastCallFails, CalmStep, InFlight, Launching
    <3>3. QED
      BY <3>1, <3>2, <2>2 DEF LastCallFails
  <2>3. QED
    BY <2>1, <2>2, <1>11 DEF FaultStep
<1>12. CASE Crash
  BY <1>12, PlaceFields DEF Crash, CalmStep, KeepsThreads, InFlight, Launching
<1>13. CASE Restart
  BY <1>3, <1>13, ThreadNames DEF Restart
<1>14. CASE ThreadStep
  <2>1. ASSUME NEW c \in Callers, ShowSettle(c)
        PROVE  CalmStep
    BY <2>1, <1>4, ThreadNames DEF ShowSettle
  <2>2. QED
    BY <2>1, <1>1, <1>6, <1>7, <1>8, <1>9, <1>14, LaunchControl,
       ObserveControl
    DEF ThreadStep
<1>15. CASE UNCHANGED vars
  BY <1>5, <1>15 DEF vars, brokerVars
<1>16. QED
  BY <1>10, <1>11, <1>12, <1>13, <1>14, <1>15 DEF Next

\* A calm step, or one that carries an observation, launches nothing.
LEMMA QuietLaunch ==
  ASSUME IInv, [Next]_vars, CalmStep \/ CarryStep, NEW j \in Jobs
  PROVE  LaunchInv(j)'
<1>1. LaunchInv(j) /\ Launcher(j) \in Threads /\ thread \in [Threads -> Thread]
  BY ThreadNames DEF IInv, TypeOK
<1>2. \/ thread'[Launcher(j)] = thread[Launcher(j)]
      \/ thread'[Launcher(j)].pc \notin Launching
  <2>1. CASE CalmStep
    BY <2>1, <1>1 DEF CalmStep, KeepsThreads
  <2>2. CASE CarryStep
    BY <2>2, <1>1 DEF CarryStep, InFlight, Launching
  <2>3. QED
    BY <2>1, <2>2
<1>3. UNCHANGED <<runner, stateFile, spawns>>
  BY DEF CalmStep, CarryStep, runnerVars
<1>4. row[j] # NoRow => row'[j] # NoRow
  BY RowsKept
<1>5. QED
  BY <1>1, <1>2, <1>3, <1>4 DEF LaunchInv, Launching

\* Only a launch writes a state file that names no worker, and only a worker
\* that took the file over records an outcome in it: at most one launch is
\* made, and an outcome in the file is final.
LEMMA LaunchesKept ==
  ASSUME IInv, [Next]_vars, NEW j \in Jobs
  PROVE  /\ LaunchInv(j)'
         /\ stateFile[j] \in ReportedOutcomes => stateFile'[j] = stateFile[j]
<1> USE DEF Launching, ReportedOutcomes
<1>1. LaunchInv(j) /\ Launcher(j) \in Threads
  BY ThreadNames DEF IInv
<1>2. /\ thread \in [Threads -> Thread]
      /\ runner \in [Jobs -> RunnerPhases]
      /\ stateFile \in [Jobs -> FileStates]
      /\ spawns \in [Jobs -> Nat]
  BY DEF IInv, TypeOK, RunnerTypeOK
<1>3. row[j] # NoRow => row'[j] # NoRow
  BY RowsKept
<1>4. CASE CalmStep \/ CarryStep
  BY <1>4, QuietLaunch DEF CalmStep, CarryStep, runnerVars
<1>5. ASSUME NEW i \in Jobs, LaunchMove(i)
      PROVE  /\ LaunchInv(j)'
             /\ stateFile[j] \in ReportedOutcomes =>
                  stateFile'[j] = stateFile[j]
  <2>1. Launcher(i) \in Threads /\ (i # j => Launcher(i) # Launcher(j))
    BY ThreadNames DEF Launcher
  <2>2. thread[Launcher(i)] \in Thread
    BY <2>1, <1>2
  <2>3. CASE LaunchStart(i)
    <3>1. \/ thread' = [thread EXCEPT ![Launcher(i)].pc = "fetch"]
          \/ thread' = [thread EXCEPT ![Launcher(i)] = Idle]
      BY <2>3 DEF LaunchStart, Goto, Finish
    <3>2. \/ thread'[Launcher(j)].pc \in {thread[Launcher(j)].pc, "idle"}
          \/ i = j /\ thread'[Launcher(j)].pc = "fetch"
      BY <3>1, <2>1, <2>2, <1>1, <1>2, PlaceFields DEF Thread
    <3>3. QED
      BY <3>2, <2>3, <1>1, <1>3 DEF LaunchStart, LaunchInv, runnerVars
  <2>4. CASE LaunchFetch(i)
    <3>1. CASE Goto(Launcher(i), "spawn")
      <4>1. \/ thread'[Launcher(j)].pc = thread[Launcher(j)].pc
            \/ i = j /\ thread'[Launcher(j)].pc = "spawn"
        BY <3>1, <2>1, <2>2, <1>1, <1>2 DEF Goto, Thread
      <4>2. QED
        BY <4>1, <2>4, <1>1, <1>3
        DEF LaunchFetch, LaunchInv, runnerVars
    <3>2. CASE Raise(Launcher(i))
      <4>1. CalmStep
        BY <3>2, <2>1, <2>4, <1>2, RaiseCalm DEF LaunchFetch, CalmStep
      <4>2. QED
        BY <4>1, <1>4
    <3>3. QED
      BY <3>1, <3>2, <2>4 DEF LaunchFetch
  <2>5. CASE LaunchSpawn(i)
    <3>1. \/ thread'[Launcher(j)].pc = thread[Launcher(j)].pc /\ i # j
          \/ i = j /\ thread'[Launcher(j)].pc = "identify"
      BY <2>1, <2>2, <2>5, <1>1, <1>2 DEF LaunchSpawn, Goto, Thread
    <3>2. /\ stateFile' = stateFile
          /\ i # j => runner'[j] = runner[j] /\ spawns'[j] = spawns[j]
          /\ i = j => runner'[j] = "booting" /\ spawns'[j] = spawns[j] + 1
      BY <2>5, <1>2 DEF LaunchSpawn, Spawn
    <3>3. i = j => thread[Launcher(j)].pc = "spawn"
      BY <2>5 DEF LaunchSpawn
    <3>4. QED
      BY <3>1, <3>2, <3>3, <1>1, <1>3 DEF LaunchInv
  <2>6. CASE LaunchWriteState(i)
    <3>1. \/ thread'[Launcher(j)].pc = thread[Launcher(j)].pc /\ i # j
          \/ i = j /\ thread'[Launcher(j)].pc = "apply"
      BY <2>1, <2>2, <2>6, <1>1, <1>2 DEF LaunchWriteState, Thread
    <3>2. /\ runner' = runner /\ spawns' = spawns
          /\ i # j => stateFile'[j] = stateFile[j]
      BY <2>6, <1>2 DEF LaunchWriteState, WriteStartingFile
    <3>3. i = j => /\ thread[Launcher(j)].pc = "identify"
                   /\ stateFile'[j] = "starting"
      BY <2>6, <1>2 DEF LaunchWriteState, WriteStartingFile
    <3>4. QED
      BY <3>1, <3>2, <3>3, <1>1, <1>3 DEF LaunchInv
  <2>7. QED
    BY <2>3, <2>4, <2>5, <2>6, <1>5 DEF LaunchMove
<1>6. ASSUME NEW i \in Jobs, StopSignal(i)
      PROVE  /\ LaunchInv(j)'
             /\ stateFile[j] \in ReportedOutcomes =>
                  stateFile'[j] = stateFile[j]
  <2>1. thread'[Launcher(j)] = thread[Launcher(j)]
    BY <1>6 DEF StopSignal, Launcher, Stopper
  <2>2. /\ stateFile' = stateFile /\ spawns' = spawns
        /\ \/ runner'[j] = runner[j]
           \/ runner[j] # "absent" /\ runner'[j] = "dead"
    BY <1>2, <1>6 DEF StopSignal, Terminate, ProcessMatches, runnerVars
  <2>3. QED
    BY <2>1, <2>2, <1>1, <1>3 DEF LaunchInv
<1>7. ASSUME NEW S \in SUBSET Jobs, Run(S)
      PROVE  /\ LaunchInv(j)'
             /\ stateFile[j] \in ReportedOutcomes =>
                  stateFile'[j] = stateFile[j]
  <2>1. UNCHANGED <<runner, stateFile, spawns>>
    BY <1>7 DEF Run, runnerVars
  <2>2. CASE j \in S
    <3>1. row[j] = NoRow /\ row'[j] # NoRow
      BY <2>2, <1>7 DEF Run, CreateLaunch, QueuedRow, NoRow
    <3>2. thread'[Launcher(j)].pc = "start"
      BY <2>2, <1>1, <1>7, PlaceFields DEF Run
    <3>3. QED
      BY <3>1, <3>2, <2>1, <1>1 DEF LaunchInv
  <2>3. CASE j \notin S
    <3>1. thread'[Launcher(j)] = thread[Launcher(j)]
      BY <2>3, <1>1, <1>7 DEF Run, Launcher
    <3>2. QED
      BY <3>1, <2>1, <1>1, <1>3 DEF LaunchInv
  <2>4. QED
    BY <2>2, <2>3
<1>8. CASE WorkerStep
  <2>1. UNCHANGED <<row, thread>>
    BY <1>8 DEF WorkerStep, storeVars, brokerVars
  <2>2. PICK i \in Jobs : RunnerStep(i)
    BY <1>8 DEF WorkerStep
  <2>3. CASE Handshake(i)
    BY <2>1, <2>3, <1>1, <1>2 DEF Handshake, LaunchInv
  <2>4. CASE InstallHandler(i)
    BY <2>1, <2>4, <1>1, <1>2 DEF InstallHandler, LaunchInv
  <2>5. CASE ChildExits(i)
    BY <2>1, <2>5, <1>1, <1>2 DEF ChildExits, LaunchInv
  <2>6. CASE RecordOutcome(i)
    <3>1. /\ runner[i] = "recording"
          /\ runner' = [runner EXCEPT ![i] = "exiting"]
          /\ spawns' = spawns
          /\ i # j => stateFile'[j] = stateFile[j]
      BY <2>6, <1>2 DEF RecordOutcome
    <3>2. QED
      BY <3>1, <2>1, <1>1, <1>2 DEF LaunchInv
  <2>7. CASE HandshakeTimeout(i) \/ ExitRunner(i) \/ KillRunner(i)
    BY <2>1, <2>7, <1>1, <1>2
    DEF HandshakeTimeout, ExitRunner, KillRunner, LaunchInv
  <2>8. QED
    BY <2>2, <2>3, <2>4, <2>5, <2>6, <2>7 DEF RunnerStep, RunnerProgress
<1>9. QED
  BY <1>4, <1>5, <1>6, <1>7, <1>8, NextControl

\* No step lets a thread carry an observation the state file contradicts.
LEMMA ThreadsHonest ==
  ASSUME IInv, [Next]_vars
  PROVE  HonestThreads(thread', stateFile)
<1>1. thread \in [Threads -> Thread] /\ HonestThreads(thread, stateFile)
  BY DEF IInv, TypeOK
<1>2. CASE CalmStep
  BY <1>1, <1>2, KeptHonest DEF CalmStep
<1>3. CASE CarryStep
  BY <1>1, <1>3 DEF CarryStep, HonestThreads
<1>4. ASSUME NEW j \in Jobs, LaunchMove(j)
      PROVE  HonestThreads(thread', stateFile)
  <2>1. Launcher(j) \in Threads /\ thread[Launcher(j)] \in Thread
    BY <1>1, ThreadNames
  <2>2. CASE LaunchWriteState(j)
    <3>1. /\ thread'[Launcher(j)].obs = Launched
          /\ \A t \in Threads : t # Launcher(j) => thread'[t] = thread[t]
      BY <2>1, <2>2, <1>1 DEF LaunchWriteState, Thread
    <3>2. \A file : Honest(Launched, file)
      BY DEF Honest, Launched
    <3>3. QED
      BY <3>1, <3>2, <1>1 DEF HonestThreads
  <2>3. CASE Raise(Launcher(j))
    BY <2>1, <2>3, <1>1, RaiseCalm, KeptHonest
  <2>4. CASE \/ Finish(Launcher(j))
             \/ \E pc \in Launching : Goto(Launcher(j), pc)
    <3>1. /\ thread'[Launcher(j)].pc \notin InFlight
          /\ \A t \in Threads : t # Launcher(j) => thread'[t] = thread[t]
      BY <2>1, <2>4, <1>1, PlaceFields
      DEF Finish, Goto, Thread, InFlight, Launching
    <3>2. QED
      BY <3>1, <1>1 DEF HonestThreads
  <2>5. QED
    BY <2>2, <2>3, <2>4, <1>4
    DEF LaunchMove, LaunchStart, LaunchFetch, LaunchSpawn, Launching
<1>5. ASSUME NEW j \in Jobs, StopSignal(j)
      PROVE  HonestThreads(thread', stateFile)
  <2>1. PICK obs \in {SignalSent, Unsignalled} :
          thread' = [thread EXCEPT ![Stopper] =
                       [At("apply", j) EXCEPT !.obs = obs]]
    BY <1>5 DEF StopSignal
  <2>2. [At("apply", j) EXCEPT !.obs = obs].obs = obs
    BY DEF At, Idle
  <2>3. \A file : Honest(obs, file)
    BY DEF Honest, SignalSent, Unsignalled
  <2>4. QED
    BY <2>1, <2>2, <2>3, <1>1, ThreadNames DEF HonestThreads
<1>6. ASSUME NEW S \in SUBSET Jobs, Run(S)
      PROVE  HonestThreads(thread', stateFile)
  <2>1. \A t \in Threads : thread'[t] = thread[t] \/ thread'[t].pc = "start"
    BY <1>6, PlaceFields DEF Run
  <2>2. QED
    BY <2>1, <1>1 DEF HonestThreads, InFlight
<1>7. CASE WorkerStep
  BY <1>1, <1>7 DEF WorkerStep, brokerVars
<1>8. QED
  BY <1>2, <1>3, <1>4, <1>5, <1>6, <1>7, NextControl

\* What was true of the old file is true of the new one.
LEMMA HonestLater ==
  ASSUME NEW entry, NEW old, NEW new, Honest(entry, old),
         old \in ReportedOutcomes => new = old
  PROVE  Honest(entry, new)
BY DEF Honest, ReportedOutcomes

LEMMA InvInit == Init => IInv
<1> SUFFICES ASSUME Init
             PROVE  IInv
  OBVIOUS
<1>1. TypeOK
  BY InitType
<1>2. \A j \in Jobs : /\ row[j] = NoRow
                      /\ runner[j] = "absent"
                      /\ stateFile[j] = "missing"
                      /\ spawns[j] = 0
  BY DEF Init, StoreInit, RunnerInit
<1>3. \A t \in Threads : thread[t].pc = "idle"
  BY PlaceFields DEF Init
<1>4. ASSUME NEW j \in Jobs
      PROVE  LaunchInv(j)
  <2>1. thread[Launcher(j)].pc = "idle"
    BY <1>3, ThreadNames
  <2>2. spawns[j] <= 1
    BY <1>2
  <2>3. QED
    BY <2>1, <2>2, <1>2 DEF LaunchInv, Launching
<1>5. ASSUME NEW j \in Jobs
      PROVE  Honest(row[j], stateFile[j])
  <2>1. row[j].state = "none"
    BY <1>2 DEF NoRow
  <2>2. QED
    BY <2>1 DEF Honest
<1>6. HonestThreads(thread, stateFile)
  BY <1>3 DEF HonestThreads, InFlight
<1>7. QED
  BY <1>1, <1>4, <1>5, <1>6 DEF IInv

LEMMA InvNext == IInv /\ [Next]_vars => IInv'
<1> SUFFICES ASSUME IInv, [Next]_vars
             PROVE  IInv'
  OBVIOUS
<1>1. TypeOK'
  BY NextType DEF IInv
<1>2. \A j \in Jobs : /\ LaunchInv(j)'
                      /\ stateFile[j] \in ReportedOutcomes =>
                           stateFile'[j] = stateFile[j]
  BY LaunchesKept
<1>3. \A j \in Jobs : Honest(row'[j], stateFile'[j])
  BY <1>2, RowsKept, HonestLater
<1>4. HonestThreads(thread', stateFile')
  <2>1. \A t \in Threads : thread'[t].pc \in InFlight => thread'[t].job \in Jobs
    BY <1>1 DEF TypeOK, InFlight
  <2>2. QED
    BY <2>1, <1>2, ThreadsHonest, HonestLater DEF HonestThreads
<1>5. QED
  BY <1>1, <1>2, <1>3, <1>4 DEF IInv

LEMMA Invariance == Spec => []IInv
<1>1. QED
  BY InvInit, InvNext, PTL DEF Spec

\* At most one worker process is ever started for a job, over all the crashes
\* and restarts of the daemon: recovery reconciles, it never launches.
THEOREM LaunchedOnce == Spec => []NoDuplicateLaunch
<1>1. IInv => NoDuplicateLaunch
  BY DEF IInv, LaunchInv, NoDuplicateLaunch
<1>2. QED
  BY <1>1, Invariance, PTL

\* The recorded outcome is honest: however stale the observation that wrote
\* it, a success, a worker's failure or a worker's interruption stands in the
\* record only if it stands in the worker's state file.
THEOREM OutcomesHonest == Spec => []HonestOutcome
<1>1. IInv => HonestOutcome
  BY DEF IInv, Honest, HonestOutcome
<1>2. QED
  BY <1>1, Invariance, PTL

-----------------------------------------------------------------------------
(* The event ledger. *)

\* A step leaves a job's record and its events as they are, makes or removes
\* both, or appends to the events the state it puts in the record.
LEMMA RecordStep ==
  ASSUME IInv, [Next]_vars, NEW j \in Jobs
  PROVE  \/ row'[j] = row[j] /\ events'[j] = events[j]
         \/ row'[j] = QueuedRow /\ events'[j] = <<"queued">>
         \/ row'[j] = ForgottenRow /\ events'[j] = <<>>
         \/ \E s \in States :
              /\ Exists(j)
              /\ ~Dropped(j, s)
              /\ row'[j].state = s
              /\ events'[j] = Append(events[j], s)
<1>1. row \in [Jobs -> Row] /\ events \in [Jobs -> Seq(States)]
  BY DEF IInv, TypeOK, StoreTypeOK
<1>2. CASE UNCHANGED <<row, events>>
  BY <1>2
<1>3. ASSUME NEW S \in SUBSET Jobs, CreateLaunch(S) \/ ForgetJobs(S)
      PROVE  \/ row'[j] = row[j] /\ events'[j] = events[j]
             \/ row'[j] = QueuedRow /\ events'[j] = <<"queued">>
             \/ row'[j] = ForgottenRow /\ events'[j] = <<>>
  BY <1>3 DEF CreateLaunch, ForgetJobs
<1>4. ASSUME NEW i \in Jobs, NEW entry \in Observation, Update(i, entry)
      PROVE  \/ row'[j] = row[j] /\ events'[j] = events[j]
             \/ \E s \in States :
                  /\ Exists(j)
                  /\ ~Dropped(j, s)
                  /\ row'[j].state = s
                  /\ events'[j] = Append(events[j], s)
  <2>1. CASE i # j \/ Dropped(i, entry.state)
    BY <2>1, <1>1, <1>4 DEF Update, UpdateJob
  <2>2. CASE i = j /\ ~Dropped(i, entry.state)
    <3>1. /\ Exists(j)
          /\ row'[j].state = entry.state
          /\ events'[j] = Append(events[j], entry.state)
      BY <2>2, <1>1, <1>4 DEF Update, UpdateJob, UpdatedRow
    <3>2. QED
      BY <3>1, <2>2 DEF Observation
  <2>3. QED
    BY <2>1, <2>2
<1>5. QED
  BY <1>2, <1>3, <1>4, NextStore DEF StoreStep

Ledger(j) ==
  LET n == Len(events[j]) IN
  /\ Exists(j) <=> n > 0
  /\ n > 0 => events[j][n] = row[j].state
  /\ \A i \in 1 .. n : events[j][i] \in TerminalStates =>
                         events[j][i] = row[j].state

LEMMA LedgerStep ==
  ASSUME IInv, [Next]_vars, NEW j \in Jobs, Ledger(j)
  PROVE  Ledger(j)'
<1>1. events[j] \in Seq(States) /\ events'[j] \in Seq(States)
  BY NextType DEF IInv, TypeOK, StoreTypeOK
<1>2. CASE row'[j] = row[j] /\ events'[j] = events[j]
  BY <1>2 DEF Ledger, Exists
<1>3. CASE row'[j] = QueuedRow /\ events'[j] = <<"queued">>
  BY <1>3 DEF Ledger, Exists, QueuedRow, States, TerminalStates
<1>4. CASE row'[j] = ForgottenRow /\ events'[j] = <<>>
  BY <1>4 DEF Ledger, Exists, ForgottenRow, States, TerminalStates
<1>5. ASSUME NEW s \in States, Exists(j), ~Dropped(j, s), row'[j].state = s,
             events'[j] = Append(events[j], s)
      PROVE  Ledger(j)'
  <2> DEFINE n == Len(events[j])
  <2>1. /\ n \in Nat
        /\ Len(events'[j]) = n + 1
        /\ events'[j][n + 1] = s
        /\ \A i \in 1 .. n : events'[j][i] = events[j][i]
    BY <1>1, <1>5
  <2>2. Exists(j)'
    BY <1>5 DEF Exists
  <2>3. \A i \in 1 .. n : events[j][i] \in TerminalStates => events[j][i] = s
    BY <1>5 DEF Ledger, Dropped, IsTerminal
  <2>4. \A i \in 1 .. n + 1 : events'[j][i] \in TerminalStates =>
                                events'[j][i] = s
    BY <2>1, <2>3
  <2>5. QED
    BY <2>1, <2>2, <2>4, <1>5 DEF Ledger
<1>6. QED
  BY <1>2, <1>3, <1>4, <1>5, RecordStep

\* The ledger agrees with the records: the newest event of a job carries the
\* record's state, and after an event with a terminal state no event with
\* another state is ever appended.
THEOREM LedgerFaithful == Spec => []LedgerAgrees
<1>1. LedgerAgrees <=> \A j \in Jobs : Ledger(j)
  BY DEF LedgerAgrees, Ledger
<1>2. Init => LedgerAgrees
  <2> SUFFICES ASSUME Init, NEW j \in Jobs
               PROVE  Ledger(j)
    BY <1>1
  <2>1. row[j].state = "none" /\ events[j] = <<>>
    BY DEF Init, StoreInit, NoRow
  <2>2. ~Exists(j)
    BY <2>1 DEF Exists, States, TerminalStates
  <2>3. QED
    BY <2>1, <2>2 DEF Ledger
<1>3. IInv /\ LedgerAgrees /\ [Next]_vars => LedgerAgrees'
  <2> SUFFICES ASSUME IInv, LedgerAgrees, [Next]_vars
               PROVE  LedgerAgrees'
    OBVIOUS
  <2>1. \A j \in Jobs : Ledger(j)'
    BY <1>1, LedgerStep
  <2>2. QED
    BY <2>1 DEF LedgerAgrees, Ledger
<1>4. QED
  BY <1>2, <1>3, Invariance, PTL DEF Spec

=============================================================================
