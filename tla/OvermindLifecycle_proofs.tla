---------------------- MODULE OvermindLifecycle_proofs ----------------------
(***************************************************************************)
(* Who looks after a job from its launch to its end, and that its record   *)
(* goes through the states JobLifecycle allows.  Theorems of               *)
(* OvermindBroker that rest on the invariant of OvermindBroker_proofs and  *)
(* on a second one, about what the threads know of the records.            *)
(***************************************************************************)
EXTENDS OvermindBroker_proofs

-----------------------------------------------------------------------------
(* The inductive invariant.                                                *)
(*                                                                         *)
(* A record only leaves "queued" for "starting" through its own launch     *)
(* thread, because until then nothing can be observed of the job but that  *)
(* it is unobservable.  What a thread has in hand never contradicts that,  *)
(* and a thread that has seen a job end is right about it for good.        *)

Ended == TerminalStates \cup {"forgotten"}
Active == {"starting", "running"}

Started(j) == \E i \in 1 .. Len(events[j]) : events[j][i] = "starting"

JobInv(j) ==
  LET pc == thread[Launcher(j)].pc IN
  /\ row[j].state = "none" =>
       row[j] = NoRow /\ stopping[j] = NoRow /\ j \notin pending
  /\ row[j].state \in {"none", "queued"} =>
       /\ pc \in {"idle", "start"}
       /\ stateFile[j] = "missing"
       /\ row[j].cols = {}
       /\ stopping[j].cols = {}
  /\ pc = "start" => row[j].state \notin Active
  /\ pc # "idle" => thread[Launcher(j)].job = j
  /\ thread[Watcher(j)].pc # "idle" => thread[Watcher(j)].job = j
  /\ Exists(j) /\ (spawns[j] > 0 \/ pc \in {"fetch", "spawn", "identify"}) =>
       Started(j)

ThreadInv(t) ==
  LET me == thread[t] IN
  /\ me.pc \in InFlight =>
       /\ me.obs.state # "queued"
       /\ row[me.job].state = "queued" => me.obs.state = "unknown"
       /\ me.obs.state = "succeeded" => "result" \in me.obs.cols
  /\ me.pc \notin {"idle", "next"} => row[me.job].state # "none"
  /\ me.seen \in TerminalStates => (me.job \in Jobs) /\ row[me.job].state \in Ended

KInv ==
  /\ IInv
  /\ \A j \in Jobs : JobInv(j)
  /\ \A t \in Threads : ThreadInv(t)

-----------------------------------------------------------------------------
(* What a step does to a record.                                           *)

\* The step is an update of job j to state s, made where the code makes one.
Writes(j, s) ==
  \/ s = "starting" /\ LaunchStart(j) /\ row[j].state = "queued"
  \/ s = "failed" /\ LaunchFailWrite(j)
  \/ s = "unknown" /\ WatchGiveUp(j)
  \/ s = "unknown" /\ RecoverFail /\ thread[Recovery].job = j
  \/ s = "interrupted" /\ StopUnlaunched(j)
  \/ \E t \in Threads : /\ ApplyCommit(t)
                        /\ thread[t].job = j
                        /\ s = thread[t].obs.state

Updates(j) ==
  \E s \in States, cols \in SUBSET Columns, error \in Errors :
    /\ Writes(j, s)
    /\ UpdateJob(j, s, cols, error)

Writing ==
  \/ UNCHANGED <<row, events>>
  \/ \E S \in SUBSET Jobs : Run(S) \/ Forget(S)
  \/ \E j \in Jobs : Updates(j)

LEMMA NextWrites ==
  ASSUME TypeOK, [Next]_vars
  PROVE  Writing
<1> USE DEF States, TerminalStates, Errors
<1>0. {} \in SUBSET Columns
  OBVIOUS
<1>1. ASSUME NEW j \in Jobs, LaunchStep(j)
      PROVE  Writing
  <2>1. CASE LaunchStart(j) /\ row[j].state = "queued"
    BY <1>0, <2>1 DEF LaunchStart, Writing, Updates, Writes
  <2>2. CASE LaunchFailWrite(j) /\ Exists(j)
    BY <1>0, <2>2 DEF LaunchFailWrite, Writing, Updates, Writes
  <2>3. CASE UNCHANGED storeVars
    BY <2>3 DEF Writing, storeVars
  <2>4. QED
    BY <2>1, <2>2, <2>3, <1>1
    DEF LaunchStep, LaunchStart, LaunchFetch, LaunchSpawn, LaunchSpawnFails,
        LaunchWriteState, LaunchSettle, LaunchFailRead, LaunchFailWrite
<1>2. ASSUME NEW t \in Threads, ObserveStep(t)
      PROVE  Writing
  <2>1. CASE ApplyCommit(t) /\ Exists(thread[t].job)
    <3>1. thread[t].job \in Jobs /\ thread[t].obs \in Observation
      BY <2>1 DEF TypeOK, Thread, ApplyCommit
    <3>2. /\ thread[t].obs.state \in States
          /\ thread[t].obs.cols \in SUBSET Columns
          /\ thread[t].obs.error \in Errors
      BY <3>1 DEF Observation
    <3>3. UpdateJob(thread[t].job, thread[t].obs.state, thread[t].obs.cols,
                    thread[t].obs.error)
      BY <2>1 DEF ApplyCommit
    <3>4. Writes(thread[t].job, thread[t].obs.state)
      BY <2>1 DEF Writes
    <3>5. QED
      BY <3>1, <3>2, <3>3, <3>4 DEF Writing, Updates
  <2>2. CASE RecordEvidence(t)
    BY <2>2 DEF RecordEvidence, Writing, AddUsage, storeVars
  <2>3. CASE UNCHANGED storeVars
    BY <2>3 DEF Writing, storeVars
  <2>4. QED
    BY <2>1, <2>2, <2>3, <1>2
    DEF ObserveStep, ReadJob, ReadFile, CheckProcess, ApplyRead, ApplyCommit
<1>3. ASSUME NEW j \in Jobs, WatchStep(j)
      PROVE  Writing
  <2>1. CASE WatchGiveUp(j) /\ Exists(j)
    BY <1>0, <2>1 DEF WatchGiveUp, Writing, Updates, Writes
  <2>2. CASE UNCHANGED storeVars
    BY <2>2 DEF Writing, storeVars
  <2>3. QED
    BY <2>1, <2>2, <1>3 DEF WatchStep, WatchSettle, WatchGiveUp, WatchPop
<1>4. CASE StopStep
  <2>1. ASSUME NEW j \in Jobs, StopUnlaunched(j)
        PROVE  Writing
    BY <1>0, <2>1 DEF StopUnlaunched, Writing, Updates, Writes
  <2>2. CASE UNCHANGED storeVars
    BY <2>2 DEF Writing, storeVars
  <2>3. QED
    BY <2>1, <2>2, <1>4 DEF StopStep, StopSignal, StopEnd
<1>5. CASE RecoverStep
  <2>1. CASE RecoverFail
    <3>1. thread[Recovery].job \in Jobs
      BY <2>1, ThreadNames DEF RecoverFail, TypeOK
    <3>2. Writes(thread[Recovery].job, "unknown")
      BY <2>1 DEF Writes
    <3>3. UpdateJob(thread[Recovery].job, "unknown", {}, "recovery")
      BY <2>1 DEF RecoverFail
    <3>4. QED
      BY <1>0, <3>1, <3>2, <3>3 DEF Writing, Updates
  <2>2. CASE UNCHANGED storeVars
    BY <2>2 DEF Writing, storeVars
  <2>3. QED
    BY <2>1, <2>2, <1>5 DEF RecoverStep, RecoverNext, RecoverEnd
<1>6. CASE ThreadStep
  <2>1. ASSUME NEW t \in Threads, LoopSettle(t)
        PROVE  Writing
    BY <2>1 DEF LoopSettle, Writing, storeVars
  <2>2. ASSUME NEW c \in Callers, ShowSettle(c)
        PROVE  Writing
    BY <2>2 DEF ShowSettle, Writing, storeVars
  <2>3. QED
    BY <2>1, <2>2, <1>1, <1>2, <1>3, <1>4, <1>5, <1>6 DEF ThreadStep
<1>7. CASE CallStep
  BY <1>7 DEF CallStep, StopBegin, ShowFresh, Writing, storeVars
<1>8. CASE WorkerStep \/ FaultStep \/ Crash \/ Restart \/ UNCHANGED vars
  BY <1>8
  DEF WorkerStep, FaultStep, CallFails, LastCallFails, Crash, Restart, vars,
      Writing, storeVars
<1>9. QED
  BY <1>6, <1>7, <1>8 DEF Next

\* What the lifecycle lets happen to the record of one job, and who does it.
LifeStep(j) ==
  \/ row'[j] = row[j] /\ events'[j] = events[j]
  \/ /\ row[j] = NoRow
     /\ row'[j] = QueuedRow
     /\ events'[j] = <<"queued">>
     /\ \E S \in SUBSET Jobs : j \in S /\ Run(S)
  \/ /\ row[j].state = "queued"
     /\ row'[j].state = "starting"
     /\ events'[j] = Append(events[j], "starting")
     /\ LaunchStart(j)
  \/ /\ row[j].state = "queued"
     /\ row'[j].state \in {"interrupted", "unknown"}
     /\ events'[j] = Append(events[j], row'[j].state)
  \/ /\ row[j].state \in Active
     /\ row'[j].state \in Active \cup TerminalStates
     /\ events'[j] = Append(events[j], row'[j].state)
  \/ /\ row[j].state \in TerminalStates
     /\ row'[j].state = row[j].state
     /\ events'[j] = Append(events[j], row'[j].state)
  \/ /\ row[j].state \in TerminalStates
     /\ row'[j] = ForgottenRow
     /\ events'[j] = <<>>

LEMMA JobLives ==
  ASSUME KInv, [Next]_vars, NEW j \in Jobs
  PROVE  LifeStep(j)
<1>1. /\ TypeOK
      /\ row \in [Jobs -> Row]
      /\ events \in [Jobs -> Seq(States)]
  BY DEF KInv, IInv, TypeOK, StoreTypeOK
<1>2. CASE UNCHANGED <<row, events>>
  BY <1>2 DEF LifeStep
<1>3. ASSUME NEW S \in SUBSET Jobs, Run(S)
      PROVE  LifeStep(j)
  BY <1>3 DEF Run, CreateLaunch, LifeStep
<1>4. ASSUME NEW S \in SUBSET Jobs, Forget(S)
      PROVE  LifeStep(j)
  BY <1>4 DEF Forget, ForgetJobs, LifeStep, IsTerminal
<1>5. ASSUME NEW i \in Jobs, NEW s \in States, NEW cols \in SUBSET Columns,
             NEW error \in Errors, Writes(i, s), UpdateJob(i, s, cols, error)
      PROVE  LifeStep(j)
  <2>1. CASE i # j \/ Dropped(i, s)
    BY <2>1, <1>1, <1>5 DEF UpdateJob, LifeStep
  <2>2. CASE i = j /\ ~Dropped(i, s)
    <3>1. /\ Exists(j)
          /\ row'[j].state = s
          /\ events'[j] = Append(events[j], s)
      BY <2>2, <1>1, <1>5 DEF UpdateJob, UpdatedRow
    <3>2. JobInv(j)
      BY DEF KInv
    <3>3. s # "queued"
      <4>1. ASSUME NEW t \in Threads, ApplyCommit(t)
            PROVE  thread[t].obs.state # "queued"
        BY <4>1 DEF KInv, ThreadInv, ApplyCommit, InFlight
      <4>2. QED
        BY <4>1, <1>5 DEF Writes
    <3>4. CASE row[j].state = "queued"
      <4>1. ASSUME NEW t \in Threads, ApplyCommit(t), thread[t].job = j
            PROVE  thread[t].obs.state = "unknown"
        BY <3>4, <4>1 DEF KInv, ThreadInv, ApplyCommit, InFlight
      <4>2. ~LaunchFailWrite(j)
        BY <3>2, <3>4 DEF JobInv, LaunchFailWrite
      <4>3. \/ s = "starting" /\ LaunchStart(j)
            \/ s \in {"interrupted", "unknown"}
        BY <4>1, <4>2, <2>2, <1>5 DEF Writes
      <4>4. QED
        BY <3>1, <3>4, <4>3 DEF LifeStep
    <3>5. CASE row[j].state \in Active
      BY <3>1, <3>3, <3>5 DEF LifeStep, States, Active
    <3>6. CASE row[j].state \in TerminalStates
      <4>1. row'[j].state = row[j].state
        BY <3>1, <3>6, <2>2 DEF Dropped, IsTerminal
      <4>2. QED
        BY <3>1, <3>6, <4>1 DEF LifeStep
    <3>7. QED
      BY <3>1, <3>4, <3>5, <3>6 DEF Exists, States, Active
  <2>3. QED
    BY <2>1, <2>2
<1>6. QED
  BY <1>1, <1>2, <1>3, <1>4, <1>5, NextWrites DEF Writing, Updates

\* A record is made once, ends once, and never goes back to "queued".
LEMMA RowsForward ==
  ASSUME NEW j \in Jobs, LifeStep(j)
  PROVE  /\ row[j].state # "none" => row'[j].state # "none"
         /\ row[j].state \in Ended => row'[j].state \in Ended
         /\ row'[j].state = "none" => row'[j] = row[j]
         /\ row'[j].state = "queued" => \/ row'[j] = row[j]
                                        \/ row[j] = NoRow /\ row'[j] = QueuedRow
BY DEF LifeStep, Ended, Active, TerminalStates, NoRow, QueuedRow, ForgottenRow

-----------------------------------------------------------------------------
(* Who moves a thread: itself, the daemon's crash, a launch that starts it *)
(* or a thread that sets it to watch a job.                                *)

OwnStep(t) ==
  \/ \E j \in Jobs : t = Launcher(j) /\ LaunchStep(j)
  \/ \E j \in Jobs : t = Watcher(j) /\ WatchStep(j)
  \/ ObserveStep(t)
  \/ LoopSettle(t)
  \/ \E c \in Callers : /\ t = Show(c)
                        /\ ShowSettle(c) \/ \E j \in Jobs : ShowFresh(c, j)
  \/ t = Stopper /\ (StopStep \/ \E S \in SUBSET Jobs : StopBegin(S))
  \/ t = Recovery /\ (RecoverStep \/ Restart)
  \/ CallFails(t)
  \/ LastCallFails(t)

Woken(t) ==
  \E j \in Jobs : /\ t = Watcher(j)
                  /\ thread[t].pc = "idle"
                  /\ thread'[t] = At("read", j)
                  /\ row[j].state # "none"

Sent(t) == \E S \in SUBSET Jobs : Run(S) /\ \E j \in S : t = Launcher(j)

Moves(t) == \/ thread'[t] = thread[t]
            \/ OwnStep(t)
            \/ Woken(t)
            \/ Sent(t)
            \/ Crash

LEMMA RaiseOne ==
  ASSUME thread \in [Threads -> Thread], NEW t \in Threads, NEW u, Raise(u),
         t # u
  PROVE  thread'[t] = thread[t]
BY DEF Raise, Finish, Goto

LEMMA WatchOne ==
  ASSUME NEW old \in [Threads -> Thread], NEW t \in Threads, NEW u,
         NEW value, NEW j \in Jobs, NEW state, t # u,
         row[j].state # "none", old = thread,
         thread' = WatchUnlessEnded([old EXCEPT ![u] = value], j, state)
  PROVE  thread'[t] = thread[t] \/ Woken(t)
<1>1. CASE thread' = [old EXCEPT ![u] = value]
  BY <1>1
<1>2. CASE /\ [old EXCEPT ![u] = value][Watcher(j)].pc = "idle"
           /\ thread' = [[old EXCEPT ![u] = value]
                           EXCEPT ![Watcher(j)] = At("read", j)]
  <2>1. CASE t = Watcher(j)
    BY <1>2, <2>1 DEF Woken
  <2>2. CASE t # Watcher(j)
    BY <1>2, <2>2
  <2>3. QED
    BY <2>1, <2>2
<1>3. QED
  BY <1>1, <1>2 DEF WatchUnlessEnded, WithWatcher

LEMMA Movers ==
  ASSUME KInv, [Next]_vars, NEW t \in Threads
  PROVE  Moves(t)
<1>1. /\ thread \in [Threads -> Thread]
      /\ \A u \in Threads : ThreadInv(u)
  BY DEF KInv, IInv, TypeOK
<1>2. ASSUME NEW j \in Jobs, LaunchStep(j), t # Launcher(j)
      PROVE  Moves(t)
  <2>1. CASE Raise(Launcher(j)) \/ Finish(Launcher(j))
               \/ \E pc \in Pcs : Goto(Launcher(j), pc)
    BY <2>1, <1>1, <1>2, RaiseOne DEF Finish, Goto, Moves
  <2>2. CASE LaunchWriteState(j)
    BY <2>2, <1>1, <1>2 DEF LaunchWriteState, Moves
  <2>3. CASE LaunchSettle(j) /\ Exists(j)
    <3>1. row[j].state # "none"
      BY <2>3 DEF Exists, States, TerminalStates
    <3>2. QED
      BY <3>1, <2>3, <1>1, <1>2, WatchOne DEF LaunchSettle, Moves
  <2>4. QED
    BY <2>1, <2>2, <2>3, <1>2
    DEF LaunchStep, LaunchStart, LaunchFetch, LaunchSpawn, LaunchSpawnFails,
        LaunchSettle, LaunchFailRead, LaunchFailWrite, Pcs
<1>3. ASSUME NEW u \in Threads, ObserveStep(u), t # u
      PROVE  Moves(t)
  <2>1. CASE Raise(u) \/ \E pc \in Pcs : Goto(u, pc)
    BY <2>1, <1>1, <1>3, RaiseOne DEF Goto, Moves
  <2>2. CASE \E value : thread' = [thread EXCEPT ![u] = value]
    BY <2>2, <1>1, <1>3 DEF Moves
  <2>3. CASE ReadFile(u) \/ CheckProcess(u)
    BY <2>3, <1>1, <1>3 DEF ReadFile, CheckProcess, Moves
  <2>4. CASE RecordEvidence(u)
    BY <2>1, <2>4, <1>1, <1>3 DEF RecordEvidence, Moves
  <2>5. QED
    BY <2>1, <2>2, <2>3, <2>4, <1>3
    DEF ObserveStep, ReadJob, ApplyRead, ApplyCommit, Pcs
<1>4. ASSUME NEW j \in Jobs, WatchStep(j), t # Watcher(j)
      PROVE  Moves(t)
  BY <1>1, <1>4
  DEF WatchStep, WatchSettle, WatchGiveUp, WatchPop, Goto, Finish, Moves
<1>5. ASSUME NEW u \in Threads, LoopSettle(u), t # u
      PROVE  Moves(t)
  <2>1. thread[u].job \in Jobs /\ row[thread[u].job].state # "none"
    BY <1>1, <1>5 DEF LoopSettle, ThreadInv, KInv, IInv, TypeOK
  <2>2. QED
    BY <2>1, <1>1, <1>5, WatchOne DEF LoopSettle, Moves
<1>6. CASE StopStep
  BY <1>1, <1>6
  DEF StopStep, StopUnlaunched, StopSignal, StopEnd, Finish, Moves, OwnStep
<1>7. CASE RecoverStep
  BY <1>1, <1>7
  DEF RecoverStep, RecoverNext, RecoverFail, RecoverEnd, Finish, Moves, OwnStep
<1>8. CASE ThreadStep
  <2>1. ASSUME NEW c \in Callers, ShowSettle(c)
        PROVE  Moves(t)
    BY <2>1, <1>1 DEF ShowSettle, Finish, Moves, OwnStep
  <2>2. QED
    BY <2>1, <1>2, <1>3, <1>4, <1>5, <1>6, <1>7, <1>8
    DEF ThreadStep, Moves, OwnStep
<1>9. CASE CallStep
  <2>1. ASSUME NEW S \in SUBSET Jobs, Run(S)
        PROVE  Moves(t)
    BY <2>1 DEF Run, Moves, Sent
  <2>2. ASSUME NEW S \in SUBSET Jobs, StopBegin(S)
        PROVE  Moves(t)
    BY <2>2, <1>1 DEF StopBegin, Moves, OwnStep
  <2>3. ASSUME NEW S \in SUBSET Jobs, Forget(S)
        PROVE  Moves(t)
    BY <2>3 DEF Forget, Moves
  <2>4. ASSUME NEW c \in Callers, NEW j \in Jobs, ShowFresh(c, j)
        PROVE  Moves(t)
    BY <2>4, <1>1 DEF ShowFresh, Moves, OwnStep
  <2>5. QED
    BY <2>1, <2>2, <2>3, <2>4, <1>9 DEF CallStep
<1>10. CASE FaultStep
  <2>1. ASSUME NEW u \in Threads, CallFails(u)
        PROVE  Moves(t)
    BY <2>1, <1>1, RaiseOne DEF CallFails, Moves, OwnStep
  <2>2. ASSUME NEW u \in Threads, LastCallFails(u)
        PROVE  Moves(t)
    BY <2>2, <1>1 DEF LastCallFails, Finish, Goto, Moves, OwnStep
  <2>3. QED
    BY <2>1, <2>2, <1>10 DEF FaultStep
<1>11. CASE Restart
  BY <1>1, <1>11 DEF Restart, Moves, OwnStep
<1>12. CASE WorkerStep \/ UNCHANGED vars
  BY <1>12 DEF WorkerStep, vars, brokerVars, Moves
<1>13. QED
  BY <1>8, <1>9, <1>10, <1>11, <1>12 DEF Next, Moves

-----------------------------------------------------------------------------
(* What a thread has in hand.                                              *)

Busy(t) == thread[t].pc \notin {"idle", "next"}

\* It keeps the job and the observation it had, or lets go of them.
Carried(old, new) ==
  /\ new.pc \in InFlight =>
       old.pc \in InFlight /\ new.job = old.job /\ new.obs = old.obs
  /\ new.pc \notin {"idle", "next"} =>
       old.pc \notin {"idle", "next"} /\ new.job = old.job
  /\ new.seen \in TerminalStates =>
       \/ new.seen = old.seen /\ new.job = old.job
       \/ (new.job \in Jobs) /\ row'[new.job].state \in Ended

\* It is sent to a job that has a record.
SentTo(new) ==
  /\ new.pc \notin InFlight
  /\ new.pc \notin {"idle", "next"} => row'[new.job].state # "none"
  /\ new.seen = "queued"

\* It comes by an observation the record allows.
Observing(new) ==
  /\ new.job \in Jobs
  /\ row[new.job].state # "none"
  /\ new.obs.state # "queued"
  /\ row[new.job].state = "queued" => new.obs.state = "unknown"
  /\ new.obs.state = "succeeded" => "result" \in new.obs.cols
  /\ new.seen \in TerminalStates => row[new.job].state \in Ended

LEMMA KnowsCarried ==
  ASSUME KInv, NEW t \in Threads, \A j \in Jobs : LifeStep(j),
         Carried(thread[t], thread'[t])
  PROVE  ThreadInv(t)'
<1>1. ThreadInv(t) /\ (Busy(t) => thread[t].job \in Jobs)
  BY DEF KInv, IInv, TypeOK, Busy
<1>2. CASE thread'[t].pc \in InFlight
  BY <1>1, <1>2, RowsForward
  DEF Carried, ThreadInv, Busy, NoRow, InFlight
<1>3. thread'[t].pc \notin {"idle", "next"} => row'[thread'[t].job].state # "none"
  BY <1>1, RowsForward DEF Carried, ThreadInv, Busy
<1>4. thread'[t].seen \in TerminalStates =>
        (thread'[t].job \in Jobs) /\ row'[thread'[t].job].state \in Ended
  BY <1>1, RowsForward DEF Carried, ThreadInv
<1>5. QED
  BY <1>2, <1>3, <1>4 DEF ThreadInv

LEMMA KnowsSent ==
  ASSUME NEW t \in Threads, SentTo(thread'[t])
  PROVE  ThreadInv(t)'
BY DEF SentTo, ThreadInv, TerminalStates

LEMMA KnowsObserving ==
  ASSUME NEW t \in Threads, \A j \in Jobs : LifeStep(j), Observing(thread'[t])
  PROVE  ThreadInv(t)'
<1>1. LifeStep(thread'[t].job)
  BY DEF Observing
<1>2. QED
  BY <1>1, RowsForward DEF Observing, ThreadInv, NoRow

LEMMA AtFields ==
  ASSUME NEW pc, NEW j
  PROVE  At(pc, j).pc = pc /\ At(pc, j).job = j /\ At(pc, j).seen = "queued"
BY DEF At, Idle

LEMMA KnowsFinish ==
  ASSUME KInv, NEW t \in Threads, \A j \in Jobs : LifeStep(j),
         thread'[t] = Idle \/ thread'[t] = At("next", NoJob)
  PROVE  ThreadInv(t)'
<1>1. SentTo(thread'[t])
  BY AtFields DEF SentTo, Idle, InFlight
<1>2. QED
  BY <1>1, KnowsSent

LEMMA KnowsGoto ==
  ASSUME KInv, NEW t \in Threads, \A j \in Jobs : LifeStep(j), Busy(t),
         NEW pc, pc \in InFlight => thread[t].pc \in InFlight, Goto(t, pc)
  PROVE  ThreadInv(t)'
<1>1. thread \in [Threads -> Thread]
  BY DEF KInv, IInv, TypeOK
<1>2. /\ thread'[t].pc = pc
      /\ thread'[t].job = thread[t].job
      /\ thread'[t].obs = thread[t].obs
      /\ thread'[t].seen = thread[t].seen
  BY <1>1 DEF Goto, Thread
<1>3. Carried(thread[t], thread'[t])
  BY <1>2 DEF Carried, Busy
<1>4. QED
  BY <1>3, KnowsCarried

LEMMA KnowsAt ==
  ASSUME KInv, NEW t \in Threads, NEW i \in Jobs, \A j \in Jobs : LifeStep(j),
         row[i].state # "none", NEW pc, pc \notin InFlight,
         thread'[t] = At(pc, i)
  PROVE  ThreadInv(t)'
<1>1. SentTo(thread'[t])
  BY RowsForward, AtFields DEF SentTo
<1>2. QED
  BY <1>1, KnowsSent

\* The job of a thread that is at work has a record.
LEMMA BusyJob ==
  ASSUME KInv, NEW t \in Threads, Busy(t)
  PROVE  /\ thread[t].job \in Jobs
         /\ row[thread[t].job].state # "none"
         /\ t \in Launchers \cup Watchers =>
              t[2] \in Jobs /\ row[t[2]].state # "none"
<1>1. thread[t].job \in Jobs /\ row[thread[t].job].state # "none"
  BY DEF KInv, IInv, TypeOK, ThreadInv, Busy
<1>2. ASSUME t \in Launchers \cup Watchers
      PROVE  t[2] \in Jobs /\ thread[t].job = t[2]
  <2>1. PICK j \in Jobs : t = Launcher(j) \/ t = Watcher(j)
    BY <1>2 DEF Launchers, Watchers
  <2>2. JobInv(j) /\ t[2] = j
    BY <2>1 DEF KInv, Launcher, Watcher
  <2>3. QED
    BY <2>1, <2>2 DEF JobInv, Busy
<1>3. QED
  BY <1>1, <1>2

LEMMA KnowsRaise ==
  ASSUME KInv, NEW t \in Threads, \A j \in Jobs : LifeStep(j), Busy(t), Raise(t)
  PROVE  ThreadInv(t)'
<1>1. thread \in [Threads -> Thread]
  BY DEF KInv, IInv, TypeOK
<1>2. CASE t \in Launchers /\ thread' = [thread EXCEPT ![t] = At("failRead", t[2])]
  BY <1>1, <1>2, BusyJob, KnowsAt DEF InFlight
<1>3. CASE /\ t \in Watchers
           /\ thread' = [thread EXCEPT ![t] =
                           At(IF failures[t[2]] + 1 >= FailureLimit
                                THEN "giveUp" ELSE "read", t[2])]
  BY <1>1, <1>3, BusyJob, KnowsAt DEF InFlight
<1>4. CASE Finish(t)
  BY <1>1, <1>4, KnowsFinish DEF Finish
<1>5. CASE Goto(t, "recoverFail")
  BY <1>5, KnowsGoto DEF InFlight
<1>6. QED
  BY <1>2, <1>3, <1>4, <1>5 DEF Raise

LEMMA KnowsLaunch ==
  ASSUME KInv, NEW j \in Jobs, \A i \in Jobs : LifeStep(i), LaunchStep(j)
  PROVE  ThreadInv(Launcher(j))'
<1> DEFINE t == Launcher(j)
<1>1. t \in Threads /\ thread \in [Threads -> Thread] /\ JobInv(j)
  BY ThreadNames DEF KInv, IInv, TypeOK
<1>2. Busy(t) /\ t # Watcher(j)
  BY DEF Busy, LaunchStep, LaunchStart, LaunchFetch, LaunchSpawn,
         LaunchSpawnFails, LaunchWriteState, LaunchSettle, LaunchFailRead,
         LaunchFailWrite, Launcher, Watcher
<1>3. CASE Raise(t)
  BY <1>1, <1>2, <1>3, KnowsRaise
<1>4. CASE Finish(t)
  BY <1>1, <1>4, KnowsFinish DEF Finish
<1>5. CASE \E pc \in {"fetch", "spawn", "identify", "failWrite"} : Goto(t, pc)
  BY <1>1, <1>2, <1>5, KnowsGoto DEF InFlight
<1>6. CASE LaunchWriteState(j)
  <2>1. thread[t].job = j /\ row[j].state \notin {"none", "queued"}
    BY <1>1, <1>6 DEF LaunchWriteState, JobInv
  <2>2. /\ thread'[t].obs = Launched
        /\ thread'[t].job = j
        /\ thread'[t].seen = thread[t].seen
    BY <1>1, <1>6, <2>1 DEF LaunchWriteState, Thread
  <2>3. thread[t].seen \in TerminalStates => row[j].state \in Ended
    BY <1>1, <2>1 DEF KInv, ThreadInv
  <2>4. Observing(thread'[t])
    BY <2>1, <2>2, <2>3 DEF Observing, Launched
  <2>5. QED
    BY <1>1, <2>4, KnowsObserving
<1>7. CASE LaunchSettle(j) /\ Exists(j)
  <2>1. thread'[t] = Idle
    BY <1>1, <1>2, <1>7 DEF LaunchSettle, WatchUnlessEnded, WithWatcher
  <2>2. QED
    BY <1>1, <2>1, KnowsFinish
<1>8. QED
  BY <1>3, <1>4, <1>5, <1>6, <1>7
  DEF LaunchStep, LaunchStart, LaunchFetch, LaunchSpawn, LaunchSpawnFails,
      LaunchSettle, LaunchFailRead, LaunchFailWrite

LEMMA AppliedCarried ==
  ASSUME KInv, NEW t \in Threads, thread[t].pc \in InFlight, NEW state,
         thread[t].job \in Jobs, state = row'[thread[t].job].state,
         thread'[t] = Applied(thread[t].job, thread[t].obs, state)
  PROVE  Carried(thread[t], thread'[t])
<1>1. state \in TerminalStates => row'[thread[t].job].state \in Ended
  BY DEF Ended
<1>2. CASE HasEvidence(thread[t].obs)
  BY <1>1, <1>2 DEF Applied, Carried, InFlight
<1>3. CASE ~HasEvidence(thread[t].obs)
  BY <1>1, <1>3 DEF Applied, Carried, InFlight, Settled, At, Idle
<1>4. QED
  BY <1>2, <1>3

LEMMA KnowsObserve ==
  ASSUME KInv, NEW t \in Threads, \A i \in Jobs : LifeStep(i), ObserveStep(t)
  PROVE  ThreadInv(t)'
<1> DEFINE j == thread[t].job
<1>1. /\ thread \in [Threads -> Thread]
      /\ stateFile \in [Jobs -> FileStates]
      /\ ThreadInv(t)
  BY DEF KInv, IInv, TypeOK, RunnerTypeOK
<1>2. Busy(t)
  BY DEF Busy, ObserveStep, ReadJob, ReadFile, CheckProcess, ApplyRead,
         ApplyCommit, RecordEvidence
<1>3. j \in Jobs /\ row[j].state # "none" /\ JobInv(j)
  BY <1>2, BusyJob DEF KInv
<1>4. thread[t].seen \in TerminalStates => row[j].state \in Ended
  BY <1>1 DEF ThreadInv
<1>5. CASE Raise(t)
  BY <1>2, <1>5, KnowsRaise
<1> HIDE DEF j
<1>6. CASE ReadJob(t) /\ Exists(j)
  <2>1. CASE IsTerminal(j)
    <3>1. thread'[t] = Settled(j, row[j].state) /\ row'[j] = row[j]
      BY <1>1, <1>6, <2>1 DEF ReadJob, j, storeVars
    <3>2. Carried(thread[t], thread'[t])
      BY <1>2, <1>3, <2>1, <3>1
      DEF Carried, Settled, At, Idle, InFlight, Busy, IsTerminal, Ended, j
    <3>3. QED
      BY <3>2, KnowsCarried
  <2>2. CASE ~IsTerminal(j)
    BY <1>1, <1>3, <1>6, <2>2, KnowsAt DEF ReadJob, j, InFlight
  <2>3. QED
    BY <2>1, <2>2
<1>7. CASE ReadFile(t)
  <2>1. /\ thread'[t].obs = Reported(stateFile[j])
        /\ thread'[t].job = j
        /\ thread'[t].seen = thread[t].seen
    BY <1>1, <1>7 DEF ReadFile, Thread, j
  <2>2. row[j].state = "queued" => stateFile[j] = "missing"
    BY <1>3 DEF JobInv
  <2>3. stateFile[j] \in FileStates
    BY <1>1, <1>3
  <2>4. Observing(thread'[t])
    BY <1>3, <1>4, <2>1, <2>2, <2>3
    DEF Observing, Reported, Unobservable, FileStates, ReportedOutcomes
  <2>5. QED
    BY <2>4, KnowsObserving
<1>8. CASE CheckProcess(t)
  <2>1. /\ thread'[t].obs \in {thread[t].obs, Unobservable}
        /\ thread'[t].job = j
        /\ thread'[t].seen = thread[t].seen
    BY <1>1, <1>8 DEF CheckProcess, Thread, j
  <2>2. /\ thread[t].obs.state # "queued"
        /\ row[j].state = "queued" => thread[t].obs.state = "unknown"
        /\ thread[t].obs.state = "succeeded" => "result" \in thread[t].obs.cols
    BY <1>1, <1>8 DEF CheckProcess, ThreadInv, InFlight, j
  <2>3. Observing(thread'[t])
    BY <1>3, <1>4, <2>1, <2>2 DEF Observing, Unobservable
  <2>4. QED
    BY <2>3, KnowsObserving
<1>9. CASE ApplyRead(t) /\ Exists(j)
  <2>1. thread[t].pc \in InFlight /\ row' = row
    BY <1>9 DEF ApplyRead, InFlight, storeVars
  <2>2. CASE Goto(t, "commit")
    BY <1>2, <2>1, <2>2, KnowsGoto
  <2>3. CASE thread' = [thread EXCEPT ![t] =
                          Applied(j, thread[t].obs, row[j].state)]
    BY <1>1, <1>3, <2>1, <2>3, AppliedCarried, KnowsCarried DEF j
  <2>4. QED
    BY <2>2, <2>3, <1>9 DEF ApplyRead, j
<1>10. CASE ApplyCommit(t) /\ Exists(j)
  <2>1. thread[t].pc \in InFlight
    BY <1>10 DEF ApplyCommit, InFlight
  <2>2. thread'[t] = Applied(j, thread[t].obs, row'[j].state)
    BY <1>1, <1>10 DEF ApplyCommit, j
  <2>3. QED
    BY <1>3, <2>1, <2>2, AppliedCarried, KnowsCarried DEF j
<1>11. CASE RecordEvidence(t) /\ Exists(j)
  <2>1. thread'[t] = Settled(j, thread[t].seen)
    BY <1>1, <1>11 DEF RecordEvidence, j, Thread
  <2>2. Carried(thread[t], thread'[t])
    BY <1>2, <2>1 DEF Carried, Settled, At, Idle, InFlight, Busy, j
  <2>3. QED
    BY <2>2, KnowsCarried
<1>12. QED
  BY <1>5, <1>6, <1>7, <1>8, <1>9, <1>10, <1>11
  DEF ObserveStep, ReadJob, ApplyRead, ApplyCommit, RecordEvidence, j

LEMMA KnowsWatch ==
  ASSUME KInv, NEW j \in Jobs, \A i \in Jobs : LifeStep(i), WatchStep(j)
  PROVE  ThreadInv(Watcher(j))'
<1> DEFINE t == Watcher(j)
<1>1. t \in Threads /\ thread \in [Threads -> Thread]
  BY ThreadNames DEF KInv, IInv, TypeOK
<1>2. Busy(t) /\ t \in Watchers /\ t[2] = j
  BY DEF Busy, WatchStep, WatchSettle, WatchGiveUp, WatchPop, Watchers, Watcher
<1>3. row[j].state # "none"
  BY <1>1, <1>2, BusyJob
<1>4. CASE WatchSettle(j)
  <2>1. \E pc \in {"pop", "read"} : thread'[t] = At(pc, j)
    BY <1>1, <1>4 DEF WatchSettle
  <2>2. QED
    BY <1>1, <1>3, <2>1, KnowsAt DEF InFlight
<1>5. CASE WatchGiveUp(j)
  BY <1>1, <1>2, <1>5, KnowsGoto DEF WatchGiveUp, InFlight
<1>6. CASE WatchPop(j)
  BY <1>1, <1>6, KnowsFinish DEF WatchPop, Finish
<1>7. QED
  BY <1>4, <1>5, <1>6 DEF WatchStep

LEMMA KnowsStop ==
  ASSUME KInv, \A i \in Jobs : LifeStep(i),
         StopStep \/ \E S \in SUBSET Jobs : StopBegin(S)
  PROVE  ThreadInv(Stopper)'
<1>1. Stopper \in Threads /\ thread \in [Threads -> Thread]
  BY ThreadNames DEF KInv, IInv, TypeOK
<1>2. ASSUME NEW j \in Jobs, StopSignal(j)
      PROVE  ThreadInv(Stopper)'
  <2>1. row[j].state \notin {"none", "queued"}
    BY <1>2 DEF StopSignal, KInv, JobInv
  <2>2. /\ thread'[Stopper].obs \in {SignalSent, Unsignalled}
        /\ thread'[Stopper].job = j
        /\ thread'[Stopper].seen = "queued"
    BY <1>1, <1>2 DEF StopSignal, At, Idle
  <2>3. Observing(thread'[Stopper])
    BY <2>1, <2>2 DEF Observing, SignalSent, Unsignalled, TerminalStates
  <2>4. QED
    BY <1>1, <2>3, KnowsObserving
<1>3. ASSUME NEW j \in Jobs, StopUnlaunched(j)
      PROVE  ThreadInv(Stopper)'
  <2>1. Carried(thread[Stopper], thread'[Stopper])
    <3>1. thread' = thread /\ thread[Stopper].pc = "next"
      BY <1>3 DEF StopUnlaunched
    <3>2. ThreadInv(Stopper)
      BY <1>1 DEF KInv
    <3>3. QED
      BY <3>1, <3>2 DEF Carried, InFlight
  <2>2. QED
    BY <1>1, <2>1, KnowsCarried
<1>4. CASE StopEnd \/ \E S \in SUBSET Jobs : StopBegin(S)
  BY <1>1, <1>4, KnowsFinish DEF StopEnd, StopBegin, Finish
<1>5. QED
  BY <1>2, <1>3, <1>4 DEF StopStep

LEMMA KnowsRecover ==
  ASSUME KInv, \A i \in Jobs : LifeStep(i), RecoverStep \/ Restart
  PROVE  ThreadInv(Recovery)'
<1>1. Recovery \in Threads /\ thread \in [Threads -> Thread]
  BY ThreadNames DEF KInv, IInv, TypeOK
<1>2. ASSUME NEW j \in Jobs, RecoverNext(j)
      PROVE  ThreadInv(Recovery)'
  <2>1. row[j].state # "none"
    BY <1>2 DEF RecoverNext, KInv, JobInv
  <2>2. QED
    BY <1>1, <1>2, <2>1, KnowsAt DEF RecoverNext, InFlight
<1>3. CASE RecoverFail \/ RecoverEnd \/ Restart
  BY <1>1, <1>3, KnowsFinish DEF RecoverFail, RecoverEnd, Restart, Finish
<1>4. QED
  BY <1>2, <1>3 DEF RecoverStep

LEMMA ThreadsKnow ==
  ASSUME KInv, [Next]_vars, NEW t \in Threads
  PROVE  ThreadInv(t)'
<1>1. /\ \A j \in Jobs : LifeStep(j)
      /\ Moves(t)
      /\ thread \in [Threads -> Thread]
  BY JobLives, Movers DEF KInv, IInv, TypeOK
<1>2. CASE thread'[t] = thread[t]
  <2>1. Carried(thread[t], thread'[t])
    BY <1>2 DEF Carried
  <2>2. QED
    BY <1>1, <2>1, KnowsCarried
<1>3. CASE Woken(t)
  BY <1>1, <1>3, KnowsAt DEF Woken, InFlight
<1>4. CASE Sent(t)
  <2>1. PICK S \in SUBSET Jobs : Run(S) /\ \E j \in S : t = Launcher(j)
    BY <1>4 DEF Sent
  <2> PICK j \in S : t = Launcher(j)
    BY <2>1
  <2>2. /\ thread'[t] = At("start", j)
        /\ row'[j] = QueuedRow
    BY <2>1 DEF Run, CreateLaunch, Launcher
  <2>3. SentTo(thread'[t])
    BY <2>2, AtFields DEF SentTo, InFlight, QueuedRow
  <2>4. QED
    BY <2>3, KnowsSent
<1>5. CASE Crash
  BY <1>1, <1>5, KnowsFinish DEF Crash
<1>6. CASE OwnStep(t)
  <2>1. CASE LoopSettle(t)
    <3>1. thread'[t] = At("next", NoJob)
      <4>1. \A j : t # Watcher(j)
        BY <2>1 DEF LoopSettle, Stopper, Recovery, Watcher
      <4>2. QED
        BY <1>1, <2>1, <4>1 DEF LoopSettle, WatchUnlessEnded, WithWatcher
    <3>2. QED
      BY <1>1, <3>1, KnowsFinish
  <2>2. ASSUME NEW c \in Callers, t = Show(c), ShowSettle(c)
        PROVE  ThreadInv(t)'
    BY <1>1, <2>2, KnowsFinish DEF ShowSettle, Finish
  <2>3. ASSUME NEW c \in Callers, t = Show(c), NEW j \in Jobs, ShowFresh(c, j)
        PROVE  ThreadInv(t)'
    <3>1. row[j].state # "none"
      BY <2>3 DEF ShowFresh, Exists, States, TerminalStates
    <3>2. QED
      BY <1>1, <2>3, <3>1, KnowsAt DEF ShowFresh, InFlight
  <2>4. CASE CallFails(t)
    BY <1>1, <2>4, KnowsRaise DEF CallFails, Busy
  <2>5. CASE LastCallFails(t)
    <3>1. CASE Finish(t)
      BY <1>1, <3>1, KnowsFinish DEF Finish
    <3>2. CASE thread[t].pc = "giveUp" /\ Goto(t, "pop")
      BY <1>1, <3>2, KnowsGoto DEF Busy, InFlight
    <3>3. QED
      BY <2>5, <3>1, <3>2 DEF LastCallFails
  <2>6. QED
    BY <1>1, <1>6, <2>1, <2>2, <2>3, <2>4, <2>5, KnowsLaunch, KnowsWatch,
       KnowsObserve, KnowsStop, KnowsRecover
    DEF OwnStep
<1>7. QED
  BY <1>1, <1>2, <1>3, <1>4, <1>5, <1>6 DEF Moves

-----------------------------------------------------------------------------
(* The launch thread and the watcher thread of a job.                      *)

LEMMA OwnOfJob ==
  ASSUME NEW j \in Jobs
  PROVE  /\ Moves(Launcher(j)) => \/ thread'[Launcher(j)] = thread[Launcher(j)]
                                  \/ LaunchStep(j)
                                  \/ ObserveStep(Launcher(j))
                                  \/ CallFails(Launcher(j))
                                  \/ LastCallFails(Launcher(j))
                                  \/ Sent(Launcher(j))
                                  \/ Crash
         /\ Moves(Watcher(j)) => \/ thread'[Watcher(j)] = thread[Watcher(j)]
                                 \/ WatchStep(j)
                                 \/ ObserveStep(Watcher(j))
                                 \/ CallFails(Watcher(j))
                                 \/ LastCallFails(Watcher(j))
                                 \/ Woken(Watcher(j))
                                 \/ Crash
<1>1. ASSUME NEW i \in Jobs
      PROVE  /\ Launcher(j) = Launcher(i) => i = j
             /\ Watcher(j) = Watcher(i) => i = j
             /\ Launcher(j) # Watcher(i)
             /\ Watcher(j) # Launcher(i)
  BY DEF Launcher, Watcher
<1>2. /\ \A c \in Callers : Launcher(j) # Show(c) /\ Watcher(j) # Show(c)
      /\ Launcher(j) \notin {Stopper, Recovery}
      /\ Watcher(j) \notin {Stopper, Recovery}
  BY DEF Launcher, Watcher, Show, Stopper, Recovery
<1>3. ~Woken(Launcher(j)) /\ ~Sent(Watcher(j))
  BY <1>1 DEF Woken, Sent
<1>4. ~LoopSettle(Launcher(j)) /\ ~LoopSettle(Watcher(j))
  BY <1>2 DEF LoopSettle
<1>5. QED
  BY <1>1, <1>2, <1>3, <1>4 DEF Moves, OwnStep

\* Where an observer goes from any of its places.
LEMMA ObserverGoes ==
  ASSUME TypeOK, NEW t \in Threads, ObserveStep(t)
  PROVE  \/ Raise(t) /\ ~Exists(thread[t].job)
         \/ /\ thread'[t].job = thread[t].job
            /\ thread'[t].pc \in {"file", "process", "apply", "commit",
                                  "evidence", "settle"}
<1> DEFINE j == thread[t].job
<1>1. thread \in [Threads -> Thread]
  BY DEF TypeOK
<1>2. \A pc : At(pc, j).pc = pc /\ At(pc, j).job = j
  BY AtFields
<1>3. \A s : Settled(j, s).pc = "settle" /\ Settled(j, s).job = j
  BY DEF Settled, At, Idle
<1>4. \A obs, s : /\ Applied(j, obs, s).pc \in {"evidence", "settle"}
                  /\ Applied(j, obs, s).job = j
  BY <1>3 DEF Applied
<1>5. CASE ReadJob(t)
  BY <1>1, <1>2, <1>3, <1>5 DEF ReadJob
<1>6. CASE ReadFile(t)
  BY <1>1, <1>6 DEF ReadFile, Thread
<1>7. CASE CheckProcess(t)
  BY <1>1, <1>7 DEF CheckProcess, Thread
<1>8. CASE ApplyRead(t)
  <2>1. CASE Goto(t, "commit")
    BY <1>1, <2>1 DEF Goto, Thread
  <2>2. QED
    BY <1>1, <1>4, <1>8, <2>1 DEF ApplyRead
<1>9. CASE ApplyCommit(t)
  BY <1>1, <1>4, <1>9 DEF ApplyCommit
<1>10. CASE RecordEvidence(t)
  BY <1>1, <1>3, <1>10 DEF RecordEvidence, Thread
<1>11. QED
  BY <1>5, <1>6, <1>7, <1>8, <1>9, <1>10 DEF ObserveStep

Placing == {"fetch", "spawn", "identify"}

LauncherGoes(j) ==
  LET old == thread[Launcher(j)]
      new == thread'[Launcher(j)] IN
  \/ new = old
  \/ new.pc = "idle" /\ ~(old.pc = "start" /\ row'[j].state \in Active)
  \/ new = At("start", j) /\ row'[j] = QueuedRow
  \/ old.pc = "start" /\ new.pc = "fetch" /\ new.job = old.job /\ LaunchStart(j)
       /\ events'[j] = Append(events[j], "starting")
  \/ /\ old.pc \notin {"idle", "start", "next"}
     /\ new.pc \notin {"idle", "start", "next"}
     /\ new.job = j
     /\ new.pc \in Placing => old.pc \in Placing

LEMMA LauncherMoves ==
  ASSUME KInv, [Next]_vars, NEW j \in Jobs
  PROVE  LauncherGoes(j)
<1> DEFINE t == Launcher(j)
<1>1. /\ t \in Threads
      /\ t[2] = j
      /\ thread \in [Threads -> Thread]
      /\ TypeOK
      /\ JobInv(j)
      /\ Moves(t)
      /\ LifeStep(j)
  BY ThreadNames, Movers, JobLives DEF KInv, IInv, TypeOK, Launcher
<1>2. t \in Launchers /\ t \notin Watchers /\ t \notin Shows
        /\ t \notin {Stopper, Recovery}
  BY DEF Launchers, Watchers, Shows, Launcher, Watcher, Show, Stopper, Recovery
<1>3. thread[t].pc # "idle" => thread[t].job = j
  BY <1>1 DEF JobInv
<1>4. ASSUME Raise(t), thread[t].pc \notin {"idle", "start", "next"}
      PROVE  LauncherGoes(j)
  <2>1. thread'[t] = At("failRead", j)
    BY <1>1, <1>2, <1>4 DEF Raise
  <2>2. QED
    BY <1>4, <2>1, AtFields DEF LauncherGoes, Placing
<1>5. CASE Sent(t)
  <2>1. PICK S \in SUBSET Jobs : Run(S) /\ \E i \in S : t = Launcher(i)
    BY <1>5 DEF Sent
  <2>2. j \in S
    BY <2>1 DEF Launcher
  <2>3. QED
    BY <1>1, <2>1, <2>2 DEF Run, CreateLaunch, LauncherGoes
<1>6. CASE LaunchStep(j)
  <2>1. CASE LaunchStart(j)
    <3>1. CASE row[j].state = "queued"
      <4>1. UpdateJob(j, "starting", {}, "none") /\ Goto(t, "fetch")
        BY <2>1, <3>1 DEF LaunchStart
      <4>2. thread'[t].pc = "fetch" /\ thread'[t].job = thread[t].job
        BY <1>1, <4>1 DEF Goto, Thread
      <4>3. events'[j] = Append(events[j], "starting")
        BY <1>1, <3>1, <4>1
        DEF UpdateJob, Dropped, IsTerminal, TerminalStates, TypeOK, StoreTypeOK
      <4>4. QED
        BY <2>1, <4>2, <4>3 DEF LauncherGoes, LaunchStart
    <3>2. CASE row[j].state # "queued"
      <4>1. thread'[t].pc = "idle" /\ row'[j] = row[j]
        BY <1>1, <2>1, <3>2 DEF LaunchStart, Finish, Idle, storeVars
      <4>2. row[j].state \notin Active
        BY <1>1, <2>1 DEF LaunchStart, JobInv
      <4>3. QED
        BY <4>1, <4>2 DEF LauncherGoes
    <3>3. QED
      BY <3>1, <3>2
  <2>2. CASE LaunchFetch(j)
    <3>1. CASE Goto(t, "spawn")
      BY <1>1, <1>3, <2>2, <3>1 DEF LaunchFetch, LauncherGoes, Goto, Thread, Placing
    <3>2. CASE Raise(t)
      BY <1>4, <2>2, <3>2 DEF LaunchFetch
    <3>3. QED
      BY <2>2, <3>1, <3>2 DEF LaunchFetch
  <2>3. CASE LaunchSpawn(j)
    BY <1>1, <1>3, <2>3 DEF LaunchSpawn, LauncherGoes, Goto, Thread, Placing
  <2>4. CASE LaunchSpawnFails(j)
    BY <1>4, <2>4 DEF LaunchSpawnFails
  <2>5. CASE LaunchWriteState(j)
    BY <1>1, <1>3, <2>5 DEF LaunchWriteState, LauncherGoes, Thread, Placing
  <2>6. CASE LaunchSettle(j)
    <3>1. CASE Exists(j)
      <4>1. thread'[t] = Idle
        BY <1>1, <2>6, <3>1
        DEF LaunchSettle, WatchUnlessEnded, WithWatcher, Launcher, Watcher
      <4>2. QED
        BY <2>6, <4>1 DEF LauncherGoes, Idle, LaunchSettle
    <3>2. CASE ~Exists(j)
      BY <1>4, <2>6, <3>2 DEF LaunchSettle
    <3>3. QED
      BY <3>1, <3>2
  <2>7. CASE LaunchFailRead(j)
    <3>1. CASE Goto(t, "failWrite")
      BY <1>1, <1>3, <2>7, <3>1
      DEF LaunchFailRead, LauncherGoes, Goto, Thread, Placing
    <3>2. CASE Finish(t)
      BY <1>1, <2>7, <3>2 DEF LaunchFailRead, LauncherGoes, Finish, Idle
    <3>3. QED
      BY <2>7, <3>1, <3>2 DEF LaunchFailRead
  <2>8. CASE LaunchFailWrite(j)
    BY <1>1, <2>8 DEF LaunchFailWrite, LauncherGoes, Finish, Idle
  <2>9. QED
    BY <1>6, <2>1, <2>2, <2>3, <2>4, <2>5, <2>6, <2>7, <2>8 DEF LaunchStep
<1>7. CASE ObserveStep(t)
  <2>1. thread[t].pc \notin {"idle", "start", "next"}
    BY <1>7 DEF ObserveStep, ReadJob, ReadFile, CheckProcess, ApplyRead,
                ApplyCommit, RecordEvidence
  <2>2. QED
    BY <1>1, <1>3, <1>4, <1>7, <2>1, ObserverGoes DEF LauncherGoes, Placing
<1>8. CASE CallFails(t)
  BY <1>4, <1>8 DEF CallFails
<1>9. CASE LastCallFails(t)
  <2>1. thread'[t].pc = "idle" /\ row'[j] = row[j]
    BY <1>1, <1>2, <1>9 DEF LastCallFails, Finish, Idle, storeVars
  <2>2. thread[t].pc = "start" => row[j].state \notin Active
    BY <1>1 DEF JobInv
  <2>3. QED
    BY <2>1, <2>2 DEF LauncherGoes
<1>10. CASE Crash
  <2>1. thread'[t].pc = "idle" /\ row'[j] = row[j]
    BY <1>1, <1>10 DEF Crash, Idle, storeVars
  <2>2. thread[t].pc = "start" => row[j].state \notin Active
    BY <1>1 DEF JobInv
  <2>3. QED
    BY <2>1, <2>2 DEF LauncherGoes
<1>11. QED
  BY <1>1, <1>5, <1>6, <1>7, <1>8, <1>9, <1>10, OwnOfJob DEF LauncherGoes

WatcherGoes(j) ==
  LET t == Watcher(j)
      new == thread'[t] IN
  \/ new = thread[t]
  \/ new.pc = "idle" /\ (WatchPop(j) \/ Crash)
  \/ /\ new.pc \notin {"idle", "giveUp", "pop"}
     /\ new.job = j
  \/ new.pc = "giveUp" /\ new.job = j /\ Raise(t) /\ (Faults \/ ~Exists(j))
       /\ thread[t].pc # "idle" /\ UNCHANGED row
  \/ new.pc = "pop" /\ new.job = j
       /\ \/ WatchSettle(j) /\ thread[t].seen \in TerminalStates
          \/ WatchGiveUp(j)
          \/ Faults

LEMMA WatcherMoves ==
  ASSUME KInv, [Next]_vars, NEW j \in Jobs
  PROVE  WatcherGoes(j)
<1> DEFINE t == Watcher(j)
<1>1. /\ t \in Threads
      /\ t[2] = j
      /\ thread \in [Threads -> Thread]
      /\ TypeOK
      /\ JobInv(j)
      /\ Moves(t)
  BY ThreadNames, Movers DEF KInv, IInv, TypeOK, Watcher
<1>2. t \in Watchers /\ t \notin Launchers /\ t \notin Shows
        /\ t \notin {Stopper, Recovery}
  BY DEF Launchers, Watchers, Shows, Launcher, Watcher, Show, Stopper, Recovery
<1>3. thread[t].pc # "idle" => thread[t].job = j
  BY <1>1 DEF JobInv
<1>4. ASSUME Raise(t), thread[t].pc # "idle", UNCHANGED row, Faults \/ ~Exists(j)
      PROVE  WatcherGoes(j)
  <2>1. \E pc \in {"giveUp", "read"} : thread'[t] = At(pc, j)
    BY <1>1, <1>2, <1>4 DEF Raise
  <2>2. QED
    BY <1>4, <2>1, AtFields DEF WatcherGoes
<1>5. CASE WatchSettle(j)
  <2>1. thread'[t] = At(IF thread[t].seen \in TerminalStates
                          THEN "pop" ELSE "read", j)
    BY <1>1, <1>5 DEF WatchSettle, Thread
  <2>2. QED
    BY <1>5, <2>1, AtFields DEF WatcherGoes
<1>6. CASE WatchGiveUp(j)
  <2>1. thread'[t].pc = "pop" /\ thread'[t].job = thread[t].job
    BY <1>1, <1>6 DEF WatchGiveUp, Goto, Thread
  <2>2. QED
    BY <1>3, <1>6, <2>1 DEF WatcherGoes, WatchGiveUp
<1>7. CASE WatchPop(j)
  <2>1. thread'[t].pc = "idle"
    BY <1>1, <1>7 DEF WatchPop, Finish, Idle
  <2>2. QED
    BY <1>7, <2>1 DEF WatcherGoes
<1>8. CASE ObserveStep(t)
  <2>1. thread[t].pc # "idle"
    BY <1>8 DEF ObserveStep, ReadJob, ReadFile, CheckProcess, ApplyRead,
                ApplyCommit, RecordEvidence
  <2>2. CASE Raise(t) /\ ~Exists(thread[t].job)
    <3>1. UNCHANGED row
      BY <1>8, <2>2
      DEF ObserveStep, ReadJob, ReadFile, CheckProcess, ApplyRead,
          ApplyCommit, RecordEvidence, storeVars
    <3>2. QED
      BY <1>3, <1>4, <2>1, <2>2, <3>1
  <2>3. QED
    BY <1>1, <1>3, <1>8, <2>1, <2>2, ObserverGoes DEF WatcherGoes
<1>9. CASE CallFails(t)
  BY <1>4, <1>9 DEF CallFails, storeVars
<1>10. CASE LastCallFails(t)
  <2>1. thread'[t].pc = "pop" /\ thread'[t].job = thread[t].job /\ Faults
          /\ thread[t].pc # "idle"
    BY <1>1, <1>2, <1>10 DEF LastCallFails, Goto, Thread
  <2>2. QED
    BY <1>3, <2>1 DEF WatcherGoes
<1>11. CASE Woken(t)
  <2>1. thread'[t] = At("read", j)
    BY <1>11 DEF Woken, Watcher
  <2>2. QED
    BY <2>1, AtFields DEF WatcherGoes
<1>12. CASE Crash
  BY <1>1, <1>12 DEF Crash, Idle, WatcherGoes
<1>13. QED
  BY <1>1, <1>5, <1>6, <1>7, <1>8, <1>9, <1>10, <1>11, <1>12, OwnOfJob
  DEF WatcherGoes, WatchStep

-----------------------------------------------------------------------------
(* The part of the invariant about the jobs.                               *)

\* What _stop and recovery still hold of a job, they read from its record.
LEMMA ListsKept ==
  ASSUME KInv, [Next]_vars, NEW j \in Jobs
  PROVE  /\ stopping'[j] \in {stopping[j], NoRow, row[j]}
         /\ j \in pending' => j \in pending \/ Exists(j)
<1>1. stopping \in [Jobs -> Row]
  BY DEF KInv, IInv, TypeOK
<1>2. ASSUME NEW t \in Threads, Raise(t)
      PROVE  stopping'[j] \in {stopping[j], NoRow, row[j]}
  BY <1>2 DEF Raise
<1>3. ASSUME NEW i \in Jobs, LaunchStep(i)
      PROVE  stopping'[j] \in {stopping[j], NoRow, row[j]} /\ pending' = pending
  BY <1>2, <1>3, ThreadNames
  DEF LaunchStep, LaunchStart, LaunchFetch, LaunchSpawn, LaunchSpawnFails,
      LaunchWriteState, LaunchSettle, LaunchFailRead, LaunchFailWrite, control
<1>4. ASSUME NEW t \in Threads, ObserveStep(t)
      PROVE  stopping'[j] \in {stopping[j], NoRow, row[j]} /\ pending' = pending
  BY <1>2, <1>4
  DEF ObserveStep, ReadJob, ReadFile, CheckProcess, ApplyRead, ApplyCommit,
      RecordEvidence, control
<1>5. CASE ThreadStep
  BY <1>1, <1>3, <1>4, <1>5
  DEF ThreadStep, WatchStep, WatchSettle, WatchGiveUp, WatchPop, LoopSettle,
      ShowSettle, StopStep, StopUnlaunched, StopSignal, StopEnd, RecoverStep,
      RecoverNext, RecoverFail, RecoverEnd, control
<1>6. CASE CallStep
  BY <1>6 DEF CallStep, Run, StopBegin, Forget, ShowFresh, Call, control
<1>7. CASE FaultStep
  BY <1>2, <1>7 DEF FaultStep, CallFails, LastCallFails, control
<1>8. CASE WorkerStep \/ Crash \/ Restart \/ UNCHANGED vars
  BY <1>8 DEF WorkerStep, Crash, Restart, NonterminalJobs, vars, brokerVars
<1>9. QED
  BY <1>5, <1>6, <1>7, <1>8 DEF Next

\* Nothing but its own launch gives a job a state file or a process.
LEMMA Untouched ==
  ASSUME KInv, [Next]_vars, NEW j \in Jobs, stateFile[j] = "missing",
         thread[Launcher(j)].pc \notin Placing
  PROVE  stateFile'[j] = "missing" /\ (spawns[j] = 0 => spawns'[j] = 0)
<1>1. /\ stateFile \in [Jobs -> FileStates]
      /\ spawns \in [Jobs -> Nat]
      /\ LaunchInv(j)
  BY DEF KInv, IInv, TypeOK, RunnerTypeOK
<1>2. CASE UNCHANGED <<stateFile, spawns>>
  BY <1>2
<1>3. ASSUME NEW i \in Jobs, LaunchSpawn(i) \/ LaunchWriteState(i)
      PROVE  stateFile'[j] = "missing" /\ (spawns[j] = 0 => spawns'[j] = 0)
  <2>1. i # j
    BY <1>3 DEF LaunchSpawn, LaunchWriteState, Placing
  <2>2. QED
    BY <1>1, <1>3, <2>1 DEF LaunchSpawn, LaunchWriteState, Spawn, WriteStartingFile
<1>4. ASSUME NEW i \in Jobs, RunnerStep(i)
      PROVE  stateFile'[j] = "missing" /\ spawns'[j] = spawns[j]
  <2>1. CASE Handshake(i)
    BY <1>1, <2>1 DEF Handshake
  <2>2. CASE RecordOutcome(i)
    BY <1>1, <2>2 DEF RecordOutcome, LaunchInv
  <2>3. CASE UNCHANGED <<stateFile, spawns>>
    BY <2>3
  <2>4. QED
    BY <1>4, <2>1, <2>2, <2>3
    DEF RunnerStep, RunnerProgress, HandshakeTimeout, InstallHandler,
        ChildExits, ExitRunner, KillRunner
<1>5. ASSUME NEW i \in Jobs, LaunchMove(i)
      PROVE  \/ UNCHANGED <<stateFile, spawns>>
             \/ LaunchSpawn(i) \/ LaunchWriteState(i)
  BY <1>5 DEF LaunchMove, LaunchStart, LaunchFetch, runnerVars
<1>6. ASSUME NEW i \in Jobs, StopSignal(i)
      PROVE  UNCHANGED <<stateFile, spawns>>
  BY <1>6 DEF StopSignal, Terminate, runnerVars
<1>7. IInv
  BY DEF KInv
<1>8. CASE WorkerStep
  BY <1>4, <1>8 DEF WorkerStep
<1>9. CASE CalmStep \/ CarryStep \/ \E S \in SUBSET Jobs : Run(S)
  BY <1>2, <1>9 DEF CalmStep, CarryStep, Run, runnerVars
<1>10. QED
  BY <1>2, <1>3, <1>5, <1>6, <1>7, <1>8, <1>9, NextControl

LEMMA SpawnPlace ==
  ASSUME KInv, [Next]_vars, NEW j \in Jobs, spawns[j] = 0, spawns'[j] > 0
  PROVE  thread[Launcher(j)].pc \in Placing
<1>1. /\ spawns \in [Jobs -> Nat]
      /\ IInv
  BY DEF KInv, IInv, TypeOK, RunnerTypeOK
<1>2. ASSUME NEW i \in Jobs, RunnerStep(i)
      PROVE  spawns' = spawns
  BY <1>2
  DEF RunnerStep, RunnerProgress, Handshake, HandshakeTimeout, InstallHandler,
      ChildExits, RecordOutcome, ExitRunner, KillRunner
<1>3. ASSUME NEW i \in Jobs, LaunchMove(i)
      PROVE  spawns' = spawns \/ LaunchSpawn(i)
  BY <1>3
  DEF LaunchMove, LaunchStart, LaunchFetch, LaunchWriteState,
      WriteStartingFile, runnerVars
<1>4. PICK i \in Jobs : LaunchSpawn(i)
  <2>1. spawns' # spawns
    OBVIOUS
  <2>2. ~(CalmStep \/ CarryStep \/ (\E S \in SUBSET Jobs : Run(S))
            \/ \E i \in Jobs : StopSignal(i))
    BY <2>1 DEF CalmStep, CarryStep, Run, StopSignal, Terminate, runnerVars
  <2>3. ~WorkerStep
    BY <1>2, <2>1 DEF WorkerStep
  <2>4. QED
    BY <1>1, <1>3, <2>1, <2>2, <2>3, NextControl
<1>5. i = j
  BY <1>1, <1>4 DEF LaunchSpawn, Spawn
<1>6. QED
  BY <1>4, <1>5 DEF LaunchSpawn, Placing

LEMMA JobsKept ==
  ASSUME KInv, [Next]_vars, NEW j \in Jobs
  PROVE  JobInv(j)'
<1> DEFINE old == thread[Launcher(j)]
           new == thread'[Launcher(j)]
<1>1. /\ JobInv(j)
      /\ LifeStep(j)
      /\ LauncherGoes(j)
      /\ WatcherGoes(j)
      /\ LaunchInv(j)
      /\ events[j] \in Seq(States)
  BY JobLives, LauncherMoves, WatcherMoves
  DEF KInv, IInv, TypeOK, StoreTypeOK
<1>2. /\ stopping'[j] \in {stopping[j], NoRow, row[j]}
      /\ j \in pending' => j \in pending \/ Exists(j)
  BY ListsKept
<1>3. row'[j].state = "none" =>
        row'[j] = NoRow /\ stopping'[j] = NoRow /\ j \notin pending'
  <2>1. row'[j].state = "none" => row'[j] = row[j]
    BY <1>1, RowsForward
  <2>2. row[j].state = "none" => ~Exists(j)
    BY DEF Exists, States, TerminalStates
  <2>3. QED
    BY <1>1, <1>2, <2>1, <2>2 DEF JobInv
<1>4. ASSUME row'[j].state \in {"none", "queued"}
      PROVE  /\ new.pc \in {"idle", "start"}
             /\ stateFile'[j] = "missing"
             /\ row'[j].cols = {}
             /\ stopping'[j].cols = {}
  <2>1. /\ row[j].state \in {"none", "queued"}
        /\ row'[j] \in {row[j], QueuedRow}
    BY <1>1, <1>4, RowsForward DEF NoRow
  <2>2. /\ old.pc \in {"idle", "start"}
        /\ stateFile[j] = "missing"
        /\ row[j].cols = {}
        /\ stopping[j].cols = {}
    BY <1>1, <2>1 DEF JobInv
  <2>3. stateFile'[j] = "missing"
    BY <2>2, Untouched DEF Placing
  <2>4. new.pc \in {"idle", "start"}
    <3>1. ~(LaunchStart(j) /\ new.pc = "fetch")
      <4>1. ASSUME LaunchStart(j), new.pc = "fetch"
            PROVE  row'[j].state = "starting"
        <5>1. row[j].state = "queued"
          BY <4>1, PlaceFields, ThreadNames
          DEF LaunchStart, Finish, KInv, IInv, TypeOK
        <5>2. QED
          BY <4>1, <5>1
          DEF LaunchStart, UpdateJob, UpdatedRow, Dropped, IsTerminal,
              TerminalStates, KInv, IInv, TypeOK, StoreTypeOK
      <4>2. QED
        BY <1>4, <4>1
    <3>2. QED
      BY <1>1, <2>2, <3>1, AtFields DEF LauncherGoes
  <2>5. QED
    BY <1>2, <2>1, <2>2, <2>3, <2>4 DEF NoRow, QueuedRow
<1>5. ASSUME new.pc = "start"
      PROVE  row'[j].state \notin Active
  <2>1. CASE new = old
    <3>1. row[j].state \notin Active
      BY <1>1, <1>5, <2>1 DEF JobInv
    <3>2. ~LaunchStart(j)
      BY <1>5, <2>1, PlaceFields, ThreadNames
      DEF LaunchStart, Goto, Finish, KInv, IInv, TypeOK, Thread
    <3>3. QED
      BY <1>1, <3>1, <3>2
      DEF LifeStep, Active, TerminalStates, QueuedRow, ForgottenRow
  <2>2. QED
    BY <1>1, <1>5, <2>1 DEF LauncherGoes, QueuedRow, Active
<1>6. /\ new.pc # "idle" => new.job = j
      /\ thread'[Watcher(j)].pc # "idle" => thread'[Watcher(j)].job = j
  BY <1>1, AtFields DEF JobInv, LauncherGoes, WatcherGoes
<1>7. ASSUME Exists(j)', spawns'[j] > 0 \/ new.pc \in Placing
      PROVE  Started(j)'
  <2>1. CASE Started(j) /\ Exists(j)
    <3>1. \/ events'[j] = events[j]
          \/ \E s \in States : events'[j] = Append(events[j], s)
      BY <1>1, <1>7, <2>1
      DEF LifeStep, Exists, NoRow, ForgottenRow, States, TerminalStates, Active
    <3>2. PICK i \in 1 .. Len(events[j]) : events[j][i] = "starting"
      BY <2>1 DEF Started
    <3>3. i \in 1 .. Len(events'[j]) /\ events'[j][i] = "starting"
      BY <1>1, <3>1, <3>2
    <3>4. QED
      BY <3>3 DEF Started
  <2>2. CASE Exists(j) /\ ~Started(j)
    <3>1. spawns[j] = 0 /\ old.pc \notin Placing
      BY <1>1, <2>2 DEF JobInv, Placing, KInv, IInv, TypeOK, RunnerTypeOK
    <3>2. new.pc \in Placing
      BY <1>7, <3>1, SpawnPlace
    <3>3. events'[j] = Append(events[j], "starting")
      BY <1>1, <3>1, <3>2, AtFields DEF LauncherGoes, Placing
    <3>4. /\ Len(events[j]) + 1 \in 1 .. Len(events'[j])
          /\ events'[j][Len(events[j]) + 1] = "starting"
      BY <1>1, <3>3
    <3>5. QED
      BY <3>4 DEF Started
  <2>3. CASE ~Exists(j)
    <3>1. row[j] = NoRow /\ row'[j] = QueuedRow
      BY <1>1, <1>7, <2>3
      DEF LifeStep, Exists, ForgottenRow, States, TerminalStates, Active
    <3>2. spawns[j] = 0 /\ old.pc \notin Placing
      BY <1>1, <3>1 DEF LaunchInv, Launching, Placing
    <3>3. spawns'[j] = 0
      BY <3>2, SpawnPlace, NextType DEF KInv, IInv, TypeOK, RunnerTypeOK
    <3>4. new.pc \in {"idle", "start"}
      BY <1>4, <3>1 DEF QueuedRow
    <3>5. QED
      BY <1>7, <3>3, <3>4 DEF Placing
  <2>4. QED
    BY <2>1, <2>2, <2>3
<1>8. QED
  BY <1>3, <1>4, <1>5, <1>6, <1>7 DEF JobInv, Placing

LEMMA KInit == Init => KInv
<1> SUFFICES ASSUME Init
             PROVE  KInv
  OBVIOUS
<1>1. IInv
  BY InvInit
<1>2. \A t \in Threads : thread[t].pc = "idle" /\ thread[t].seen = "queued"
  BY DEF Init, Idle
<1>3. ASSUME NEW j \in Jobs
      PROVE  JobInv(j)
  <2>1. /\ row[j] = NoRow /\ stopping[j] = NoRow /\ j \notin pending
        /\ stateFile[j] = "missing"
    BY DEF Init, StoreInit, RunnerInit
  <2>2. /\ thread[Launcher(j)].pc = "idle"
        /\ thread[Watcher(j)].pc = "idle"
    BY <1>2, ThreadNames
  <2>3. ~Exists(j)
    BY <2>1 DEF NoRow, Exists, States, TerminalStates
  <2>4. QED
    BY <2>1, <2>2, <2>3 DEF JobInv, NoRow, Active
<1>4. \A t \in Threads : ThreadInv(t)
  BY <1>2 DEF ThreadInv, InFlight, TerminalStates
<1>5. QED
  BY <1>1, <1>3, <1>4 DEF KInv

LEMMA KNext == KInv /\ [Next]_vars => KInv'
<1> SUFFICES ASSUME KInv, [Next]_vars
             PROVE  KInv'
  OBVIOUS
<1>1. IInv'
  BY InvNext DEF KInv
<1>2. QED
  BY <1>1, JobsKept, ThreadsKnow DEF KInv

LEMMA KInvariance == Spec => []KInv
<1>1. QED
  BY KInit, KNext, PTL DEF Spec

\* A worker is only ever started for a job whose record went through
\* "starting": a job that was stopped, or given up, while it was queued never
\* gets a process, whatever thread wrote the end of it.
THEOREM StartedJobsRun == Spec => []OnlyStartedJobsRun
<1>1. KInv => OnlyStartedJobsRun
  BY DEF KInv, JobInv, OnlyStartedJobsRun, Started
<1>2. QED
  BY <1>1, KInvariance, PTL

-----------------------------------------------------------------------------
(* The broker implements the lifecycle.                                    *)

LifeState == [j \in Jobs |-> row[j].state]

LEMMA LifeInit == Init => Lifecycle!Init
BY DEF Init, StoreInit, NoRow, Lifecycle!Init

\* An update moves one job along the lifecycle.
LEMMA UpdateLives ==
  ASSUME KInv, [Next]_vars, NEW i \in Jobs, Updates(i)
  PROVE  \/ LifeState' = LifeState
         \/ /\ LifeState' = [LifeState EXCEPT ![i] = row'[i].state]
            /\ \/ row[i].state = "queued" /\ row'[i].state = "starting"
               \/ /\ row[i].state = "queued"
                  /\ row'[i].state \in {"interrupted", "unknown"}
               \/ /\ row[i].state \in Active
                  /\ row'[i].state \in Active \cup TerminalStates
<1>1. row \in [Jobs -> Row] /\ LifeStep(i)
  BY JobLives DEF KInv, IInv, TypeOK, StoreTypeOK
<1>2. PICK s \in States :
        /\ Exists(i)
        /\ \/ UNCHANGED row
           \/ /\ row' = [row EXCEPT ![i] = row'[i]]
              /\ row'[i].state = s
  BY <1>1 DEF Updates, UpdateJob, UpdatedRow
<1>3. CASE UNCHANGED row
  BY <1>3 DEF LifeState
<1>4. CASE /\ row' = [row EXCEPT ![i] = row'[i]]
           /\ row'[i].state = s
  <2>1. LifeState' = [LifeState EXCEPT ![i] = row'[i].state]
    BY <1>1, <1>4 DEF LifeState
  <2>2. row[i].state # "none" /\ row'[i].state # "forgotten"
    BY <1>2, <1>4 DEF Exists, States, TerminalStates
  <2>3. CASE row'[i].state = row[i].state
    BY <2>1, <2>3 DEF LifeState
  <2>4. QED
    BY <1>1, <2>1, <2>2, <2>3 DEF LifeStep, NoRow, ForgottenRow
<1>5. QED
  BY <1>2, <1>3, <1>4

LEMMA LifeNext ==
  ASSUME KInv, [Next]_vars
  PROVE  [Lifecycle!Next]_LifeState
<1> USE DEF LifeState
<1>1. CASE UNCHANGED <<row, events>>
  BY <1>1
<1>2. ASSUME NEW S \in SUBSET Jobs, Run(S)
      PROVE  Lifecycle!Next
  <2>1. Lifecycle!Queue(S)
    BY <1>2 DEF Run, CreateLaunch, NoRow, QueuedRow, Lifecycle!Queue
  <2>2. QED
    BY <2>1 DEF Lifecycle!Next
<1>3. ASSUME NEW S \in SUBSET Jobs, Forget(S)
      PROVE  Lifecycle!Next
  <2>1. Lifecycle!Forget(S)
    BY <1>3
    DEF Forget, ForgetJobs, ForgottenRow, IsTerminal, TerminalStates,
        Lifecycle!Forget, Lifecycle!Ended
  <2>2. QED
    BY <2>1 DEF Lifecycle!Next
<1>4. ASSUME NEW i \in Jobs, Updates(i)
      PROVE  [Lifecycle!Next]_LifeState
  <2>1. CASE LifeState' = LifeState
    BY <2>1
  <2>2. CASE /\ LifeState' = [LifeState EXCEPT ![i] = row'[i].state]
             /\ row[i].state = "queued" /\ row'[i].state = "starting"
    <3>1. Lifecycle!Start(i)
      BY <2>2 DEF Lifecycle!Start
    <3>2. QED
      BY <3>1 DEF Lifecycle!Next
  <2>3. CASE /\ LifeState' = [LifeState EXCEPT ![i] = row'[i].state]
             /\ row[i].state = "queued"
             /\ row'[i].state \in {"interrupted", "unknown"}
    <3>1. Lifecycle!Abandon(i)
      BY <2>3 DEF Lifecycle!Abandon
    <3>2. QED
      BY <3>1 DEF Lifecycle!Next
  <2>4. CASE /\ LifeState' = [LifeState EXCEPT ![i] = row'[i].state]
             /\ row[i].state \in Active
             /\ row'[i].state \in Active \cup TerminalStates
    <3>1. Lifecycle!Observe(i) \/ Lifecycle!End(i)
      BY <2>4
      DEF Lifecycle!Observe, Lifecycle!End, Lifecycle!Observed,
          Lifecycle!Ended, Active, TerminalStates
    <3>2. QED
      BY <3>1 DEF Lifecycle!Next
  <2>5. QED
    BY <1>4, <2>1, <2>2, <2>3, <2>4, UpdateLives
<1>5. QED
  BY <1>1, <1>2, <1>3, <1>4, NextWrites DEF Writing, KInv, IInv

\* The broker implements the lifecycle it promises: whatever threads, clients,
\* workers and crashes do, each job is queued once, is never started again once
\* it left the queue, ends in exactly one terminal state and is forgotten only
\* after that; every step of the broker is such a step or leaves all job
\* states alone.
THEOREM LifecycleImplemented == Spec => LifecycleSpec
<1>1. KInv /\ [Next]_vars => [Lifecycle!Next]_LifeState
  BY LifeNext
<1>2. QED
  BY <1>1, LifeInit, KInvariance, PTL
  DEF Spec, LifecycleSpec, Lifecycle!Spec, LifeState

\* An outcome is final: once a record is terminal, no step of any thread, worker,
\* client or crash gives the job another state, except that it is forgotten; and
\* a job that was forgotten stays so (update_job drops what would contradict it).
THEOREM OutcomesStay ==
  Spec => [][\A j \in Jobs : row[j].state \in Ended =>
               row'[j].state \in {row[j].state, "forgotten"}]_row
<1>1. ASSUME KInv, [Next]_vars, NEW j \in Jobs, row[j].state \in Ended
      PROVE  row'[j].state \in {row[j].state, "forgotten"}
  <2>1. LifeState[j] = row[j].state /\ LifeState'[j] = row'[j].state
    BY DEF LifeState
  <2>2. CASE LifeState' = LifeState
    BY <2>1, <2>2
  <2>3. CASE Lifecycle!Next
    <3>1. ASSUME NEW i \in Jobs, \/ Lifecycle!Start(i) \/ Lifecycle!Observe(i)
                                \/ Lifecycle!Abandon(i) \/ Lifecycle!End(i)
          PROVE  LifeState'[j] = LifeState[j]
      <4>1. LifeState[i] \notin Ended
        BY <3>1
        DEF Lifecycle!Start, Lifecycle!Observe, Lifecycle!Abandon, Lifecycle!End,
            Lifecycle!Observed, Ended, TerminalStates, LifeState
      <4>2. i # j
        BY <1>1, <2>1, <4>1
      <4>3. QED
        BY <3>1, <4>2
        DEF Lifecycle!Start, Lifecycle!Observe, Lifecycle!Abandon, Lifecycle!End, LifeState
    <3>2. ASSUME NEW S \in SUBSET Jobs, Lifecycle!Queue(S) \/ Lifecycle!Forget(S)
          PROVE  LifeState'[j] \in {LifeState[j], "forgotten"}
      BY <1>1, <2>1, <3>2
      DEF Lifecycle!Queue, Lifecycle!Forget, LifeState, Ended, TerminalStates
    <3>3. QED
      BY <2>1, <2>3, <3>1, <3>2 DEF Lifecycle!Next
  <2>4. QED
    BY <1>1, <2>2, <2>3, LifeNext
<1>2. KInv /\ [Next]_vars =>
        [\A j \in Jobs : row[j].state \in Ended =>
           row'[j].state \in {row[j].state, "forgotten"}]_row
  BY <1>1
<1>3. QED
  BY <1>2, KInvariance, PTL DEF Spec

-----------------------------------------------------------------------------
(* Nobody forgets a job.                                                   *)
(*                                                                         *)
(* As long as no store or provider call raises, a job that is starting or  *)
(* running is in somebody's care: its launch thread, its watcher, or the   *)
(* recovery loop that has still to come to it.  A watcher leaves only a    *)
(* job that has ended, and who hands a job over starts a watcher or finds  *)
(* one that has not left.                                                  *)

Watched(j) == thread[Watcher(j)].pc \notin {"idle", "giveUp", "pop"}

InCare(j) == \/ thread[Launcher(j)].pc # "idle"
             \/ Watched(j)
             \/ j \in pending
             \/ Busy(Recovery) /\ thread[Recovery].job = j

CareInv(j) ==
  /\ thread[Watcher(j)].pc \in {"giveUp", "pop"} => row[j].state \in Ended
  /\ daemon # "down" /\ row[j].state \in Active => InCare(j)

DaemonInv ==
  /\ daemon = "up" => pending = {} /\ thread[Recovery].pc = "idle"
  /\ daemon = "down" => thread[Recovery].pc = "idle" /\ crashes > 0

CInv == KInv /\ DaemonInv /\ \A j \in Jobs : CareInv(j)

LEMMA DaemonMoves ==
  ASSUME [Next]_vars
  PROVE  /\ UNCHANGED <<daemon, crashes>> \/ Crash \/ Restart \/ RecoverEnd
         /\ \/ UNCHANGED pending \/ Crash \/ Restart
            \/ \E j \in Jobs : RecoverNext(j)
<1>1. CASE ThreadStep
  BY <1>1
  DEF ThreadStep, LaunchStep, LaunchStart, LaunchFetch, LaunchSpawn,
      LaunchSpawnFails, LaunchWriteState, LaunchSettle, LaunchFailRead,
      LaunchFailWrite, ObserveStep, ReadJob, ReadFile, CheckProcess, ApplyRead,
      ApplyCommit, RecordEvidence, WatchStep, WatchSettle, WatchGiveUp,
      WatchPop, LoopSettle, ShowSettle, StopStep, StopUnlaunched, StopSignal,
      StopEnd, RecoverStep, RecoverNext, RecoverFail, RecoverEnd, control
<1>2. CASE CallStep
  BY <1>2 DEF CallStep, Run, StopBegin, Forget, ShowFresh, Call, control
<1>3. CASE FaultStep
  BY <1>3 DEF FaultStep, CallFails, LastCallFails, control
<1>4. CASE WorkerStep \/ UNCHANGED vars
  BY <1>4 DEF WorkerStep, vars, brokerVars
<1>5. QED
  BY <1>1, <1>2, <1>3, <1>4 DEF Next

\* What moves the recovery thread when nothing raises of itself.
LEMMA RecoveryMoves ==
  ASSUME ~Faults, Moves(Recovery)
  PROVE  \/ thread'[Recovery] = thread[Recovery]
         \/ ObserveStep(Recovery)
         \/ LoopSettle(Recovery)
         \/ RecoverStep
         \/ Restart
         \/ Crash
<1>1. /\ \A j \in Jobs : Recovery # Launcher(j) /\ Recovery # Watcher(j)
      /\ \A c \in Callers : Recovery # Show(c)
      /\ Recovery # Stopper
  BY DEF Recovery, Launcher, Watcher, Show, Stopper
<1>2. ~Woken(Recovery) /\ ~Sent(Recovery)
  BY <1>1 DEF Woken, Sent
<1>3. QED
  BY <1>1, <1>2 DEF Moves, OwnStep, CallFails, LastCallFails

LEMMA DaemonKept ==
  ASSUME ~Faults, CInv, [Next]_vars
  PROVE  DaemonInv'
<1>1. /\ Recovery \in Threads
      /\ thread \in [Threads -> Thread]
      /\ crashes \in Nat
      /\ DaemonInv
  BY ThreadNames DEF CInv, KInv, IInv, TypeOK
<1>2. CASE Crash
  BY <1>1, <1>2, PlaceFields DEF Crash, DaemonInv
<1>3. CASE Restart
  BY <1>3 DEF Restart, DaemonInv
<1>4. CASE RecoverEnd
  BY <1>1, <1>4, PlaceFields DEF RecoverEnd, Finish, DaemonInv
<1>5. CASE /\ UNCHANGED <<daemon, crashes>>
           /\ daemon \in {"up", "down"}
           /\ ~Crash /\ ~Restart
  <2>1. thread[Recovery].pc = "idle"
    BY <1>1, <1>5 DEF DaemonInv
  <2>2. ~ObserveStep(Recovery) /\ ~LoopSettle(Recovery) /\ ~RecoverStep
    BY <2>1
    DEF ObserveStep, ReadJob, ReadFile, CheckProcess, ApplyRead, ApplyCommit,
        RecordEvidence, LoopSettle, RecoverStep, RecoverNext, RecoverFail,
        RecoverEnd
  <2>3. thread'[Recovery] = thread[Recovery]
    BY <1>1, <1>5, <2>2, Movers, RecoveryMoves DEF CInv
  <2>4. UNCHANGED pending
    BY <1>5, <2>1, DaemonMoves DEF RecoverNext
  <2>5. QED
    BY <1>1, <1>5, <2>1, <2>3, <2>4 DEF DaemonInv
<1>6. CASE UNCHANGED daemon /\ daemon \notin {"up", "down"}
  BY <1>6 DEF DaemonInv
<1>7. QED
  BY <1>2, <1>3, <1>4, <1>5, <1>6, DaemonMoves

\* A watcher leaves only a job that has ended.
LEMMA WatcherLeaves ==
  ASSUME ~Faults, CInv, [Next]_vars, NEW j \in Jobs,
         thread'[Watcher(j)].pc \in {"giveUp", "pop"}
  PROVE  row'[j].state \in Ended
<1> DEFINE t == Watcher(j)
<1>1. /\ t \in Threads
      /\ KInv'
      /\ CareInv(j)
      /\ JobInv(j)
      /\ ThreadInv(t)
      /\ LifeStep(j)
      /\ WatcherGoes(j)
      /\ row' \in [Jobs -> Row]
  BY ThreadNames, KNext, JobLives, WatcherMoves
  DEF CInv, KInv, IInv, TypeOK, StoreTypeOK
<1>2. CASE row[j].state \in Ended
  BY <1>1, <1>2, RowsForward
<1>3. CASE thread'[t] = thread[t] \/ WatchGiveUp(j)
  BY <1>1, <1>2, <1>3 DEF CareInv, WatchGiveUp
<1>4. CASE WatchSettle(j) /\ thread[t].seen \in TerminalStates
  BY <1>1, <1>2, <1>4 DEF ThreadInv, JobInv, WatchSettle
<1>5. CASE /\ thread'[t].pc = "giveUp"
           /\ thread'[t].job = j
           /\ ~Exists(j)
           /\ UNCHANGED row
  <2>1. row'[j].state # "none"
    BY <1>1, <1>5 DEF KInv, ThreadInv
  <2>2. row'[j].state \notin States
    BY <1>5 DEF Exists
  <2>3. QED
    BY <1>1, <2>1, <2>2 DEF Row, Ended, States, TerminalStates
<1>6. QED
  BY <1>1, <1>3, <1>4, <1>5 DEF WatcherGoes

\* Who hands a job over that has not ended leaves it with a watcher.
LEMMA HandedOver ==
  ASSUME CInv, NEW j \in Jobs, row[j].state \in Active, NEW t \in Threads,
         t # Watcher(j), NEW value,
         thread' = WatchUnlessEnded([thread EXCEPT ![t] = value], j,
                                    row[j].state)
  PROVE  Watched(j)'
<1>1. /\ Watcher(j) \in Threads
      /\ thread \in [Threads -> Thread]
      /\ thread[Watcher(j)].pc \notin {"giveUp", "pop"}
  BY ThreadNames DEF CInv, KInv, IInv, TypeOK, CareInv, Ended, Active,
                     TerminalStates
<1>2. thread' = WithWatcher([thread EXCEPT ![t] = value], j)
  BY DEF WatchUnlessEnded, Active, TerminalStates
<1>3. CASE thread[Watcher(j)].pc = "idle"
  BY <1>1, <1>2, <1>3, AtFields DEF WithWatcher, Watched
<1>4. CASE thread[Watcher(j)].pc # "idle"
  BY <1>1, <1>2, <1>4 DEF WithWatcher, Watched
<1>5. QED
  BY <1>3, <1>4

LEMMA LauncherLeaves ==
  ASSUME ~Faults, CInv, [Next]_vars, ~Crash, NEW j \in Jobs,
         row[j].state \in Active, thread[Launcher(j)].pc # "idle",
         thread'[Launcher(j)].pc = "idle"
  PROVE  Watched(j)' \/ row'[j].state \notin Active
<1> DEFINE t == Launcher(j)
<1>1. /\ t \in Threads
      /\ thread \in [Threads -> Thread]
      /\ row \in [Jobs -> Row]
      /\ TypeOK
      /\ JobInv(j)
      /\ Moves(t)
      /\ Exists(j)
      /\ row[j].state \notin {"queued", "failed"}
      /\ t # Watcher(j)
  BY ThreadNames, Movers
  DEF CInv, KInv, IInv, TypeOK, StoreTypeOK, Active, Exists, States, Launcher,
      Watcher
<1>2. ~Sent(t) /\ ~CallFails(t) /\ ~LastCallFails(t)
  <2>1. ASSUME Sent(t)
        PROVE  FALSE
    <3>1. PICK S \in SUBSET Jobs : Run(S) /\ \E i \in S : t = Launcher(i)
      BY <2>1 DEF Sent
    <3>2. thread'[t] = At("start", t[2])
      BY <1>1, <3>1 DEF Run
    <3>3. QED
      BY <3>2, AtFields
  <2>2. QED
    BY <2>1 DEF CallFails, LastCallFails
<1>3. CASE ObserveStep(t)
  <2>1. t \in Launchers /\ t \notin Watchers \cup Shows
          /\ t \notin {Stopper, Recovery}
    BY DEF Launchers, Watchers, Shows, Launcher, Watcher, Show, Stopper, Recovery
  <2>2. Raise(t) => thread'[t].pc = "failRead"
    BY <1>1, <2>1, AtFields DEF Raise
  <2>3. QED
    BY <1>1, <1>3, <2>2, ObserverGoes
<1>4. CASE LaunchStep(j)
  <2>1. ~LaunchStart(j)
    BY <1>1 DEF LaunchStart, JobInv
  <2>2. CASE Raise(t)
    <3>1. t \in Launchers /\ t \notin Watchers \cup Shows
            /\ t \notin {Stopper, Recovery}
      BY DEF Launchers, Watchers, Shows, Launcher, Watcher, Show, Stopper,
             Recovery
    <3>2. thread'[t].pc = "failRead"
      BY <1>1, <2>2, <3>1, AtFields DEF Raise
    <3>3. QED
      BY <3>2
  <2>3. CASE \E pc \in {"spawn", "identify", "failWrite"} : Goto(t, pc)
    BY <1>1, <2>3 DEF Goto, Thread
  <2>4. CASE LaunchWriteState(j)
    BY <1>1, <2>4 DEF LaunchWriteState, Thread
  <2>5. CASE LaunchSettle(j)
    BY <1>1, <2>5, HandedOver DEF LaunchSettle
  <2>6. CASE LaunchFailWrite(j)
    <3>1. row'[j].state = "failed" \/ IsTerminal(j)
      BY <1>1, <2>6 DEF LaunchFailWrite, UpdateJob, UpdatedRow, Dropped
    <3>2. QED
      BY <3>1 DEF IsTerminal, TerminalStates, Active
  <2>7. QED
    BY <1>1, <1>4, <2>1, <2>2, <2>3, <2>4, <2>5, <2>6
    DEF LaunchStep, LaunchFetch, LaunchSpawn, LaunchSpawnFails, LaunchFailRead
<1>5. QED
  BY <1>1, <1>2, <1>3, <1>4, OwnOfJob

LEMMA RecoveryLeaves ==
  ASSUME ~Faults, CInv, [Next]_vars, ~Crash, ~Restart, NEW j \in Jobs,
         row[j].state \in Active, Busy(Recovery), thread[Recovery].job = j
  PROVE  \/ Watched(j)'
         \/ row'[j].state \notin Active
         \/ Busy(Recovery)' /\ thread'[Recovery].job = j
<1> DEFINE t == Recovery
<1>1. /\ t \in Threads
      /\ thread \in [Threads -> Thread]
      /\ row \in [Jobs -> Row]
      /\ TypeOK
      /\ ThreadInv(t)
      /\ Moves(t)
      /\ t # Watcher(j)
  BY ThreadNames, Movers
  DEF CInv, KInv, IInv, TypeOK, StoreTypeOK, Recovery, Watcher
<1>2. CASE thread'[t] = thread[t]
  BY <1>2 DEF Busy
<1>3. CASE ObserveStep(t)
  <2>1. t \notin Launchers \cup Watchers \cup Shows /\ t # Stopper
    BY DEF Launchers, Watchers, Shows, Launcher, Watcher, Show, Stopper, Recovery
  <2>2. CASE Raise(t)
    <3>1. Goto(t, "recoverFail")
      BY <2>1, <2>2 DEF Raise
    <3>2. thread'[t].pc = "recoverFail" /\ thread'[t].job = j
      BY <1>1, <3>1 DEF Goto, Thread
    <3>3. QED
      BY <3>2 DEF Busy
  <2>3. QED
    BY <1>1, <1>3, <2>2, ObserverGoes DEF Busy
<1>4. CASE LoopSettle(t)
  <2>1. thread[t].seen \notin TerminalStates
    BY <1>1 DEF ThreadInv, Ended, Active, TerminalStates
  <2>2. thread' = WatchUnlessEnded([thread EXCEPT ![t] = At("next", NoJob)], j,
                                   row[j].state)
    BY <1>4, <2>1 DEF LoopSettle, WatchUnlessEnded, Active, TerminalStates
  <2>3. QED
    BY <1>1, <2>2, HandedOver
<1>5. CASE RecoverStep
  <2>1. RecoverFail
    BY <1>5 DEF RecoverStep, RecoverNext, RecoverEnd, Busy
  <2>2. row'[j].state = "unknown" \/ IsTerminal(j)
    BY <1>1, <2>1 DEF RecoverFail, UpdateJob, UpdatedRow, Dropped
  <2>3. QED
    BY <2>2 DEF IsTerminal, TerminalStates, Active
<1>6. QED
  BY <1>1, <1>2, <1>3, <1>4, <1>5, RecoveryMoves

LEMMA CareKept ==
  ASSUME ~Faults, CInv, [Next]_vars, NEW j \in Jobs
  PROVE  CareInv(j)'
<1>1. /\ Launcher(j) \in Threads
      /\ Recovery \in Threads
      /\ thread \in [Threads -> Thread]
      /\ KInv
      /\ DaemonInv
      /\ CareInv(j)
      /\ LifeStep(j)
      /\ LauncherGoes(j)
      /\ WatcherGoes(j)
  BY ThreadNames, JobLives, LauncherMoves, WatcherMoves
  DEF CInv, KInv, IInv, TypeOK
<1>2. thread'[Watcher(j)].pc \in {"giveUp", "pop"} => row'[j].state \in Ended
  BY WatcherLeaves
<1>3. ASSUME daemon' # "down", row'[j].state \in Active
      PROVE  InCare(j)'
  <2>1. ~Crash
    BY <1>3 DEF Crash
  <2>2. CASE Restart
    <3>1. row[j].state \in Active
      BY <1>3, <2>2 DEF Restart, storeVars
    <3>2. j \in pending'
      BY <2>2, <3>1
      DEF Restart, NonterminalJobs, Exists, IsTerminal, Active, States,
          TerminalStates
    <3>3. QED
      BY <3>2 DEF InCare
  <2>3. CASE ~Restart /\ row[j].state \notin Active
    <3>1. LaunchStart(j) /\ row[j].state = "queued"
      BY <1>1, <1>3, <2>3
      DEF LifeStep, Active, QueuedRow, ForgottenRow, TerminalStates
    <3>2. thread'[Launcher(j)].pc = "fetch"
      BY <1>1, <3>1 DEF LaunchStart, Goto, Thread
    <3>3. QED
      BY <3>2 DEF InCare
  <2>4. CASE ~Restart /\ row[j].state \in Active
    <3>1. daemon # "down"
      BY <1>1, <1>3, <2>1, <2>4, DaemonMoves DEF DaemonInv, RecoverEnd
    <3>2. CASE thread[Launcher(j)].pc # "idle"
      BY <1>3, <2>1, <2>4, <3>2, LauncherLeaves DEF InCare
    <3>3. CASE Watched(j)
      <4>1. thread'[Watcher(j)].pc \notin {"giveUp", "pop"}
        BY <1>2, <1>3 DEF Ended, Active, TerminalStates
      <4>2. QED
        BY <1>1, <2>1, <3>3, <4>1 DEF WatcherGoes, WatchPop, Watched, InCare
    <3>4. CASE j \in pending
      <4>1. \/ j \in pending'
            \/ RecoverNext(j)
        BY <2>1, <2>4, <3>4, DaemonMoves DEF RecoverNext
      <4>2. CASE RecoverNext(j)
        BY <1>1, <4>2, AtFields DEF RecoverNext, InCare, Busy
      <4>3. QED
        BY <4>1, <4>2 DEF InCare
    <3>5. CASE Busy(Recovery) /\ thread[Recovery].job = j
      BY <1>3, <2>1, <2>4, <3>5, RecoveryLeaves DEF InCare
    <3>6. QED
      BY <1>1, <2>4, <3>1, <3>2, <3>3, <3>4, <3>5 DEF CareInv, InCare
  <2>5. QED
    BY <2>2, <2>3, <2>4
<1>4. QED
  BY <1>2, <1>3 DEF CareInv

LEMMA CInit == Init => CInv
<1> SUFFICES ASSUME Init
             PROVE  CInv
  OBVIOUS
<1>1. \A t \in Threads : thread[t].pc = "idle"
  BY PlaceFields DEF Init
<1>2. DaemonInv
  BY <1>1, ThreadNames DEF Init, DaemonInv
<1>3. \A j \in Jobs : CareInv(j)
  BY <1>1, ThreadNames DEF Init, StoreInit, NoRow, CareInv, Active
<1>4. QED
  BY <1>2, <1>3, KInit DEF CInv

LEMMA CNext == ~Faults /\ CInv /\ [Next]_vars => CInv'
BY KNext, DaemonKept, CareKept DEF CInv

\* As long as no store or provider call raises, a job that is starting or
\* running is looked after while the daemon serves calls: its launch thread is
\* at work, or its watcher is and will observe it again; no race of launch,
\* watch, show, stop and recovery leaves it to nobody.
THEOREM JobsWatched == ~Faults => (Spec => []NoJobUnwatched)
<1> SUFFICES ASSUME ~Faults
             PROVE  Spec => []NoJobUnwatched
  OBVIOUS
<1>1. CInv => NoJobUnwatched
  BY DEF CInv, CareInv, InCare, Watched, Busy, DaemonInv, NoJobUnwatched, Active
<1>2. CInv /\ [Next]_vars => CInv'
  BY CNext
<1>3. QED
  BY <1>1, <1>2, CInit, PTL DEF Spec

-----------------------------------------------------------------------------
(* The evidence of a success.                                              *)

Adding(t, j) == /\ thread[t].pc = "evidence"
                /\ thread[t].job = j
                /\ thread[t].obs.state = "succeeded"

\* Only a removal of the record takes evidence away.
LEMMA UsageKept ==
  ASSUME KInv, [Next]_vars, NEW j \in Jobs, usage[j]
  PROVE  usage'[j] \/ row'[j].state = "forgotten"
<1>1. usage \in [Jobs -> BOOLEAN]
  BY DEF KInv, IInv, TypeOK, StoreTypeOK
<1>2. ASSUME NEW i \in Jobs, LaunchStep(i) \/ WatchStep(i)
      PROVE  usage' = usage
  BY <1>2
  DEF LaunchStep, LaunchStart, LaunchFetch, LaunchSpawn, LaunchSpawnFails,
      LaunchWriteState, LaunchSettle, LaunchFailRead, LaunchFailWrite,
      WatchStep, WatchSettle, WatchGiveUp, WatchPop, UpdateJob, storeVars
<1>3. ASSUME NEW t \in Threads, ObserveStep(t)
      PROVE  usage' = usage \/ AddUsage(thread[t].job)
  BY <1>3
  DEF ObserveStep, ReadJob, ReadFile, CheckProcess, ApplyRead, ApplyCommit,
      RecordEvidence, UpdateJob, storeVars
<1>4. ASSUME NEW i, AddUsage(i)
      PROVE  usage'[j]
  BY <1>1, <1>4 DEF AddUsage
<1>5. CASE ThreadStep
  BY <1>2, <1>3, <1>4, <1>5
  DEF ThreadStep, LoopSettle, ShowSettle, StopStep, StopUnlaunched, StopSignal,
      StopEnd, RecoverStep, RecoverNext, RecoverFail, RecoverEnd, UpdateJob,
      storeVars
<1>6. ASSUME NEW S \in SUBSET Jobs, Forget(S)
      PROVE  usage'[j] \/ row'[j].state = "forgotten"
  BY <1>6 DEF Forget, ForgetJobs, ForgottenRow
<1>7. CASE CallStep
  BY <1>6, <1>7 DEF CallStep, Run, CreateLaunch, StopBegin, ShowFresh, storeVars
<1>8. CASE FaultStep \/ WorkerStep \/ Crash \/ Restart \/ UNCHANGED vars
  BY <1>8
  DEF FaultStep, CallFails, LastCallFails, WorkerStep, Crash, Restart, vars,
      storeVars
<1>9. QED
  BY <1>5, <1>7, <1>8 DEF Next

\* A thread that is about to add the evidence of a job is not diverted.
LEMMA AddingKept ==
  ASSUME ~Faults, CInv, [Next]_vars, crashes' = 0, NEW j \in Jobs,
         NEW t \in Threads, Adding(t, j), row[j].state = "succeeded"
  PROVE  Adding(t, j)' \/ usage'[j]
<1>1. /\ thread \in [Threads -> Thread]
      /\ usage \in [Jobs -> BOOLEAN]
      /\ crashes \in Nat
      /\ Moves(t)
      /\ DaemonInv
  BY Movers DEF CInv, KInv, IInv, TypeOK, StoreTypeOK
<1>2. ~Crash /\ ~Restart
  <2>1. ~Crash
    BY <1>1 DEF Crash
  <2>2. crashes = 0
    BY <1>1, <2>1, DaemonMoves DEF Restart, RecoverEnd
  <2>3. QED
    BY <1>1, <2>1, <2>2 DEF DaemonInv, Restart
<1>3. ~Sent(t)
  <2>1. ASSUME NEW S \in SUBSET Jobs, Run(S), NEW i \in S, t = Launcher(i)
        PROVE  FALSE
    <3>1. row[i] = NoRow /\ JobInv(i)
      BY <2>1 DEF Run, CreateLaunch, CInv, KInv
    <3>2. QED
      BY <2>1, <3>1 DEF JobInv, NoRow, Adding
  <2>2. QED
    BY <2>1 DEF Sent
<1>4. CASE ObserveStep(t)
  <2>1. RecordEvidence(t) /\ Exists(j)
    BY <1>4
    DEF ObserveStep, ReadJob, ReadFile, CheckProcess, ApplyRead, ApplyCommit,
        Adding, Exists, States, TerminalStates
  <2>2. AddUsage(j)
    BY <2>1 DEF RecordEvidence, Adding, ReportedOutcomes
  <2>3. QED
    BY <1>1, <2>2 DEF AddUsage
<1>5. CASE OwnStep(t) /\ ~ObserveStep(t)
  BY <1>2, <1>5
  DEF OwnStep, Adding, LaunchStep, LaunchStart, LaunchFetch, LaunchSpawn,
      LaunchSpawnFails, LaunchWriteState, LaunchSettle, LaunchFailRead,
      LaunchFailWrite, WatchStep, WatchSettle, WatchGiveUp, WatchPop,
      LoopSettle, ShowSettle, ShowFresh, StopStep, StopUnlaunched, StopSignal,
      StopEnd, StopBegin, RecoverStep, RecoverNext, RecoverFail, RecoverEnd,
      CallFails, LastCallFails
<1>6. QED
  BY <1>1, <1>2, <1>3, <1>4, <1>5 DEF Moves, Woken, Adding

\* Who records a success goes on to add its evidence.
LEMMA SuccessAdds ==
  ASSUME CInv, [Next]_vars, NEW j \in Jobs, row[j].state # "succeeded",
         row'[j].state = "succeeded"
  PROVE  \E t \in Threads : Adding(t, j)'
<1>1. /\ row \in [Jobs -> Row]
      /\ thread \in [Threads -> Thread]
      /\ TypeOK
  BY DEF CInv, KInv, IInv, TypeOK, StoreTypeOK
<1>2. Updates(j)
  <2>1. ASSUME NEW S \in SUBSET Jobs, Run(S) \/ Forget(S)
        PROVE  FALSE
    <3>1. row'[j] \in {row[j], QueuedRow, ForgottenRow}
      BY <2>1 DEF Run, CreateLaunch, Forget, ForgetJobs
    <3>2. QED
      BY <3>1 DEF QueuedRow, ForgottenRow
  <2>2. ASSUME NEW i \in Jobs, Updates(i)
        PROVE  i = j
    BY <1>1, <2>2 DEF Updates, UpdateJob
  <2>3. QED
    BY <1>1, <2>1, <2>2, NextWrites DEF Writing
<1>3. Writes(j, "succeeded")
  BY <1>1, <1>2 DEF Updates, UpdateJob, UpdatedRow
<1>4. PICK t \in Threads : /\ ApplyCommit(t)
                           /\ thread[t].job = j
                           /\ thread[t].obs.state = "succeeded"
  BY <1>3 DEF Writes
<1>5. "result" \in thread[t].obs.cols
  BY <1>4 DEF CInv, KInv, ThreadInv, ApplyCommit, InFlight
<1>6. Exists(j)
  BY <1>2 DEF Updates, UpdateJob
<1>7. thread'[t] = Applied(j, thread[t].obs, row'[j].state)
  BY <1>1, <1>4, <1>6 DEF ApplyCommit
<1>8. Adding(t, j)'
  BY <1>4, <1>5, <1>7 DEF Applied, HasEvidence, Adding
<1>9. QED
  BY <1>8

\* A success recorded by a daemon that never crashed has its usage evidence or
\* a thread that is about to add it, as long as no call raises: of two
\* observers of one outcome the one whose commit counts adds the evidence.
THEOREM EvidenceAdded == ~Faults => (Spec => []EvidenceFollows)
<1> SUFFICES ASSUME ~Faults
             PROVE  Spec => []EvidenceFollows
  OBVIOUS
<1>1. Init => EvidenceFollows
  BY DEF Init, StoreInit, NoRow, EvidenceFollows
<1>2. CInv /\ EvidenceFollows /\ [Next]_vars => EvidenceFollows'
  <2> SUFFICES ASSUME CInv, EvidenceFollows, [Next]_vars, NEW j \in Jobs,
                      crashes' = 0, row'[j].state = "succeeded", ~usage'[j]
               PROVE  \E t \in Threads : Adding(t, j)'
    BY DEF EvidenceFollows, Adding
  <2>1. CASE row[j].state # "succeeded"
    BY <2>1, SuccessAdds
  <2>2. CASE row[j].state = "succeeded"
    <3>1. ~usage[j]
      BY UsageKept DEF CInv
    <3>2. crashes = 0
      BY DaemonMoves DEF Crash, Restart, RecoverEnd, CInv, KInv, IInv, TypeOK
    <3>3. PICK t \in Threads : Adding(t, j)
      BY <2>2, <3>1, <3>2 DEF EvidenceFollows, Adding
    <3>4. QED
      BY <2>2, <3>3, AddingKept
  <2>3. QED
    BY <2>1, <2>2
<1>3. CInv /\ [Next]_vars => CInv'
  BY CNext
<1>4. QED
  BY <1>1, <1>2, <1>3, CInit, PTL DEF Spec

=============================================================================
