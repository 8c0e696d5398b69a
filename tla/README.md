# Overmind, specified

TLA+ specifications of Overmind v2, the durable local worker broker under
`src/skills/overmind-v2`, with TLC configurations that model-check them and
TLAPS proofs of all their safety properties.

## The system

The repository is a collection of agent skills. One of them, Overmind v2, is a
real concurrent system: a daemon that launches long-running worker processes,
watches them, survives crashes, and keeps a ledger of what happened. Most of
this project is about it. Its predecessor, the v1 lifecycle server, is specified
too. The other skills are prose, renderers and batch scripts (see *Not
modelled*).

| Component | State it keeps | Operations | Correct if |
| --- | --- | --- | --- |
| Store (`store.py`) | SQLite: jobs, groups, event ledger, artifacts, usage, idempotency keys | one transaction each: `create_launch`, `update_job`, `add_artifact`, `add_usage`, `forget_*`, `remember_idempotency`, and reads | terminality is monotonic; ledger and records agree; a key is answered once |
| Broker (`broker.py`) | watcher table, generation counter, destructive lock, in memory | `run`, `run-many`, `reply`, `show`, `await`, `collect`, `stop`, `forget`, recovery at start | one launch per job; no invented outcome; every live job is watched; every job ends; await loses nothing |
| Codex provider (`providers.py`) | none of its own; `codex-state.json` per job | `launch`, `reconcile`, `interrupt` | signals only its own worker; reports what the file says |
| Codex runner (`_codex_runner`) | one detached process, its `interrupted` flag, the state file | handshake, run `codex exec`, SIGTERM handler, record the outcome | the file names an outcome only once and truthfully |
| Claude provider | the Claude CLI's own job roster, state files and transcripts | `launch`, `reconcile` over grace, reap and settle timers, `interrupt` | the report of a worker is not lost, a success is earned, a silent worker is given up |
| Daemon (`daemon.py`) | lock file, socket file, client threads | singleton lock, recovery, accept loop, shutdown | one daemon serves a state directory and is found |
| Client (`client.py`), CLI (`cli.py`) | start lock | autostart, retry, `om restart`, `om orphans` | starts do not collide; a retried request is answered truly |
| MCP adapter (`mcp.py`) | table of pending calls, two thread pools | tool calls, cancel, end of input | a cancellation finds its call; awaits hold up nothing; it ends |
| Sessions (`sessions.py`) | one file per harness session | register, resolve by ancestry | a reused pid inherits nothing |
| v1 lifecycle (`overmind/mcp/overmind_lifecycle.py`) | a locked JSON file per job | spawn, follow-up, sync, interrupt, cleanup, runner | only its own runner is signalled; an ended job stays ended |

How they interact. A client's request becomes a thread of the daemon, which
calls the broker. `run` creates the records in one transaction, starts one
launch thread per job, and each launch ends by starting a watcher thread.
Watchers, `show --fresh`, `stop` and the recovery loop all *reconcile*: they
read the record, read the worker's state file, look whether its process lives,
and write the record. They share only the store; between two transactions any
of them may be overtaken by any other, by the worker, or by a crash of the
daemon. The worker survives the daemon and tells it nothing but through the
state file.

That is what makes the code hard: stale snapshots that are acted upon, two
observers committing out of order, a check of the process after a read of the
file, launches overtaken by stop or recovery, crashes between "spawned" and
"recorded", swallowed exceptions. `PROJECT.json` lists each hazard at its line
with the property that would catch it.

## Modules

| Module | Models | Shape |
| --- | --- | --- |
| `OvermindJobs` | job ids and groups | constants |
| `OvermindStore` | the jobs table, the lifecycle events, usage; the transactions | state and action operators, no `Next` of its own |
| `CodexRunner` | the detached runner process and its state file, and what the broker does to it | state and action operators |
| `OvermindBroker` | the broker's threads over the two, calls, faults, crash and recovery | the full specification, its properties and fairness |
| `JobLifecycle` | what the broker promises of each job | abstract specification, which `OvermindBroker` implements |
| `EventCursor` | `await`, the event ledger by cursor, the notification of waiters, a caller that takes in the progress or not, cancels, loses its connection and resumes | a full specification of its own, over what the broker commits |
| `RequestStore` | the idempotency table beside the jobs of one launch | operators on a store |
| `Service` | clients that start, use, restart and retry, and daemons that own a state directory in turn | a full specification over `RequestStore` |
| `ClaudeReconcile` | one job of the Claude provider and its observers | a full specification of its own |
| `McpServer` | the reader thread, the pools and the pending calls of the MCP adapter | a full specification of its own |
| `Sessions` | the registry of sessions, the owners of jobs, `om orphans` | a full specification of its own |
| `LifecycleV1` | the v1 server, its runner and the Claude daemon beneath it | a full specification of its own |
| `OvermindBrokerMC`, `EventCursorMC`, `ServiceMC` | instances for TLC | |
| `OvermindBroker_proofs`, `OvermindLifecycle_proofs` | the broker: theorems and proofs | the second extends the first |
| `Service_proofs`, `EventCursor_proofs`, `ClaudeReconcile_proofs`, `McpServer_proofs`, `Sessions_proofs`, `LifecycleV1_proofs` | theorems and proofs of the module of that name | |

**Store.** `row[j]` is the record of a job: its state (`none` before it exists,
`forgotten` after), which groups of provider columns are filled in (`cols`:
the launch fills `state_path` and `runner`, a state file `runner` and
`result`), and who explains its end (`error`). Concrete paths, ids and messages
are abstracted to that. `events[j]` is the sequence of states its events carry.
`UpdateJob` is `update_job` with its terminal guard: a different state is
dropped silently, the same state is written again.

**Worker.** `runner[j]` follows `_codex_runner`: waiting for the state file
(`booting`), before its SIGTERM handler (`preparing`), with handler and child
(`executing`), handler gone again (`recording`), outcome written (`exiting`).
SIGTERM sets the flag only in `executing`; anywhere else it kills. `RunnersDie`
lets the handshake time out and the process die at any point. What Codex itself
does is a choice between success and failure. `spawns[j]` is a history variable.

**Broker.** `thread[t]` holds the program counter and locals of a thread: the
launcher and the watcher of a job, one client thread per caller for
`show --fresh`, the one thread that holds the destructive lock (`stop`,
`forget`), and the main thread's recovery. A step is the code between two
points where something else can run: a transaction, a file read, a process
check, a spawn. So `_apply_observation` is `ApplyRead` (what has changed?),
`ApplyCommit` (write it, onto whatever is there by now) and `RecordEvidence`;
`CodexProvider.reconcile` is `ReadFile` and `CheckProcess`. `Raise` is what an
exception means in each thread: the launch's except branch, the watcher's
failure count, recovery's except branch, the end of a client's call. With
`Faults`, `CallFails` and `LastCallFails` let every store and provider call
raise. `Crash` ends all threads and keeps the store, the files and the workers;
`Restart` runs recovery to its end before calls are served, as `Daemon.serve`
does.

**Await.** `ledger` is the events table by cursor: whom an event is about, and
whether it is the end of a job; a deleted row stays as `deleted`, since cursors
are never given out twice. A writer is a thread of the broker: it commits one
transaction or several (`Launch`, `Change`, `End`, the two forgets, or something
`Elsewhere`) and then runs `_notify`, or raises before it gets there
(`NotifyDropped`); `Close` raises the closing flag and then notifies. `w` is one
`await_jobs` call, a step per transaction or lock it takes, in the order of the
code: closing flag, generation, jobs, events, latest cursor if there were none,
answer or progress, wait. The deadline is a choice (`Respond` is always allowed).
`client` is what the caller knows and what `DaemonClient.request` remembers for it,
the latest message and no other. A caller that follows (`follows`: `on_progress`, or a
progress token of MCP) takes in each message as it comes; one that does not is given
the answer, or on a cancellation (`Cancel`) the latest message, which may be a
heartbeat without events, and after a lost connection (`Lose`) nothing. Both resume
from the last cursor they were given. `got` holds the events that the caller was given,
`base` the cursor from which they should be complete. Messages cut off by a
cancellation are those sent after it. The waits of several clients share nothing they
write, so one client stands for all.

**Service.** `daemon[d]` goes through `Daemon.serve`: born, lock taken, socket
probed, stale socket unlinked, bound, serving; then told to stop, closing, socket
unlinked, lock released, gone. The two files of the directory are `lock` (a flock,
which the kernel releases when its holder dies) and `socket`, a path whose owner
may be dead and whose mode is not private between `bind` and `chmod`: the umask of
whoever started the daemon decides. A client goes through `request`, `_connect`
and `_start_daemon` under `startLock`, or through `om restart`. `thread[d][c]` is
the thread of a daemon that serves a client: the lookup of the key, the act (a
stop takes a job at a time), and the transaction that remembers the answer are
steps of their own. A thread that launches may outlive the lock of its daemon, as
it does in the code (the interpreter waits for pools, `close` only two seconds).
`store.generation` counts the entities that the one launch key has created; the
keys of a stop, of the forgetting of the group (`ForgetEntity`) and of the forgetting
of each job (`ForgetOne`) belong to a generation. Requests
that use a key twice for different payloads are left out: the store refuses them
before anything happens. A forget of one job purges the launch's remembered
result, because the purge matches the id anywhere in it, so a retry of that launch
starts the group again beside the jobs that are left of the first. protocol.md:89-90
promises the original entity and makes no exception of forget:
`RetryReturnsOriginal` states that and is violated, and `RelaunchNeedsForget` says
what the code does keep. Clients are not killed; recovery of the broker is only time.

**Claude jobs.** Time is modelled by ages (of the record, of the state file, of the
transcript), which `Tick` lets grow to the largest value anything is compared
with. The worker writes notes and one report; the CLI flushes the messages of a
session to the transcript late, one at a time (`pending`). What the code assumes
of the CLI is named and checked as an assumption: `FlushAssumption` (a pending
record is flushed within the quiet time, and all within the ceiling) and
`SettledAssumption`. `Observe` is the decision of `reconcile` from one reading of
the state file: missing, unrecognized, running, reapable or terminal; `Reap`,
`Settle` and `Collect` are what follows it outside any lock, and `Apply` is the
broker's commit. Two observers interleave at each of these. A launch that gets no
job id is recorded failed although a session may run. The reaper does not wait for
the transcript to settle (`ReapKeepsReport` speaks of what is in it by then, and
only of runs with fewer than two faults: a reaper whose stop fails records the end of
a session that lives on, and if the daemon dies after a second reaper stopped it and
before that one collected its result, what the session wrote in between is lost). A
reaped job may be recorded interrupted by a second observer, which finds the
session stopped.

**MCP adapter.** `pending` is the table, `call[r]` the future of a call: unsent,
queued in its pool, in its request, answered, over once its callback has run. The
reader submits a call and enters it into the table in two steps, as
`start_tool_call` does, so a call may be over before it is entered. A harness uses
an id again as soon as it has the answer, which is earlier than the callback.
Protocol messages without a tool call, schemas and progress are left out.

**Sessions.** There is one pid, which is given to one harness process after
another. A registration reads the start identity of the process, truncates its
file, and then writes: in between the file says nothing to anyone. It may fail before
the file is truncated or after, or the process that registers may be killed
(`HookFails`, `AnonymousFails`, `ClientDies`); `caller_session` passes over the error,
and the job is launched for an id that has no record (`failed`, a history variable: the
ids that have none because of a failure). The process may have changed since the id was
chosen (`overtaken`, another). The looks of `caller_session` at the files, the ancestors
and the identity are one step: what may change in between is the process, and that is
excepted from every property as `overtaken` is. A session has up to two
ids: the one its hook registers, and one made up by a client that finds none.
`OrphansLook` reads which sessions live, `OrphansList` which jobs are active, and
`OrphansStop` stops those whose owner was not among the first.

**v1.** `job[j]` is the JSON record, saved whole under the job's file lock, which
only a Codex launch and an interrupt hold across steps. `sync` of a Claude job runs
the status command without the lock and applies the answer if the record still has
the revision it had (`fresh`). The runner goes through its handshake, its SIGTERM
handler, `codex exec` (`child`) and the record of the outcome; when it is gone its
pid may be anyone's (`OpenPidfd`, `Recheck`). Not promised, because the code does
not keep it: a sync that comes before the runner is recorded fails a job that is
still starting, and the launch resurrects it; the stop record of a refused Claude
launch is written whatever the record says; a follow-up of a Claude job without
provider id raises and leaves its record starting; a runner that is killed leaves
its Codex running.

Abstractions worth knowing: in `OvermindBroker`, a worker that ends always reports usage; the two
`process_matches` checks of `interrupt` and the signal are one step; `reply`
with a continuation launches like `run`, and so is not an action of its own;
sleeps and back-offs are just the time between steps; pids are not reused
(`process_matches` compares start identities).

## What the runs check

| Run | Instance | Shows |
| --- | --- | --- |
| `broker_one_job` | 1 job, 1 caller, 2 calls, 1 crash, workers may die; 466 thousand states | types; `OnlyStartedJobsRun`, `LedgerAgrees`, `NoJobUnwatched`, `EvidenceFollows`; `OvermindBroker` implements `JobLifecycle`; `EveryJobEnds` |
| `broker_recovery` | 2 interchangeable jobs in one group, 1 crash, every call may raise; 965 thousand states | `NoDuplicateLaunch`, `HonestOutcome` |
| `stop_races_launch` | 2 jobs, 1 call | `StoppedBeforeLaunch` is violated |
| `outcome_lost` | 1 job, no call | `ReportedOutcomeRecorded` is violated |
| `event_cursor` | 1 job, awaited alone or as its group, 3 live events, pages of 1, a caller that takes in the progress, lost notifications and connections; 939 thousand states | types and cursors within the ledger; `ProgressLosesNothing`, `EndsExplained`, `NoLostWakeup`, `AwaitReturns` |
| `resume_loses_events` | 1 job, 2 events, pages of 1, a caller that does not take in the progress | `ResumesWithoutLoss` is violated |
| `service` | 2 interchangeable clients, 2 jobs, 2 daemons, 3 calls, 1 kill; 2.7 million states | types; `ServerIsFound`, `StartsDoNotCollide`, `ReplayResolves`, `AnswersTrue`, `RestartIsFresh`, `RelaunchNeedsForget` |
| `launch_repeated` | 1 client, 2 jobs, 1 daemon, 3 calls, no fault | `RetryReturnsOriginal` is violated |
| `claude_reconcile` | 2 observers, 2 pending records, 1 fault; 1.2 million states | types; `ReportKept`, `ReapKeepsReport`, `SuccessEarned`, `SilentJobEnds` |
| `mcp_server` | 3 calls under 3 ids, pools of 1 thread; 146 thousand states | `PendingTracksCalls`, `ControlAnswered`, `ClosedServerEnds` |
| `sessions` | 2 harness processes, 2 launches, 1 sweep, any number of failed registrations; 3.2 million states | types; `NoStrangerClaimed`, `OwnersAreLive`, `StopsOrphans` |
| `v1_lifecycle` | 1 job of either provider, 2 clients, 2 deaths; 58 thousand states | types; `OnlyRunnersSignalled`, `NoUnrecordedCodex`, `EndedMeansStopped`, `OutcomeFinal`, `InterruptSticks`, `InterruptAnswered` |

*Bounds.* Jobs do not touch each other's records, files or threads except in
a launch, a group stop, a group forget and the recovery loop, so one job shows
the races on a record and two show the loops. Two calls allow a `show` in flight
while a `stop` or a `forget` acts on the record under it. One
crash is enough to reach recovery from every state; recovery itself cannot tell
a second crash from the first, since it keeps nothing. `FailureLimit` is
`OBSERVATION_FAILURE_LIMIT` (5 in the code): only "the last failure" and "not
the last" differ, so 1 or 2 suffice. The models may stop once all jobs ended
and the calls are used up, hence `CHECK_DEADLOCK FALSE`.

In `EventCursor` `MaxEvents` bounds the rows that are in the table at one time, so a
job can be launched, end and be forgotten, and cursors go on; a page of one (200 in
the code) is cut by the second event. One writer commits several times before it
notifies, which is all that several of them could add to a waiter. The target is
the job or its group, so the error of `get_job` on a forgotten one is reached, and
so is the group that has no jobs left. `Follows` is the kinds of callers there are: the
passing run has those that take in the progress, because `ProgressLosesNothing` speaks
of them; the violation those that do not.

In `Service` two daemons are one and its successor, or two that race for the lock;
a third would meet the second as the second meets the first. Three calls let a
launch be retried by another client and be stopped, forgotten or restarted in
between. The two jobs let one of a launch be forgotten while the other stays.

The times of `ClaudeReconcile` keep the order the code's constants have (quiet is
shorter than the ceiling, which is no longer than the grace for an unrecognized
state; the hard timeout is longer than the idle grace), which is all that the
comparisons see.

Three calls of `McpServer` fill a pool, queue behind it and use an id again. Two
sessions are one and its successor at the pid. One job of `LifecycleV1` stands for
all, since each has its own lock and record; two clients are a sync and an
interrupt, or two of either.

*Fairness.* `FairSpec` of the broker assumes that each launcher, watcher and the recovery
loop is scheduled (they are threads that wait on nothing but bounded sleeps and
bounded lock retries), that a worker makes progress (Codex ends, or its process
dies), and that a daemon that went down is started again: every client call
autostarts it. Client calls, faults and deaths are never assumed to happen.
`FairSpec` of `EventCursor` assumes only that the thread of the await is
scheduled and that its wait ends by itself (it is bounded by 0.25 s); neither a
notification nor the deadline is assumed to come. It must not be: the closing
flag and the generation are read apart, so an await can miss the notification of
`close` and is saved by the bounded wait alone.

`Fairness` of `ClaudeReconcile`: time passes, the CLI flushes, the launch goes on,
and some observer reconciles again and again, since the watcher polls until the job
has ended. Of the session nothing is assumed: `SilentJobEnds` speaks of one that
stops working.

`Fairness` of `McpServer`: the threads are scheduled, and the broker answers what is
not an await, or dies and with it closes the connection, which ends the call as well.
Nothing is assumed of awaits or of the harness, so `ControlAnswered` holds with all workers of
the other pool in awaits that never return.

`Fairness` of `LifecycleV1`: threads and runners that live go on, a signalled Codex
ends, and the syncs of a status call are strongly fair: an interrupt ends in a wait
that syncs periodically on a thread of its own, which the few clients of an instance
stand for. `InterruptAnswered` assumes that nothing died.

`Service` and `Sessions` have safety properties only and assume no fairness.

*Findings.* The four violated properties are sentences of the repository.
A job stopped "before provider launch" may have a live worker, because `stop`
acts on the record it read first and the launch looks at the state only once.
A worker's outcome is recorded as `unknown` for good if the worker finishes between
the read of its state file and the look at its process.

A caller of `await` that leaves the progress to `DaemonClient` loses events when it
resumes. Each page goes out once, as a progress message, and the client keeps the latest
message only; `RequestCancelled` and the answer carry the last page and its cursor, and a
heartbeat replaces even that page. `om await` is such a caller, and so is an MCP client
without a progress token, against "Reuse the last cursor after cancellation so no
transition is lost" (protocol.md:100). A caller that does take in the progress loses
nothing by it (`ProgressLosesNothing`), but an answer without events takes its cursor
from a later transaction than its events, so that an event committed in between is
passed over: with `Follows = {TRUE}` and `MaxEvents = 3` TLC finds
`ResumesWithoutLoss` violated in this way too. `EndsExplained` says how far this goes:
never over the end of a job that the answer reports as ended.

Once one job of a group is forgotten, a retry of the launch with the same key launches
the whole group again, because the purge of `forget_job` deletes the remembered launch.
`RelaunchNeedsForget` says that nothing else, no crash, restart or concurrent retry,
lets it happen.

*What the properties allow*, because the code does it. The error and the time of an
ended job can be rewritten by a stale observation of the same state. Between `bind`
and `chmod` a client may find the socket unsafe and fails; a daemon killed there
leaves a socket that makes every later call fail until it is removed. While a daemon
drains, an autostarted successor exits at once and the call that started it fails,
although the next one succeeds. `om restart` does not catch a connection that is
reset. `om orphans --stop` stops a job of a living session if it looks while that
session is being registered, before it is, or after its registration failed, although
setup.md:154 speaks of "running workers whose owning session is gone". A young
Claude job whose session was given a host that had been idle for long is reaped at its
first observation (providers.py:1062-1071), because only the judgement of an unrecognized
state asks how old the job is, against the comment at providers.py:1054-1056; the
model has it (`Reapable` looks at the age of the state file), no run is spent on it. After a restart usage of a job that
ended just before may be missing.

## What is proved

Every safety invariant and every action property that a run checks is also a
theorem, for every value of the constants: any sets of jobs, clients, daemons and
observers, any bounds, page limits and graces; two of them, `NoJobUnwatched` and
`EvidenceFollows`, where no call raises.

| Theorem | States |
| --- | --- |
| `OvermindBroker_proofs` `TypeCorrect`, `LaunchedOnce`, `OutcomesHonest`, `LedgerFaithful` | `TypeOK`, `NoDuplicateLaunch`, `HonestOutcome`, `LedgerAgrees` |
| `OvermindLifecycle_proofs` `LifecycleImplemented` | `LifecycleSpec`: the broker implements `JobLifecycle` |
| `OvermindLifecycle_proofs` `OutcomesStay` | a terminal record is given no other state, it can only be forgotten (an action property, which no run states) |
| `OvermindLifecycle_proofs` `StartedJobsRun`, `JobsWatched`, `EvidenceAdded` | `OnlyStartedJobsRun`; `NoJobUnwatched` and `EvidenceFollows` if `~Faults` |
| `Service_proofs` `TypeCorrect`, `ServerFound`, `StartsAreApart`, `RestartsAreFresh` | `TypeOK`, `ServerIsFound`, `StartsDoNotCollide`, `RestartIsFresh` |
| `Service_proofs` `ReplaysResolve`, `AnswersAreTrue`, `RelaunchesNeedForget` | `ReplayResolves`, `AnswersTrue`, `RelaunchNeedsForget` (an action property) |
| `EventCursor_proofs` `TypeCorrect`, `NothingLost`, `EndsAreExplained`, `WakeupsKept` | `TypeOK`, `ProgressLosesNothing`, `EndsExplained`, `NoLostWakeup` |
| `ClaudeReconcile_proofs` `TypeCorrect`, `ReportIsKept`, `ReapersKeepReports`, `SuccessIsEarned` | `TypeOK`, `ReportKept`, `ReapKeepsReport`, `SuccessEarned` |
| `McpServer_proofs` `TypeCorrect`, `CancelFindsCall` | its `TypeOK`, `PendingTracksCalls` |
| `Sessions_proofs` `TypeCorrect`, `NoStrangers`, `OwnersLive`, `OnlyOrphansStopped` | `TypeOK`, `NoStrangerClaimed`, `OwnersAreLive`, `StopsOrphans` (an action property) |
| `LifecycleV1_proofs` `TypeCorrect`, `OnlyTheRunner`, `CodexIsRecorded`, `EndsAreTrue` | `TypeOK`, `OnlyRunnersSignalled`, `NoUnrecordedCodex`, `EndedMeansStopped` |
| `LifecycleV1_proofs` `OutcomesStay`, `InterruptsStick` | `OutcomeFinal`, `InterruptSticks` (action properties) |

Each proof has the same shape: an inductive invariant that is stronger than the
property, that `Init` establishes and every action keeps, and that implies the
property. TLC confirmed the invariants on the instances above (for
`ClaudeReconcile`, and with two faults) before they were proved.

*Assumptions.* The theorems rest on the `ASSUME`s of the modules and on nothing else.
Most only keep model values apart: `NoJob` is not a job, `NoClient` is not a client
(`Service`), a lock that is free or held by a launch is not held by a client
(`LifecycleV1`), the names of events are not jobs (`EventCursor`). Bounds are
naturals, `FailureLimit`, the pools and the page limit are positive, there is an id
to call by (`McpServer`), and the jobs an await may be about are finitely many
(`EventCursor`). Two say something of the world: `FlushAssumption` and
`SettledAssumption` of `ClaudeReconcile`, which is what the finalization of a
Claude job relies on and all it knows of the CLI.

**The broker.** `HonestOutcome` relates the record to the state file, but what
writes the record is an observation a thread took some time ago. The inductive
invariant `IInv` therefore adds that every observation in flight still agrees
with the file (`HonestThreads`), which holds only because an outcome in the
file is final. That in turn needs `LaunchInv`: a launch thread that has not
spawned finds no worker and no file, one that is about to write the file finds
it missing, and a runner past its handshake finds its own "running" there; so
nothing ever writes over an outcome, and a second spawn is impossible.
`NextStore` and `NextControl` sort the steps into the few kinds the invariant
can tell apart (an update by an honest entry; a calm move of threads; one thread
carrying a true observation), after which `LedgerAgrees` follows from the
store's transactions alone.

`OvermindLifecycle_proofs` adds to it what the threads know of the records
(`KInv`): a record leaves `queued` for `starting` only through its own launch
thread, because until then nothing can be observed of the job but that it is
unobservable; and a thread that has seen a job end is right about it for good. So
each step maps to one step of `JobLifecycle` or to none, and what `JobLifecycle` says
of ended jobs holds of the broker (`OutcomesStay`). `JobsWatched` needs one
invariant more (`CareInv`): a watcher leaves only a job that has ended, and whoever
hands a job over starts a watcher or finds one that has not left. Its hypothesis
`~Faults` is what the code promises: a watcher whose calls raise `FailureLimit`
times in a row gives its job up, and if its last write raises too, nobody watches a
job that is still running. The run that checks it has the same value.

**Service.** Who is past the lock and has not released it holds it, and who is
between bind and unlink owns the path (`DaemonInv`). As long as nothing was stopped,
killed or given up, all daemons are one (`Calm`), which makes the start lock
enough. What `om restart` has shut down never listens again (`Restarts`). For the
answers: a transaction moves an entity forward or creates the next (`StoreStep`),
what a success promises is stable under that (`PromiseStable`), and a key is
remembered only while its promise holds (`TableInv`). The bound on the generation of
every request in flight ties an old request to an old entity.

**Await.** The last row of the ledger is never deleted, so the latest cursor is its
length, and a page is the beginning of the rows after its cursor (`PageInv`). A job
that an await has seen ended does not end again (`EndInv`); this is where the order
of the reads, jobs before events, is needed. For the wakeups, as long as nobody has
committed since the await read the generation (`Fresh`), all it has read is current
(`FreshInv`). A caller that takes in the
progress learns nothing from a cancellation, since the latest message is the one it has
(`TakenIn`); of the others this is false, and `NothingLost` does not speak of them. That
a set of cursors has a least and a greatest member comes from the
well-foundedness of the naturals, since induction is out of reach.

**Claude jobs.** The report survives because of a race against time. While `f` of the
pending records have been flushed, the marker is at most `f * MaxFlush` older than
the transcript, and one of the two is younger than the next flush (`FlushInv`); with
`FlushAssumption` a transcript that looks settled, or an expired ceiling, means that
nothing is left to flush, and then the transcript that is read has the report.
`SeenInv` carries that through the steps of an observer while others write the
artifact. The attempt to prove `ReapKeepsReport` showed that it fails with a second
fault; TLC found the run, and the property now says so.

**MCP adapter.** Two calls in flight never share an id, the one the reader holds
included (`OwnIds`), so that an entry is removed only by the callback of its own
call.

**Sessions.** Unless a registration was overtaken, a record names the process it was
read of (`IdentityInv`), a known id of the session that lives is live, being
written or without a record since a registration failed (`LiveInv`), and what a run of `om orphans` did not see it was blind to
(`SweepInv`); the three hold together or not at all, hence the one guard
`~overtaken`.

**v1.** The invariant speaks of a job (`JobInv`: what launch, record and runner tell
of each other) and of a call (`CallInv`: what it may rely on). A step writes one
record, and `Steady` is what it leaves to the calls of others: a locked record stays
as it is, and a snapshot whose revision is still current still shows the record. The
two action properties follow from the invariant, step by step (`Final`, `Sticks`).

*Only model-checked.* Liveness (`EveryJobEnds`, `AwaitReturns`, `SilentJobEnds`,
`ControlAnswered`, `ClosedServerEnds`, `InterruptAnswered`): fairness and `ENABLED`
are out of the prover's reach. The four violations are counterexamples and need no
proof.

## Plan

What is left, in this order.

1. `OvermindBroker`: what `JobsWatched` and `EvidenceAdded` become when calls may
   raise. That a job is left alone only after a watcher, a launch or the recovery was
   failed by its last call needs a history variable that says so.
2. `LifecycleV1`: the safety part of `InterruptAnswered`, that an interrupt in progress
   always has somebody to answer it; `ClaudeReconcile`: that of `SilentJobEnds`.
3. `Service`: that what a daemon tells several clients of one key agrees.

## Not modelled

Of the broker: `reply`, which launches like `run`; `collect`, `jobs` and `doctor`,
which only read; the rejection of a launch that fell back to another billing class,
which the Codex provider never reports. Of the store: artifacts, id allocation,
listings and the schema. Of the Claude provider: the choice between subscription and
API billing and the text of a continuation. Of daemon, client and MCP adapter: the
framing and the size limits of messages, schemas and rendering. Of the sessions: an
owner given by hand or by `OVERMIND_V2_OWNER_SESSION`, reads of the registry that fail (`read_all` passes over
the file, and its session looks dead to that one look), workers that call `om` themselves,
and `forget`, which the program never calls. Of v1: its JSON-RPC loop, which is the
older form of the one in `McpServer`.

Smaller omissions, inside modelled operations. A Claude transcript exists from the start
and can be read: that a missing one, or one that cannot be looked at, counts as settled
(providers.py:708-717) is left out, and so is a `min_result_bytes` of 0, with which any
message is long enough to be a report. `WithWatch` starts a watcher whether or not the
broker is closing (broker.py:570-571): a broker that closes is gone at any step
(`Crash`), with the watchers it has, and recovery starts them again. `broker_recovery`
enumerates neither calls nor deaths of runners (`MaxCalls = 0`, `RunnersDie = FALSE`): what
`HonestOutcome` says of the runner's SIGTERM window and handshake timeout is shown by
the theorem `OutcomesHonest` for every value of the constants, and by `broker_one_job`
for the other properties.

The fake and the external command provider have no lifecycle of their own. The other
commands of the CLI send one request and render its result. The v1 shell tools wrap
the v1 registry. The session history search is a sequential batch indexer that only
reads the histories; the walkthrough generator renders JSON; the bake-off measures two
launches; the deep-research workflow runs on an engine that is not in the repository;
the remaining skills are prose.
