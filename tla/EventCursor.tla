----------------------------- MODULE EventCursor -----------------------------
(***************************************************************************)
(* await: how a client of Overmind v2 follows the event ledger.            *)
(*                                                                         *)
(* Threads of the broker commit events and then notify; an await reads the *)
(* generation counter, the jobs, the events after its cursor and, if there *)
(* are none, the latest cursor, each in a transaction of its own, and goes *)
(* to sleep unless the generation has moved on.                            *)
(*                                                                         *)
(* The caller resumes from the last cursor it was given.  Between it and   *)
(* the broker is DaemonClient.request, which keeps the latest progress     *)
(* message only: a caller that takes each of them in follows the await (an *)
(* MCP client with a progress token), all others (an MCP client without    *)
(* one, `om await`) are given the answer, or when they cancel that message.*)
(* The broker is seen here only through what it commits: the jobs are      *)
(* those of one group, all other jobs and groups are "elsewhere".          *)
(***************************************************************************)
EXTENDS Naturals, Sequences, FiniteSets

CONSTANTS
  Jobs,       \* the jobs of the group
  Targets,    \* what the client may wait for: a job, or "group"
  Writers,    \* threads of the broker that change jobs
  Follows,    \* may the caller follow progress messages, may it not?
  PageLimit,  \* the limit of events_since
  Faults,     \* may a thread raise between its commit and its notify?
  MaxEvents   \* bound on the rows of the ledger: no writer commits beyond it

ASSUME PageLimitAssumption == PageLimit \in Nat \ {0}
ASSUME MaxEventsAssumption == MaxEvents \in Nat
ASSUME JobsAssumption == IsFiniteSet(Jobs)
ASSUME FaultsAssumption == Faults \in BOOLEAN
ASSUME FollowsAssumption == Follows \subseteq BOOLEAN
ASSUME TargetsAssumption == Targets \subseteq Jobs \cup {"group"}
ASSUME SubjectsAssumption ==
  Jobs \cap {"group", "elsewhere", "deleted"} = {}

VARIABLES
  ledger,      \* the events table, by cursor
  jobState,    \* what the jobs table says of each job
  generation,  \* Broker._generation
  closing,     \* Broker._closing
  due,         \* has the writer committed and not notified yet?
  dropped,     \* history: some thread raised before it could notify
  target,      \* what the client waits for
  w,           \* the await in progress: program counter and locals
  client       \* the caller and its DaemonClient, and history of what it got

storeVars == <<ledger, jobState>>
notifyVars == <<generation, closing, due, dropped>>
vars == <<storeVars, notifyVars, target, w, client>>

-----------------------------------------------------------------------------
(* The ledger and the jobs table. *)

\* A job's event carries its group too; a "group" event has no job.
Subjects == Jobs \cup {"group", "elsewhere", "deleted"}
Event == [subject : Subjects, ends : BOOLEAN]
JobStates == {"none", "active", "ended", "forgotten"}

Of(subject) == [subject |-> subject, ends |-> FALSE]
EndOf(j) == [subject |-> j, ends |-> TRUE]
Deleted == Of("deleted")

Cursors == 1 .. Len(ledger)

\* latest_cursor: MAX(cursor), or 0 for an empty table.  A cursor is never
\* given out twice (AUTOINCREMENT), whatever rows are deleted.
IsLatest(n) ==
  /\ n \in 0 .. Len(ledger)
  /\ n > 0 => ledger[n] # Deleted
  /\ \A c \in Cursors : c > n => ledger[c] = Deleted
LatestCursor == CHOOSE n \in 0 .. Len(ledger) : IsLatest(n)

\* The rows events_since selects for the target, before its limit.
Concerns(event) ==
  IF target = "group" THEN event.subject \in Jobs \cup {"group"}
                      ELSE event.subject = target
EventsAfter(cursor) == {c \in Cursors : c > cursor /\ Concerns(ledger[c])}

\* Mutation: the page is cut at its far end.
NewestPage(cursor) ==
  LET all == EventsAfter(cursor) IN
  {c \in all : Cardinality({d \in all : d >= c}) <= PageLimit}

\* events_since: the oldest rows, at most PageLimit of them.
EventsSince(cursor) ==
  LET all == EventsAfter(cursor) IN
  {c \in all : Cardinality({d \in all : d <= c}) <= PageLimit}

LastOf(page) == CHOOSE c \in page : \A d \in page : d <= c

\* group_jobs, or the one job of get_job (which raises if there is none).
TargetJobs ==
  {j \in Jobs : /\ jobState[j] \in {"active", "ended"}
                /\ target \in {"group", j}}
EndedJobs == {j \in Jobs : jobState[j] = "ended"}

NoJobYet == \A j \in Jobs : jobState[j] = "none"

-----------------------------------------------------------------------------
Pcs == {"idle", "now", "loop", "generation", "jobs", "events", "latest",
        "decide", "wait", "asleep", "awake"}
Conditions == {"any_change", "any_terminal", "all_terminal"}

Await == [pc : Pcs, condition : Conditions, cursor : Nat, gen : Nat,
          jobs : SUBSET Jobs, ended : SUBSET Jobs, page : SUBSET Nat,
          latest : Nat]

NoAwait == [pc |-> "idle", condition |-> "any_change", cursor |-> 0,
            gen |-> 0, jobs |-> {}, ended |-> {}, page |-> {}, latest |-> 0]

\* A progress message: its cursor and its events.
Message == [cursor : Nat, events : SUBSET Nat]

\* cursor is what the caller resumes from, latest the latest_progress of the call
\* (as long as there is none, a message that says nothing new).  History: base is
\* the last cursor that came with an answer without events, or as its "now"; got
\* holds the events that the caller was given since.
Client == [follows : BOOLEAN, cursor : Nat, latest : Message,
           base : Nat, got : SUBSET Nat]

NothingNew(cursor) == [cursor |-> cursor, events |-> {}]

\* No cursor anybody holds is ahead of the ledger.
TypeOK ==
  /\ ledger \in Seq(Event)
  /\ jobState \in [Jobs -> JobStates]
  /\ generation \in Nat
  /\ closing \in BOOLEAN
  /\ due \in [Writers -> BOOLEAN]
  /\ dropped \in BOOLEAN
  /\ target \in Targets
  /\ w \in Await
  /\ client \in Client
  /\ w.page \cup client.got \cup client.latest.events \subseteq Cursors
  /\ {w.cursor, w.latest, client.cursor, client.latest.cursor, client.base}
       \subseteq 0 .. Len(ledger)

Init ==
  /\ ledger = <<>>
  /\ jobState = [j \in Jobs |-> "none"]
  /\ generation = 0
  /\ closing = FALSE
  /\ due = [t \in Writers |-> FALSE]
  /\ dropped = FALSE
  /\ target \in Targets
  /\ w = NoAwait
  /\ \E follows \in Follows :
       client = [follows |-> follows, cursor |-> 0, latest |-> NothingNew(0),
                 base |-> 0, got |-> {}]

-----------------------------------------------------------------------------
(* Writers: one transaction, more of them perhaps, and then _notify. *)

Commit(t, rows) ==
  /\ Cardinality({c \in DOMAIN rows : rows[c] # Deleted}) <= MaxEvents
  /\ ledger' = rows
  /\ due' = [due EXCEPT ![t] = TRUE]
  /\ UNCHANGED <<generation, closing, dropped, target, w, client>>

Orders(S) == {f \in [1 .. Cardinality(S) -> S] :
                \A a, b \in DOMAIN f : f[a] = f[b] => a = b}

\* create_launch: a new group, or more jobs for it while it has any.
Launch(t, S) ==
  /\ S # {} /\ \A j \in S : jobState[j] = "none"
  /\ NoJobYet \/ \E j \in Jobs : jobState[j] \in {"active", "ended"}
  /\ \E order \in Orders(S) :
       LET events == (IF NoJobYet THEN <<Of("group")>> ELSE <<>>)
                       \o [n \in DOMAIN order |-> Of(order[n])] IN
       Commit(t, ledger \o events)
  /\ jobState' = [j \in Jobs |-> IF j \in S THEN "active" ELSE jobState[j]]

\* update_job into another live state, add_artifact, add_usage.
Change(t, j) ==
  /\ jobState[j] \in {"active", "ended"}
  /\ Commit(t, Append(ledger, Of(j)))
  /\ UNCHANGED jobState

\* update_job into a terminal state.
End(t, j) ==
  /\ jobState[j] = "active"
  /\ Commit(t, Append(ledger, EndOf(j)))
  /\ jobState' = [jobState EXCEPT ![j] = "ended"]

\* Anything that happens to another group.
Elsewhere(t) ==
  /\ Commit(t, Append(ledger, Of("elsewhere")))
  /\ UNCHANGED jobState

\* Mutation: the cursors of deleted rows are given out again.
Compacted(subjects) ==
  SelectSeq(ledger, LAMBDA event : event.subject \notin subjects)

Without(subjects) ==
  [c \in Cursors |-> IF ledger[c].subject \in subjects THEN Deleted
                                                       ELSE ledger[c]]

\* forget_job: the job's events go, a tombstone in its group stays, and with
\* the last job the group goes as well.
ForgetJob(t, j) ==
  LET last == \A k \in Jobs \ {j} : jobState[k] \notin {"active", "ended"}
      tombstones == <<Of("group")>>
                      \o (IF last THEN <<Of("elsewhere")>> ELSE <<>>) IN
  /\ jobState[j] = "ended"
  /\ Commit(t, Without({j}) \o tombstones)
  /\ jobState' = [jobState EXCEPT ![j] = "forgotten"]

\* forget_group: everything that carries the group's id goes.
ForgetGroup(t) ==
  /\ EndedJobs # {}
  /\ \A j \in Jobs : jobState[j] # "active"
  /\ Commit(t, Append(Without(Jobs \cup {"group"}), Of("elsewhere")))
  /\ jobState' = [j \in Jobs |-> IF jobState[j] = "ended" THEN "forgotten"
                                                          ELSE jobState[j]]

\* Condition.notify_all: an await in its wait is woken.
Woken == [w EXCEPT !.pc = IF @ = "asleep" THEN "awake" ELSE @]

Notify(t) ==
  /\ due[t]
  /\ due' = [due EXCEPT ![t] = FALSE]
  /\ generation' = generation + 1
  /\ w' = Woken
  /\ UNCHANGED <<storeVars, closing, dropped, target, client>>

\* An exception between the commit and the notify, such as that of the next
\* job's update in _stop, or of add_usage after add_artifact.
NotifyDropped(t) ==
  /\ Faults
  /\ due[t]
  /\ due' = [due EXCEPT ![t] = FALSE]
  /\ dropped' = TRUE
  /\ UNCHANGED <<storeVars, generation, closing, target, w, client>>

\* Broker.close, which notifies after it has raised the flag.
Close(t) ==
  /\ ~closing
  /\ closing' = TRUE
  /\ due' = [due EXCEPT ![t] = TRUE]
  /\ UNCHANGED <<storeVars, generation, dropped, target, w, client>>

-----------------------------------------------------------------------------
(* One await. *)

Unchanged == UNCHANGED <<storeVars, notifyVars, target>>

\* The call is over, its locals are gone.
Returned == [client EXCEPT !.latest = NothingNew(0)]

\* The caller asks, from the cursor it has or from now on.
Begin(condition, resume) ==
  /\ w.pc = "idle"
  /\ ~closing
  /\ TargetJobs # {}
  /\ w' = [NoAwait EXCEPT !.condition = condition,
                          !.pc = IF resume THEN "loop" ELSE "now",
                          !.cursor = IF resume THEN client.cursor ELSE 0]
  /\ client' = [client EXCEPT !.latest = NothingNew(client.cursor)]
  /\ Unchanged

\* since_cursor omitted: start from the latest event of all.
ReadNow ==
  /\ w.pc = "now"
  /\ w' = [w EXCEPT !.pc = "loop", !.cursor = LatestCursor]
  /\ client' = [client EXCEPT !.base = LatestCursor, !.got = {}]
  /\ Unchanged

\* The top of the loop: a broker that is closing raises.
CheckClosing ==
  /\ w.pc = "loop"
  /\ w' = IF closing THEN NoAwait
                     ELSE [NoAwait EXCEPT !.pc = "generation",
                                          !.condition = w.condition,
                                          !.cursor = w.cursor]
  /\ client' = IF closing THEN Returned ELSE client
  /\ Unchanged

ReadGeneration ==
  /\ w.pc = "generation"
  /\ w' = [w EXCEPT !.pc = "jobs", !.gen = generation]
  /\ UNCHANGED client
  /\ Unchanged

\* A job that is gone raises; a group that is gone has no jobs.
ReadJobs ==
  /\ w.pc = "jobs"
  /\ IF target # "group" /\ TargetJobs = {}
       THEN w' = NoAwait /\ client' = Returned
       ELSE /\ w' = [w EXCEPT !.pc = "events", !.jobs = TargetJobs,
                              !.ended = TargetJobs \cap EndedJobs]
            /\ UNCHANGED client
  /\ Unchanged

\* Mutation: the generation is read after the snapshot.
ReadEventsThenGeneration ==
  /\ w.pc = "events"
  /\ w' = [w EXCEPT !.page = EventsSince(w.cursor),
                    !.gen = generation,
                    !.pc = IF EventsSince(w.cursor) = {} THEN "latest"
                                                         ELSE "decide",
                    !.latest = IF EventsSince(w.cursor) = {} THEN 0
                                 ELSE LastOf(EventsSince(w.cursor))]
  /\ UNCHANGED client
  /\ Unchanged

\* events_since, and the cursor the answer would carry if there are events.
ReadEvents ==
  LET page == EventsSince(w.cursor) IN
  /\ w.pc = "events"
  /\ w' = [w EXCEPT !.page = page,
                    !.pc = IF page = {} THEN "latest" ELSE "decide",
                    !.latest = IF page = {} THEN 0 ELSE LastOf(page)]
  /\ UNCHANGED client
  /\ Unchanged

\* Mutation: the jobs in the answer are read after the events.
ReadLatestThenJobs ==
  /\ w.pc = "latest"
  /\ w' = [w EXCEPT !.pc = "decide", !.latest = LatestCursor,
                    !.jobs = TargetJobs,
                    !.ended = TargetJobs \cap EndedJobs]
  /\ UNCHANGED client
  /\ Unchanged

\* No events: latest_cursor, in a transaction of its own.
ReadLatest ==
  /\ w.pc = "latest"
  /\ w' = [w EXCEPT !.pc = "decide", !.latest = LatestCursor]
  /\ UNCHANGED client
  /\ Unchanged

\* _condition_satisfied.
Satisfied(condition, jobs, ended, events) ==
  CASE condition = "any_change"   -> events # {}
    [] condition = "any_terminal" -> ended # {}
    [] condition = "all_terminal" -> jobs # {} /\ ended = jobs

SatisfiedNow == Satisfied(w.condition, w.jobs, w.ended, w.page)

\* The answer: the condition holds, or the deadline has passed.
Respond ==
  /\ w.pc = "decide"
  /\ w' = NoAwait
  /\ client' = IF w.page = {}
                 THEN [Returned EXCEPT !.cursor = w.latest, !.base = w.latest,
                                       !.got = {}]
                 ELSE [Returned EXCEPT !.cursor = w.latest,
                                       !.got = @ \cup w.page]
  /\ Unchanged

\* DaemonClient.request: a message replaces the one before it; on_progress hands
\* it to a caller that follows.
Told(message) ==
  IF client.follows
    THEN [client EXCEPT !.latest = message, !.cursor = message.cursor,
                        !.got = @ \cup message.events]
    ELSE [client EXCEPT !.latest = message]

\* Not yet: send what there is as progress, and go on from there.
Progress ==
  /\ w.pc = "decide"
  /\ ~SatisfiedNow
  /\ w' = [w EXCEPT !.pc = "wait", !.jobs = {}, !.ended = {}, !.latest = 0,
                    !.cursor = IF w.page = {} THEN @ ELSE w.latest]
  /\ client' = IF w.page = {} THEN client
                ELSE Told([cursor |-> w.latest, events |-> w.page])
  /\ Unchanged

\* Sleep unless somebody has notified since the top of the loop.
Wait ==
  /\ w.pc = "wait"
  /\ w' = [w EXCEPT !.pc = IF generation = w.gen THEN "asleep" ELSE "awake",
                    !.gen = 0]
  /\ UNCHANGED client
  /\ Unchanged

\* Mutation: the wait has no timeout of its own.
PollNever ==
  /\ w.pc = "asleep"
  /\ closing
  /\ w' = [w EXCEPT !.pc = "awake"]
  /\ UNCHANGED client
  /\ Unchanged

\* The wait ends after a quarter of a second in any case.
Poll ==
  /\ w.pc = "asleep"
  /\ w' = [w EXCEPT !.pc = "awake"]
  /\ UNCHANGED client
  /\ Unchanged

\* The heartbeat, which carries the cursor and no events, unless the deadline has
\* passed.
Heartbeat(late) ==
  /\ w.pc = "awake"
  /\ w' = [w EXCEPT !.pc = "loop"]
  /\ client' = IF w.page = {} /\ ~late THEN Told(NothingNew(w.cursor)) ELSE client
  /\ Unchanged

\* The caller cancels: RequestCancelled gives it the latest message, if any.
Cancel ==
  /\ w.pc # "idle"
  /\ w' = NoAwait
  /\ client' = [Returned EXCEPT !.cursor = client.latest.cursor,
                                !.got = @ \cup client.latest.events]
  /\ Unchanged

\* The connection is lost, or the caller interrupted: nothing is returned.
Lose ==
  /\ w.pc # "idle"
  /\ w' = NoAwait
  /\ client' = Returned
  /\ Unchanged

-----------------------------------------------------------------------------
WriterStep(t) ==
  \/ \E S \in SUBSET Jobs : Launch(t, S)
  \/ \E j \in Jobs : Change(t, j) \/ End(t, j) \/ ForgetJob(t, j)
  \/ Elsewhere(t)
  \/ ForgetGroup(t)
  \/ Notify(t)
  \/ NotifyDropped(t)
  \/ Close(t)

AwaitStep ==
  \/ ReadNow
  \/ CheckClosing
  \/ ReadGeneration
  \/ ReadJobs
  \/ ReadEvents
  \/ ReadLatest
  \/ Respond
  \/ Progress
  \/ Wait
  \/ Poll
  \/ \E late \in BOOLEAN : Heartbeat(late)

ClientStep ==
  \/ \E condition \in Conditions, resume \in BOOLEAN :
       Begin(condition, resume)
  \/ Cancel
  \/ Lose

Next ==
  \/ \E t \in Writers : WriterStep(t)
  \/ AwaitStep
  \/ ClientStep

Spec == Init /\ [][Next]_vars

\* The await's thread is scheduled, and its waits are bounded.  Nothing is
\* assumed of its deadline, which may be a day away: an answer is only fair
\* when the condition holds.
Timely == AwaitStep /\ (w.pc = "decide" /\ ~SatisfiedNow => Progress)

FairSpec == Spec /\ WF_vars(Timely)

-----------------------------------------------------------------------------
(* Properties. *)

\* Following by progress loses nothing: however often a caller that takes in the
\* progress messages cancels and resumes, and however the pages of events_since are
\* cut, every event of the target up to its cursor has been given to it, except
\* before the last cursor that came with an answer without events (await_jobs).  Of
\* that exception, and of callers that do not follow, see ResumesWithoutLoss.
ProgressLosesNothing ==
  client.follows =>
    \A c \in EventsAfter(client.base) :
      (c <= client.cursor \/ c <= w.cursor) => c \in client.got

\* An answer that reports a job as ended leaves no doubt when: the event of
\* its end is not one its cursor passes over without carrying it.  It is why
\* await_jobs reads the jobs before the events.
EndsExplained ==
  w.pc = "decide" =>
    \A c \in EventsAfter(w.cursor) :
      ledger[c].ends /\ ledger[c].subject \in w.ended /\ c <= w.latest
        => c \in w.page

\* Does the condition hold of what the store holds now?
HoldsNow == Satisfied(w.condition, TargetJobs, TargetJobs \cap EndedJobs,
                      EventsAfter(w.cursor))

\* No wakeup is lost: if nobody failed to notify, an await sleeps although its
\* condition holds only while some thread is about to notify (the generation
\* counter of _notify, read before the snapshot).
NoLostWakeup ==
  w.pc = "asleep" /\ HoldsNow /\ ~dropped => \E t \in Writers : due[t]

\* An await whose condition holds, and keeps holding, returns without its
\* deadline, even if the notification was never sent; so does one whose broker
\* is closing (the bounded wait in await_jobs).
AwaitReturns ==
  (w.pc # "idle" /\ (HoldsNow \/ closing))
    ~> (w.pc = "idle" \/ ~(HoldsNow \/ closing))

-----------------------------------------------------------------------------
(* What the repository says of the program and the program does not do. *)

\* "an explicit cursor resumes without loss; an explicit 0 replays all history"
\* (protocol.md:63), "Reuse the last cursor after cancellation so no transition is
\* lost" (protocol.md:100): no cursor that a caller is given passes over an event of
\* the target that it is not given: not that of an answer without events, nor any it
\* was given since the last of those.
ResumesWithoutLoss ==
  /\ w.pc = "decide" /\ w.page = {} => \A c \in EventsAfter(w.cursor) : c > w.latest
  /\ \A c \in EventsAfter(client.base) : c <= client.cursor => c \in client.got

=============================================================================
