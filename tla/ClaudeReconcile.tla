---------------------------- MODULE ClaudeReconcile ----------------------------
(***************************************************************************)
(* One job of the Claude provider: its launch, and what the observers of   *)
(* the broker (the watcher, `show --fresh`, recovery, stop) make of the    *)
(* state file and the transcript that the Claude CLI writes meanwhile.     *)
(*                                                                         *)
(* A timestamp is modelled by its age, which Tick lets grow up to the      *)
(* largest value that anything compares it with.                           *)
(***************************************************************************)
EXTENDS Naturals, FiniteSetsExt

CONSTANTS
    Observer,           \* threads that may reconcile the job at one time
    MissingGrace,       \* the 5 of reconcile(), for a state file that is not there
    UnrecognizedGrace,  \* UNRECOGNIZED_STATE_GRACE_SECONDS
    IdleGrace,          \* idle_grace_seconds, 0 disables
    HardTimeout,        \* idle_hard_timeout_seconds, 0 disables
    Quiet,              \* CLAUDE_TRANSCRIPT_QUIET_SECONDS
    Ceiling,            \* CLAUDE_FINALIZE_CEILING_SECONDS
    MaxFlush,           \* the CLI flushes a pending record within this time
    MaxPending,         \* records it may have to flush when a session ends
    MaxFaults           \* daemon crashes and stops that fail

ASSUME TimesAssumption ==
    /\ {MissingGrace, UnrecognizedGrace, Quiet} \subseteq Nat \ {0}
    /\ {IdleGrace, HardTimeout, Ceiling, MaxFlush, MaxPending, MaxFaults} \subseteq Nat

ASSUME SettledAssumption == Ceiling <= UnrecognizedGrace

\* What the finalization relies on, and all it knows of the CLI.
ASSUME FlushAssumption == MaxFlush < Quiet /\ MaxPending * MaxFlush < Ceiling

VARIABLES
    job,        \* the record: state, is the session known, why it ended
    artifact,   \* result.md: what it holds
    launch,     \* the thread that launches the job
    observer,   \* what each observer is about to do
    session,    \* the background session of the CLI
    file,       \* its state file: state, and whether the session is quiescent
    disk,       \* the last message of the worker in the transcript
    pending,    \* records still to be flushed; the last of them is the report
    age, since, \* of the record: created_at, updated_at
    idle,       \* of the state file: updatedAt, and firstTerminalAt once it is marked
    quiet,      \* of the transcript: its mtime
    faults

record == <<job, artifact, since>>
times == <<age, idle, quiet>>
cli == <<session, file, disk, pending>>
vars == <<record, launch, observer, cli, times, faults>>

TERMINAL_STATES == {"succeeded", "failed", "interrupted", "unknown"}
Mapped == {"done", "blocked", "failed", "stopped"}
Mapping(raw) == CASE raw \in {"done", "blocked"} -> "succeeded"
                  [] raw = "failed" -> "failed"
                  [] raw = "stopped" -> "interrupted"

Terminal == job.state \in TERMINAL_STATES

\* A note is shorter than min_result_bytes: a remark of the worker, or the headline
\* that the CLI keeps.  A report is not, and it is the worker's last message.
Messages == {"none", "note", "report"}
IdleCap == Max({UnrecognizedGrace, IdleGrace, HardTimeout, Quiet, Ceiling})

Ready == [pc |-> "ready", state |-> "running", why |-> "", known |-> FALSE]

TypeOK ==
    /\ job \in [state : {"starting", "running"} \cup TERMINAL_STATES, known : BOOLEAN,
                why : {"", "read", "thin", "odd", "reaped", "missing", "asked", "launch"}]
    /\ artifact \in Messages /\ disk \in Messages
    /\ launch \in {"begin", "ran", "over"}
    /\ observer \in [Observer -> [pc : {"ready", "reap", "settle", "collect", "apply"},
                          state : {"running"} \cup TERMINAL_STATES, known : BOOLEAN,
                          why : {"", "read", "thin", "odd", "reaped", "missing", "asked"}]]
    /\ session \in {"none", "live", "over", "reaped", "stopped"}
    /\ file \in [raw : {"absent", "active", "odd"} \cup Mapped, quiescent : BOOLEAN]
    /\ pending \in 0 .. MaxPending
    /\ age \in 0 .. UnrecognizedGrace /\ since \in 0 .. MissingGrace
    /\ idle \in 0 .. IdleCap /\ quiet \in 0 .. Quiet
    /\ faults \in 0 .. MaxFaults

Init ==
    /\ job = [state |-> "starting", known |-> FALSE, why |-> ""]
    /\ artifact = "none" /\ disk = "none" /\ pending = 0
    /\ launch = "begin" /\ session = "none"
    /\ observer = [o \in Observer |-> Ready]
    /\ file = [raw |-> "absent", quiescent |-> FALSE]
    /\ age = 0 /\ since = 0 /\ idle = 0 /\ quiet = 0
    /\ faults = 0

Fault == faults < MaxFaults /\ faults' = faults + 1

-----------------------------------------------------------------------------
\* The Claude CLI, as far as the code relies on it.

\* The host process that is handed the job may have been spawned long before, and
\* its state file is as old as that.
SessionStarts ==
    /\ session' = "live"
    /\ \/ UNCHANGED <<file, idle>>
       \/ /\ \E raw \in {"active", "odd"} :
                file' = [raw |-> raw, quiescent |-> TRUE]
          /\ idle' \in 0 .. IdleCap

\* A message or a tool result, in a turn or beside a subagent; a turn that ends in
\* silence; a host that respawns.
Work ==
    /\ session = "live"
    /\ file' \in [raw : {"active", "odd"}, quiescent : BOOLEAN]
    /\ idle' = 0
    /\ \/ UNCHANGED <<disk, quiet>>
       \/ disk # "report" /\ disk' \in {"note", "report"} /\ quiet' = 0
    /\ UNCHANGED <<record, launch, observer, session, pending, age, faults>>

\* The state file is marked first, the transcript is flushed after.
End ==
    /\ session = "live" /\ session' = "over"
    /\ \E raw \in Mapped : file' = [raw |-> raw, quiescent |-> TRUE]
    /\ idle' = 0
    /\ pending' \in IF disk = "report" THEN {0} ELSE 0 .. MaxPending
    /\ UNCHANGED <<record, launch, observer, disk, age, quiet, faults>>

Flush ==
    /\ pending > 0 /\ pending' = pending - 1
    /\ disk' = IF pending = 1 THEN "report" ELSE "note"
    /\ quiet' = 0
    /\ UNCHANGED <<record, launch, observer, session, file, age, idle, faults>>

\* `claude stop`, by a reaper or for a user; it does nothing to a session that is
\* over.
StopSession(as) ==
    IF session = "live"
    THEN /\ session' = as /\ idle' = 0
         /\ file' = [raw |-> "stopped", quiescent |-> TRUE]
    ELSE UNCHANGED <<session, file, idle>>

Older(t, cap) == IF t < cap THEN t + 1 ELSE t

Tick ==
    /\ pending > 0 => idle < MaxFlush \/ quiet < MaxFlush
    /\ age' = Older(age, UnrecognizedGrace) /\ since' = Older(since, MissingGrace)
    /\ idle' = Older(idle, IdleCap) /\ quiet' = Older(quiet, Quiet)
    /\ UNCHANGED <<job, artifact, launch, observer, cli, faults>>

-----------------------------------------------------------------------------
\* launch(): the CLI is run; it may refuse.  (The transcript is there from the start
\* of a session: its first record is the brief.)
Launch ==
    /\ launch = "begin"
    /\ \/ SessionStarts /\ launch' = "ran" /\ UNCHANGED record
       \/ /\ job' = [job EXCEPT !.state = "failed", !.why = "launch"]
          /\ launch' = "over" /\ since' = 0
          /\ UNCHANGED <<artifact, session, file, idle>>
    /\ UNCHANGED <<observer, disk, pending, age, quiet, faults>>

\* Mutant: the record says of a launch only that it was made.
LaunchRecordRaw ==
    /\ launch = "ran" /\ launch' = "over"
    /\ job' = [job EXCEPT !.state = "launched", !.known = TRUE] /\ since' = 0
    /\ UNCHANGED <<artifact, observer, cli, times, faults>>

\* The id comes from its output or from its list of agents, and the broker records
\* it; without one the launch has failed, whatever is running by then.  An update
\* of a record that has ended is dropped.
LaunchRecord ==
    /\ launch = "ran" /\ launch' = "over"
    /\ \E named \in BOOLEAN :
          IF Terminal THEN UNCHANGED <<job, since>>
          ELSE /\ since' = 0
               /\ job' = IF named THEN [job EXCEPT !.state = "running", !.known = TRUE]
                         ELSE [job EXCEPT !.state = "failed", !.why = "launch"]
    /\ UNCHANGED <<artifact, observer, cli, times, faults>>

-----------------------------------------------------------------------------
\* reconcile().  An observer goes from the snapshot it takes to what it records.
Then(o, pc, state, why, known) ==
    observer' = [observer EXCEPT ![o] =
                    [pc |-> pc, state |-> state, why |-> why, known |-> known]]

Running(o) == Then(o, "apply", "running", "", FALSE)

\* The session of a job without an id is looked for in the list of agents.
Listed == session # "none"

Recover(o) ==
    /\ observer[o].pc = "ready" /\ ~Terminal
    /\ ~job.known /\ Listed
    /\ Then(o, "apply", "running", "", TRUE)
    /\ UNCHANGED <<record, launch, cli, times, faults>>

\* No state file: the daemon of the CLI may not have written it yet.
ObserveMissing(o) ==
    /\ observer[o].pc = "ready" /\ ~Terminal
    /\ ~job.known \/ file.raw = "absent"
    /\ IF since < MissingGrace THEN Running(o)
       ELSE Then(o, "apply", "unknown", "missing", FALSE)
    /\ UNCHANGED <<record, launch, cli, times, faults>>

\* _is_quiescent(): tempo is "idle", and neither a task nor a message is in flight.
IsQuiescent == file.quiescent
Unrecognized == file.raw = "odd" /\ idle >= UnrecognizedGrace /\ age >= UnrecognizedGrace
Reapable == \/ IdleGrace > 0 /\ idle >= IdleGrace /\ IsQuiescent
            \/ HardTimeout > 0 /\ idle >= HardTimeout

\* The state file is read, and judged by its state and by its age.  (One that is
\* old enough to be judged by an unrecognized state has settled.)
Observe(o) ==
    /\ observer[o].pc = "ready" /\ ~Terminal
    /\ job.known /\ file.raw # "absent"
    /\ CASE file.raw \in Mapped ->
                 Then(o, "settle", Mapping(file.raw), "read", FALSE)
         [] Unrecognized -> Then(o, "collect", "unknown", "odd", FALSE)
         [] file.raw \notin Mapped /\ ~Unrecognized /\ Reapable ->
                 Then(o, "reap", "unknown", "reaped", FALSE)
         [] OTHER -> Running(o)
    /\ UNCHANGED <<record, launch, cli, times, faults>>

\* _stop_quietly(): best effort.
Reap(o) ==
    /\ observer[o].pc = "reap"
    /\ \/ StopSession("reaped") /\ UNCHANGED faults
       \/ Fault /\ UNCHANGED <<session, file, idle>>
    /\ observer' = [observer EXCEPT ![o].pc = "collect"]
    /\ UNCHANGED <<record, launch, disk, pending, age, quiet>>

\* Mutant: a quiet transcript is enough.
QuietOnly == idle >= Ceiling \/ quiet >= Quiet

TranscriptSettled == idle >= Ceiling \/ (quiet >= Quiet /\ idle >= Quiet)

Settle(o) ==
    /\ observer[o].pc = "settle"
    /\ IF TranscriptSettled THEN observer' = [observer EXCEPT ![o].pc = "collect"]
       ELSE Running(o)
    /\ UNCHANGED <<record, launch, cli, times, faults>>

\* _final_assistant_message(), and without one a note of the CLI, if it has any.
FinalMessage == {disk} \ {"none"}
Results == IF FinalMessage = {} THEN {"none", "note"} ELSE FinalMessage

\* _thin_result_error(): a success that reports nothing is none.
Thin(state, result) == state = "succeeded" /\ result # "report"

\* Mutant: of a reaped session the note of the CLI is the result.
CollectNoteFirst(o) ==
    /\ observer[o].pc = "collect"
    /\ LET result == IF observer[o].why = "reaped" \/ disk = "none" THEN "note" ELSE disk
       IN /\ artifact' = result
          /\ IF Thin(observer[o].state, result)
             THEN Then(o, "apply", "unknown", "thin", FALSE)
             ELSE observer' = [observer EXCEPT ![o].pc = "apply"]
    /\ UNCHANGED <<job, since, launch, cli, times, faults>>

\* Mutant: any result will do for a success.
CollectUnchecked(o) ==
    /\ observer[o].pc = "collect"
    /\ \E result \in Results :
          artifact' = IF result = "none" THEN artifact ELSE result
    /\ observer' = [observer EXCEPT ![o].pc = "apply"]
    /\ UNCHANGED <<job, since, launch, cli, times, faults>>

\* The result is written, and the outcome is what the state file says, but for a
\* success without a report.
Collect(o) ==
    /\ observer[o].pc = "collect"
    /\ \E result \in Results :
          /\ artifact' = IF result = "none" THEN artifact ELSE result
          /\ IF Thin(observer[o].state, result)
             THEN Then(o, "apply", "unknown", "thin", FALSE)
             ELSE observer' = [observer EXCEPT ![o].pc = "apply"]
    /\ UNCHANGED <<job, since, launch, cli, times, faults>>

\* Mutant: every observation is written, and dates the record anew.
ApplyAlways(o) ==
    LET seen == observer[o] IN
    /\ seen.pc = "apply"
    /\ IF Terminal THEN UNCHANGED <<job, since>>
       ELSE /\ job' = [state |-> seen.state, known |-> job.known \/ seen.known,
                       why |-> IF seen.why = "" THEN job.why ELSE seen.why]
            /\ since' = 0
    /\ observer' = [observer EXCEPT ![o] = Ready]
    /\ UNCHANGED <<artifact, launch, cli, times, faults>>

\* _apply_observation(): nothing is written of an observation that changes
\* nothing, or that contradicts an end.
Apply(o) ==
    LET seen == observer[o]
        changed == \/ seen.state # job.state
                   \/ seen.known /\ ~job.known
                   \/ seen.why # "" /\ seen.why # job.why
    IN
    /\ seen.pc = "apply"
    /\ IF ~changed \/ (Terminal /\ seen.state # job.state)
       THEN UNCHANGED <<job, since>>
       ELSE /\ job' = [state |-> seen.state, known |-> job.known \/ seen.known,
                       why |-> IF seen.why = "" THEN job.why ELSE seen.why]
            /\ since' = 0
    /\ observer' = [observer EXCEPT ![o] = Ready]
    /\ UNCHANGED <<artifact, launch, cli, times, faults>>

\* interrupt(), for a stop of the broker.
Interrupt(o) ==
    /\ observer[o].pc = "ready" /\ ~Terminal /\ job.known
    /\ \/ /\ StopSession("stopped") /\ UNCHANGED faults
          /\ Then(o, "apply", "interrupted", "asked", FALSE)
       \/ /\ Fault /\ UNCHANGED <<session, file, idle>>
          /\ Then(o, "apply", "unknown", "asked", FALSE)
    /\ UNCHANGED <<record, launch, disk, pending, age, quiet>>

\* The daemon dies with its threads; recovery is the next observer.
Crash ==
    /\ Fault
    /\ launch' = "over"
    /\ observer' = [o \in Observer |-> Ready]
    /\ UNCHANGED <<record, cli, times>>

-----------------------------------------------------------------------------
Reconcile(o) ==
    \/ Recover(o) \/ ObserveMissing(o) \/ Observe(o)
    \/ Reap(o) \/ Settle(o) \/ Collect(o) \/ Apply(o)

Next ==
    \/ Launch \/ LaunchRecord
    \/ \E o \in Observer : Reconcile(o) \/ Interrupt(o)
    \/ Work \/ End \/ Flush \/ Tick \/ Crash

\* Time passes, the launch goes on, and some observer does: the watcher polls until
\* the job has ended.
Fairness ==
    /\ WF_vars(Tick) /\ WF_vars(Flush)
    /\ WF_vars(Launch \/ LaunchRecord)
    /\ WF_vars(\E o \in Observer : Reconcile(o))

Spec == Init /\ [][Next]_vars /\ Fairness

-----------------------------------------------------------------------------
\* The report is not lost to the order of the CLI's writes: a job that is judged by
\* a session that ended of itself holds the worker's last message, however the
\* marker, the flushes, the checks of two observers and a crash interleave
\* (reconcile(), _transcript_settled()).
ReportKept ==
    Terminal /\ job.why \in {"read", "thin"} /\ (pending > 0 \/ disk = "report")
        => artifact = "report"

\* A worker that writes its report while the reaper is making up its mind keeps it:
\* what is in the transcript when the session is ended is in the result.  It takes
\* two faults to lose it: a reaper whose stop fails records the end of a session
\* that lives on, and the daemon dies before a second one, which stops it, has read
\* what was written since.
ReapKeepsReport ==
    (/\ job.why = "reaped" /\ session = "reaped" /\ disk = "report" /\ faults < 2
     /\ \A o \in Observer : observer[o].pc # "collect") => artifact = "report"

\* A success is a session that ended of itself and reported: neither a session that
\* an observer or a user ended, nor one whose artifact another observer has
\* overwritten with less, is recorded as succeeded.
SuccessEarned == job.state = "succeeded" => session = "over" /\ artifact = "report"

\* A job whose worker falls silent ends, whatever its state file says by then and
\* whether or not there is one.
SilentJobEnds == <>[][~Work]_vars => <>Terminal
================================================================================
