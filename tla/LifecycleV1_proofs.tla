-------------------------- MODULE LifecycleV1_proofs --------------------------
(***************************************************************************)
(* Proofs about the v1 lifecycle server, for any jobs and any clients.     *)
(*                                                                         *)
(* The invariant is stated job by job (JobInv: what the launch, the record *)
(* and the runner of one job tell of each other) and client by client      *)
(* (CallInv: what a call that is under way may still rely on).  A step     *)
(* writes one record at most; Steady is what every step leaves to the      *)
(* calls of the others: a locked record stays as it is, and a snapshot     *)
(* that is still fresh still shows the state of the record.                *)
(***************************************************************************)
EXTENDS LifecycleV1, TLAPS

Rec == [state : States, prov : BOOLEAN, thread : BOOLEAN,
        pid : BOOLEAN, ident : BOOLEAN]
Call == [pc : CallPC, op : {"status", "cleanup"}, job : Job \cup {NoJob},
         raw : RawStates, fd : {"none", "runner", "other"}]

CallsNameJobs ==
    \A c \in Client : /\ call[c].pc # "idle" => call[c].job \in Job
                      /\ call[c].pc = "poll" => call[c].raw # "none"
TypeInv == TypeOK /\ CallsNameJobs

\* The launch of a job comes before its runner, and holds the lock from the first
\* write of the record to the last.
LaunchInv(j) ==
    /\ launch[j] \in {"none", "created", "locked"} => runner[j] = "none"
    /\ launch[j] = "spawned" => runner[j] \in {"handshake", "zombie", "gone", "reused"}
    /\ launch[j] \in {"none", "created", "locked", "spawned"} => child[j] = "none"
    /\ launch[j] \in {"locked", "spawned"} <=> lock[j] = "launch"
    /\ launch[j] \in {"locked", "spawned"} =>
          job[j].state = "launching" /\ ~job[j].pid /\ provider[j] = "codex"
    /\ job[j].state = "none" => launch[j] = "none"

\* A Claude job has no runner, and only Claude jobs run and stop sessions.
ProviderInv(j) ==
    /\ provider[j] = "claude" => runner[j] = "none" /\ child[j] = "none"
    /\ launch[j] \in {"ran", "refused", "stop", "stopped", "stopfail"} =>
          provider[j] = "claude"

\* A runner that got past the handshake is named in the record, and so is the
\* Codex under it; nobody ends a record that names a live runner.
RunnerInv(j) ==
    /\ runner[j] \in Alive \ {"handshake"} => job[j].pid /\ job[j].ident
    /\ child[j] \in {"busy", "signalled"} => job[j].pid /\ job[j].ident
    /\ runner[j] \in Alive /\ job[j].pid /\ job[j].ident =>
          ~Terminal(j) /\ job[j].state # "gone"

JobInv(j) == LaunchInv(j) /\ ProviderInv(j) /\ RunnerInv(j)

CallInv(c) ==
    LET j == call[c].job IN
    /\ call[c].pc # "idle" => job[j].state # "none"
    /\ call[c].pc \in {"poll", "stop", "stopped", "stopfail"} => provider[j] = "claude"
    /\ call[c].pc \in {"open", "recheck"} =>
          lock[j] = c /\ ~Terminal(j) /\ job[j].state # "gone"
    /\ call[c].pc = "recheck" =>
          call[c].fd # "none" /\ (call[c].fd = "other" => runner[j] = "reused")
    /\ call[c].pc = "signal" => call[c].fd = "runner"
    /\ call[c].pc = "poll" /\ fresh[c] => job[j].state # "interrupting"

IInv ==
    /\ TypeInv
    /\ \A j \in Job : JobInv(j)
    /\ \A c \in Client : CallInv(c)

\* What a step leaves to the others, and the two action properties of a job.
Steady(i) ==
    /\ job[i].state # "none" => provider'[i] = provider[i] /\ job'[i].state # "none"
    /\ runner[i] = "reused" => runner'[i] = "reused"
    /\ \A c \in Client : call'[c] = call[c] =>
          /\ job[i].state # "none" /\ lock[i] = c => lock'[i] = c /\ job'[i] = job[i]
          /\ fresh'[c] /\ call[c].job = i => fresh[c] /\ job'[i] = job[i]

Final(i) ==
    launch[i] = "done" /\ Terminal(i) => job'[i].state \in {job[i].state, "gone"}
Sticks(i) ==
    job[i].state = "interrupting" =>
        job'[i].state \notin {"starting", "launching", "running", "succeeded"}

StepOK == \A i \in Job : JobInv(i)' /\ Steady(i) /\ Final(i) /\ Sticks(i)

\* A step of one job leaves the others alone, and freshens nobody else's snapshot.
Only(j) ==
    \A i \in Job : i # j =>
        /\ job'[i] = job[i] /\ provider'[i] = provider[i] /\ launch'[i] = launch[i]
        /\ lock'[i] = lock[i] /\ runner'[i] = runner[i] /\ child'[i] = child[i]
FreshKept == \A c \in Client : call'[c] = call[c] /\ fresh'[c] => fresh[c]

-----------------------------------------------------------------------------
\* Records and calls, field by field.
LEMMA RecordFields ==
    ASSUME NEW r \in Rec, NEW s \in States
    PROVE  LET w == [r EXCEPT !.state = s] IN
           /\ w \in Rec /\ w.state = s /\ w.prov = r.prov
           /\ w.thread = r.thread /\ w.pid = r.pid /\ w.ident = r.ident
BY DEF Rec

LEMMA RecordTypes ==
    ASSUME NEW r \in Rec
    PROVE  /\ r.state \in States /\ r.prov \in BOOLEAN
           /\ r.thread \in BOOLEAN /\ r.pid \in BOOLEAN /\ r.ident \in BOOLEAN
BY DEF Rec

LEMMA CallTypes ==
    ASSUME NEW w \in Call
    PROVE  /\ w.pc \in CallPC /\ w.op \in {"status", "cleanup"}
           /\ w.job \in Job \cup {NoJob} /\ w.raw \in RawStates
           /\ w.fd \in {"none", "runner", "other"}
BY DEF Call

LEMMA IdleFields ==
    /\ Idle \in Call /\ Idle.pc = "idle" /\ Idle.op = "status" /\ Idle.job = NoJob
    /\ Idle.raw = "none" /\ Idle.fd = "none"
BY DEF Idle, Call, CallPC, RawStates

LEMMA CallMoved ==
    ASSUME NEW w \in Call, NEW p \in CallPC
    PROVE  LET v == [w EXCEPT !.pc = p] IN
           /\ v \in Call /\ v.pc = p /\ v.op = w.op /\ v.job = w.job
           /\ v.raw = w.raw /\ v.fd = w.fd
BY DEF Call

\* A call that begins for a job.
LEMMA CallOfJob ==
    ASSUME NEW j \in Job, NEW p \in CallPC
    PROVE  /\ [Idle EXCEPT !.pc = p, !.job = j] \in Call
           /\ [Idle EXCEPT !.pc = p, !.job = j].pc = p
           /\ [Idle EXCEPT !.pc = p, !.job = j].job = j
<1>1. "none" \in RawStates
  BY DEF RawStates
<1> QED
  BY <1>1 DEF Idle, Call

LEMMA Types ==
    TypeOK <=>
    /\ job \in [Job -> Rec]
    /\ provider \in [Job -> Providers]
    /\ origin \in [Job -> Origins]
    /\ lock \in [Job -> {"free", "launch"} \cup Client]
    /\ launch \in [Job -> {"none", "created", "locked", "spawned", "ran",
                           "refused", "stop", "stopped", "stopfail", "done"}]
    /\ worker \in [Job -> {"none", "busy", "done", "failed", "stopped", "removed"}]
    /\ runner \in [Job -> Alive \cup {"none", "zombie", "gone", "reused"}]
    /\ flag \in [Job -> BOOLEAN]
    /\ child \in [Job -> {"none", "busy", "signalled", "ok", "bad"}]
    /\ call \in [Client -> Call]
    /\ fresh \in [Client -> BOOLEAN]
    /\ faults \in 0 .. MaxFaults
BY DEF TypeOK, Rec, Call

LEMMA TypesNext ==
    ASSUME job' \in [Job -> Rec],
           provider' \in [Job -> Providers],
           origin' \in [Job -> Origins],
           lock' \in [Job -> {"free", "launch"} \cup Client],
           launch' \in [Job -> {"none", "created", "locked", "spawned", "ran",
                                "refused", "stop", "stopped", "stopfail", "done"}],
           worker' \in [Job -> {"none", "busy", "done", "failed", "stopped", "removed"}],
           runner' \in [Job -> Alive \cup {"none", "zombie", "gone", "reused"}],
           flag' \in [Job -> BOOLEAN],
           child' \in [Job -> {"none", "busy", "signalled", "ok", "bad"}],
           call' \in [Client -> Call],
           fresh' \in [Client -> BOOLEAN],
           faults' \in 0 .. MaxFaults
    PROVE  TypeOK'
BY DEF TypeOK, Rec, Call

\* A save writes one record, and no snapshot of that record is fresh after it.
LEMMA Saves ==
    ASSUME TypeOK, NEW j \in Job, NEW r \in Rec, SaveRecord(j, r)
    PROVE  /\ job' \in [Job -> Rec] /\ fresh' \in [Client -> BOOLEAN]
           /\ job'[j] = r
           /\ \A i \in Job : i # j => job'[i] = job[i]
           /\ \A c \in Client : fresh'[c] => fresh[c] /\ call[c].job # j
<1>1. job \in [Job -> Rec]
  BY Types
<1>2. fresh' = [c \in Client |-> fresh[c] /\ call[c].job # j]
  BY DEF SaveRecord
<1>3. job' = [job EXCEPT ![j] = r]
  BY DEF SaveRecord
<1>4. \A c \in Client : fresh'[c] => fresh[c] /\ call[c].job # j
  BY <1>2
<1>5. fresh' \in [Client -> BOOLEAN]
  BY <1>2
<1> QED
  BY <1>1, <1>3, <1>4, <1>5

LEMMA StateSaved ==
    ASSUME TypeOK, NEW j \in Job, NEW s \in States, SaveState(j, s)
    PROVE  /\ job' \in [Job -> Rec] /\ fresh' \in [Client -> BOOLEAN]
           /\ job'[j].state = s /\ job'[j].prov = job[j].prov
           /\ job'[j].pid = job[j].pid /\ job'[j].ident = job[j].ident
           /\ \A i \in Job : i # j => job'[i] = job[i]
           /\ \A c \in Client : fresh'[c] => fresh[c] /\ call[c].job # j
<1> DEFINE w == [job[j] EXCEPT !.state = s]
<1>1. job[j] \in Rec
  BY Types
<1>2. w \in Rec /\ w.state = s /\ w.prov = job[j].prov /\ w.pid = job[j].pid
      /\ w.ident = job[j].ident
  BY <1>1, RecordFields
<1>3. SaveRecord(j, w)
  BY DEF SaveState
<1> HIDE DEF w
<1> QED
  BY <1>2, <1>3, Saves

-----------------------------------------------------------------------------
\* What the proofs need to know of the sets of states.
LEMMA StateSets ==
    /\ RawStates \subseteq States /\ TERMINAL_STATES \subseteq States
    /\ Interrupted \subseteq States
    /\ {"starting", "launching", "running", "interrupting", "unknown", "gone",
        "failed", "interrupted", "succeeded"} \subseteq States
BY DEF RawStates, States, TERMINAL_STATES, Interrupted

\* The steps of the launch keep the types.
LEMMA LaunchTypes ==
    ASSUME TypeInv, NEW j \in Job,
           \/ \E p \in Providers : Spawn(j, p) \/ Followup(j, p)
           \/ LaunchStep(j)
    PROVE  TypeInv'
<1> USE StateSets
<1>0. TypeOK /\ CallsNameJobs /\ job[j] \in Rec /\ job[j].state \in States
  BY Types, RecordTypes DEF TypeInv
<1>1. ASSUME NEW p \in Providers, NEW o \in Origins, NewJob(j, p, o)
      PROVE  TypeInv'
  <2>1. job' \in [Job -> Rec] /\ fresh' \in [Client -> BOOLEAN]
    BY <1>0, <1>1, StateSaved DEF NewJob
  <2>2. TypeOK'
    BY <1>0, <1>1, <2>1, Types, TypesNext DEF NewJob, procVars
  <2> QED
    BY <1>0, <1>1, <2>2 DEF TypeInv, CallsNameJobs, NewJob
<1>2. CASE \E p \in Providers : Spawn(j, p) \/ Followup(j, p)
  BY <1>1, <1>2 DEF Spawn, Followup, Origins
<1>3. CASE LaunchBegin(j)
  <2>1. job' \in [Job -> Rec] /\ fresh' \in [Client -> BOOLEAN]
    <3>1. [job[j] EXCEPT !.state = "launching", !.pid = FALSE, !.ident = FALSE] \in Rec
      BY <1>0 DEF Rec
    <3> QED
      BY <1>0, <1>3, <3>1, Saves, Types DEF LaunchBegin
  <2>2. lock' \in [Job -> {"free", "launch"} \cup Client]
    BY <1>0, <1>3, Types DEF LaunchBegin
  <2>3. TypeOK'
    BY <1>0, <1>3, <2>1, <2>2, Types, TypesNext DEF LaunchBegin, given, procVars, EndLaunch
  <2> QED
    BY <1>0, <1>3, <2>3 DEF TypeInv, CallsNameJobs, LaunchBegin
<1>4. CASE LaunchPopen(j)
  <2>1. job' \in [Job -> Rec] /\ fresh' \in [Client -> BOOLEAN]
    BY <1>0, <1>4, StateSaved, Types DEF LaunchPopen
  <2>2. lock' \in [Job -> {"free", "launch"} \cup Client]
    BY <1>0, <1>4, Types DEF LaunchPopen, Release
  <2>3. runner' \in [Job -> Alive \cup {"none", "zombie", "gone", "reused"}]
    BY <1>0, <1>4, Types DEF LaunchPopen, Alive
  <2>4. TypeOK'
    BY <1>0, <1>4, <2>1, <2>2, <2>3, Types, TypesNext DEF LaunchPopen, given, EndLaunch
  <2> QED
    BY <1>0, <1>4, <2>4 DEF TypeInv, CallsNameJobs, LaunchPopen
<1>5. CASE LaunchPublish(j)
  <2>1. PICK readable \in BOOLEAN :
          /\ IF readable THEN UNCHANGED faults ELSE Fault
          /\ SaveRecord(j, [job[j] EXCEPT !.pid = TRUE, !.ident = readable,
                            !.thread = @ \/ origin[j] = "followup",
                            !.state = IF readable THEN "running" ELSE "failed"])
    BY <1>5 DEF LaunchPublish
  <2>2. [job[j] EXCEPT !.pid = TRUE, !.ident = readable,
                       !.thread = @ \/ origin[j] = "followup",
                       !.state = IF readable THEN "running" ELSE "failed"] \in Rec
    BY <1>0 DEF Rec
  <2>3. job' \in [Job -> Rec] /\ fresh' \in [Client -> BOOLEAN]
    BY <1>0, <2>1, <2>2, Saves
  <2>4. lock' \in [Job -> {"free", "launch"} \cup Client]
    BY <1>0, <1>5, Types DEF LaunchPublish, Release
  <2>5. faults' \in 0 .. MaxFaults
    BY <1>0, <2>1, Types, FaultsAssumption DEF Fault
  <2>6. TypeOK'
    BY <1>0, <1>5, <2>3, <2>4, <2>5, Types, TypesNext DEF LaunchPublish, given, procVars, EndLaunch
  <2> QED
    BY <1>0, <1>5, <2>6 DEF TypeInv, CallsNameJobs, LaunchPublish
<1>6. CASE ClaudeRun(j)
  <2>1. TypeOK'
    BY <1>0, <1>6, Types, TypesNext DEF ClaudeRun, given, procVars, EndLaunch
  <2> QED
    BY <1>0, <1>6, <2>1 DEF TypeInv, CallsNameJobs, ClaudeRun
<1>7. CASE ClaudeRefused(j)
  <2>1. [job[j] EXCEPT !.state = IF @ \in Interrupted THEN "interrupted" ELSE "failed"]
          \in Rec
    BY <1>0 DEF Rec
  <2>2. job' \in [Job -> Rec] /\ fresh' \in [Client -> BOOLEAN]
    BY <1>0, <1>7, <2>1, Saves, Types DEF ClaudeRefused, SaveIfExists
  <2>3. TypeOK'
    BY <1>0, <1>7, <2>2, Types, TypesNext DEF ClaudeRefused, given, procVars, EndLaunch
  <2> QED
    BY <1>0, <1>7, <2>3 DEF TypeInv, CallsNameJobs, ClaudeRefused
<1>8. CASE ClaudeRecord(j)
  <2> DEFINE late == Exists(j) /\ job[j].state \in Interrupted
  <2>1. [job[j] EXCEPT !.prov = TRUE,
            !.state = IF late THEN "interrupting" ELSE "running"] \in Rec
    BY <1>0 DEF Rec
  <2>2. job' \in [Job -> Rec] /\ fresh' \in [Client -> BOOLEAN]
    BY <1>0, <1>8, <2>1, Saves, Types DEF ClaudeRecord, SaveIfExists
  <2>3. TypeOK'
    BY <1>0, <1>8, <2>2, Types, TypesNext DEF ClaudeRecord, given, procVars
  <2> QED
    BY <1>0, <1>8, <2>3 DEF TypeInv, CallsNameJobs, ClaudeRecord
<1>9. CASE LaunchStop(j)
  <2>1. TypeOK'
    BY <1>0, <1>9, Types, TypesNext DEF LaunchStop, StopSession, given, procVars
  <2> QED
    BY <1>0, <1>9, <2>1 DEF TypeInv, CallsNameJobs, LaunchStop
<1>10. CASE LaunchStopRecord(j)
  <2>1. [job[j] EXCEPT !.state =
             IF launch[j] = "stopped" THEN "interrupted" ELSE "unknown"] \in Rec
    BY <1>0 DEF Rec
  <2>2. job' \in [Job -> Rec] /\ fresh' \in [Client -> BOOLEAN]
    BY <1>0, <1>10, <2>1, Saves, Types DEF LaunchStopRecord, SaveIfExists
  <2>3. TypeOK'
    BY <1>0, <1>10, <2>2, Types, TypesNext DEF LaunchStopRecord, given, procVars, EndLaunch
  <2> QED
    BY <1>0, <1>10, <2>3 DEF TypeInv, CallsNameJobs, LaunchStopRecord
<1> QED
  BY <1>2, <1>3, <1>4, <1>5, <1>6, <1>7, <1>8, <1>9, <1>10 DEF LaunchStep

\* So do the steps of the runner and of the processes outside.
LEMMA RunnerTypes ==
    ASSUME TypeInv, NEW j \in Job,
           \/ RunnerProcess(j) \/ RunnerKilled(j)
           \/ ChildEnds(j) \/ SessionEnds(j) \/ Reap(j)
    PROVE  TypeInv'
<1> USE StateSets
<1>0. TypeOK /\ CallsNameJobs /\ job[j] \in Rec /\ job[j].state \in States
  BY Types, RecordTypes DEF TypeInv
<1>a. \A where \in Alive \cup {"none", "zombie", "gone", "reused"} :
        RunnerTo(j, where) =>
          runner' \in [Job -> Alive \cup {"none", "zombie", "gone", "reused"}]
  BY <1>0, Types DEF RunnerTo
<1>b. {"refuse", "setup", "armed", "opening", "running", "collect"} \subseteq Alive
  BY DEF Alive, Armed
<1>1. CASE Handshake(j)
  <2>1. job' \in [Job -> Rec] /\ fresh' \in [Client -> BOOLEAN]
    BY <1>0, <1>1, StateSaved, Types DEF Handshake
  <2>2. runner' \in [Job -> Alive \cup {"none", "zombie", "gone", "reused"}]
    BY <1>a, <1>b, <1>1 DEF Handshake
  <2>3. TypeOK'
    BY <1>0, <1>1, <2>1, <2>2, Types, TypesNext DEF Handshake, given
  <2> QED
    BY <1>0, <1>1, <2>3 DEF TypeInv, CallsNameJobs, Handshake
<1>2. CASE Refuse(j)
  <2>1. [job[j] EXCEPT !.state = "interrupted"] \in Rec
    BY <1>0 DEF Rec
  <2>2. job' \in [Job -> Rec] /\ fresh' \in [Client -> BOOLEAN]
    BY <1>0, <1>2, <2>1, Saves, Types DEF Refuse, SaveIfExists
  <2>3. runner' \in [Job -> Alive \cup {"none", "zombie", "gone", "reused"}]
    BY <1>a, <1>2 DEF Refuse
  <2>4. TypeOK'
    BY <1>0, <1>2, <2>2, <2>3, Types, TypesNext DEF Refuse, given
  <2> QED
    BY <1>0, <1>2, <2>4 DEF TypeInv, CallsNameJobs, Refuse
<1>3. CASE RunnerStep(j)
  <2>1. runner' \in [Job -> Alive \cup {"none", "zombie", "gone", "reused"}]
    BY <1>a, <1>b, <1>3 DEF RunnerStep
  <2>2. child' \in [Job -> {"none", "busy", "signalled", "ok", "bad"}]
    BY <1>0, <1>3, Types DEF RunnerStep
  <2>3. TypeOK'
    BY <1>0, <1>3, <2>1, <2>2, Types, TypesNext DEF RunnerStep, given
  <2> QED
    BY <1>0, <1>3, <2>3 DEF TypeInv, CallsNameJobs, RunnerStep
<1>4. CASE Finish(j)
  <2>1. ASSUME NEW heard \in BOOLEAN
        PROVE  [job[j] EXCEPT !.thread = @ \/ heard,
                   !.state = IF child[j] = "ok" THEN "succeeded" ELSE "failed"] \in Rec
    BY <1>0 DEF Rec
  <2>2. job' \in [Job -> Rec] /\ fresh' \in [Client -> BOOLEAN]
    <3>1. CASE ~Exists(j)
      BY <1>0, <1>4, <3>1, Types DEF Finish
    <3>2. CASE Exists(j) /\ (job[j].state \in Interrupted \/ flag[j])
      BY <1>0, <1>4, <3>2, StateSaved DEF Finish
    <3>3. CASE Exists(j) /\ ~(job[j].state \in Interrupted \/ flag[j])
      <4>1. PICK heard \in BOOLEAN :
              SaveRecord(j, [job[j] EXCEPT !.thread = @ \/ heard,
                   !.state = IF child[j] = "ok" THEN "succeeded" ELSE "failed"])
        BY <1>4, <3>3 DEF Finish
      <4> QED
        BY <1>0, <2>1, <4>1, Saves
    <3> QED
      BY <3>1, <3>2, <3>3
  <2>3. runner' \in [Job -> Alive \cup {"none", "zombie", "gone", "reused"}]
    BY <1>a, <1>4 DEF Finish
  <2>4. TypeOK'
    BY <1>0, <1>4, <2>2, <2>3, Types, TypesNext DEF Finish, given
  <2> QED
    BY <1>0, <1>4, <2>4 DEF TypeInv, CallsNameJobs, Finish
<1>5. CASE RunnerRaises(j)
  <2>1. [job[j] EXCEPT !.state = IF @ \in Interrupted THEN "interrupted" ELSE "failed"]
          \in Rec
    BY <1>0 DEF Rec
  <2>2. job' \in [Job -> Rec] /\ fresh' \in [Client -> BOOLEAN]
    BY <1>0, <1>5, <2>1, Saves, Types DEF RunnerRaises, SaveIfExists
  <2>3. runner' \in [Job -> Alive \cup {"none", "zombie", "gone", "reused"}]
    BY <1>a, <1>5 DEF RunnerRaises
  <2>4. TypeOK'
    BY <1>0, <1>5, <2>2, <2>3, Types, TypesNext DEF RunnerRaises, given
  <2> QED
    BY <1>0, <1>5, <2>4 DEF TypeInv, CallsNameJobs, RunnerRaises
<1>6. CASE RunnerKilled(j)
  <2>1. faults' \in 0 .. MaxFaults
    BY <1>0, <1>6, Types, FaultsAssumption DEF RunnerKilled, Fault
  <2>2. runner' \in [Job -> Alive \cup {"none", "zombie", "gone", "reused"}]
    BY <1>a, <1>6 DEF RunnerKilled
  <2>3. TypeOK'
    BY <1>0, <1>6, <2>1, <2>2, Types, TypesNext DEF RunnerKilled, given
  <2> QED
    BY <1>0, <1>6, <2>3 DEF TypeInv, CallsNameJobs, RunnerKilled
<1>7. CASE ChildEnds(j)
  <2>1. TypeOK'
    BY <1>0, <1>7, Types, TypesNext DEF ChildEnds, given
  <2> QED
    BY <1>0, <1>7, <2>1 DEF TypeInv, CallsNameJobs, ChildEnds
<1>8. CASE SessionEnds(j)
  <2>1. TypeOK'
    BY <1>0, <1>8, Types, TypesNext DEF SessionEnds, given, procVars
  <2> QED
    BY <1>0, <1>8, <2>1 DEF TypeInv, CallsNameJobs, SessionEnds
<1>9. CASE Reap(j)
  <2>1. runner' \in [Job -> Alive \cup {"none", "zombie", "gone", "reused"}]
    BY <1>a, <1>9 DEF Reap
  <2>2. TypeOK'
    BY <1>0, <1>9, <2>1, Types, TypesNext DEF Reap, given
  <2> QED
    BY <1>0, <1>9, <2>2 DEF TypeInv, CallsNameJobs, Reap
<1> QED
  BY <1>1, <1>2, <1>3, <1>4, <1>5, <1>6, <1>7, <1>8, <1>9 DEF RunnerProcess

\* The calls: which of them moves, and where it goes.
LEMMA Hangs ==
    ASSUME TypeInv, NEW c \in Client, Hangup(c)
    PROVE  /\ call' \in [Client -> Call] /\ CallsNameJobs' /\ call'[c] = Idle
           /\ \A d \in Client : d # c => call'[d] = call[d]
<1>1. call' \in [Client -> Call] /\ call'[c] = Idle
      /\ \A d \in Client : d # c => call'[d] = call[d]
  BY IdleFields, Types DEF Hangup, TypeInv
<1> QED
  BY <1>1, IdleFields DEF CallsNameJobs, TypeInv

LEMMA Goes ==
    ASSUME TypeInv, NEW c \in Client, NEW p \in CallPC, Goto(c, p),
           call[c].pc # "idle", p # "poll"
    PROVE  /\ call' \in [Client -> Call] /\ CallsNameJobs'
           /\ call'[c].pc = p /\ call'[c].job = call[c].job
           /\ call'[c].fd = call[c].fd
           /\ \A d \in Client : d # c => call'[d] = call[d]
<1>1. call \in [Client -> Call] /\ call[c] \in Call
  BY Types DEF TypeInv
<1> DEFINE w == [call[c] EXCEPT !.pc = p]
<1>2. w \in Call /\ w.pc = p /\ w.job = call[c].job /\ w.fd = call[c].fd
  BY <1>1, CallMoved
<1>3. call' = [call EXCEPT ![c] = w]
  BY <1>1 DEF Goto
<1> HIDE DEF w
<1>4. call' \in [Client -> Call] /\ call'[c] = w
      /\ \A d \in Client : d # c => call'[d] = call[d]
  BY <1>1, <1>2, <1>3
<1>5. CallsNameJobs'
  BY <1>2, <1>4 DEF CallsNameJobs, TypeInv
<1> QED
  BY <1>2, <1>4, <1>5

LEMMA SyncEnds ==
    ASSUME NEW c \in Client, NEW j \in Job, NEW o \in {"status", "cleanup"}, NEW s
    PROVE  /\ AfterSync(c, j, o, s) \in Call
           /\ AfterSync(c, j, o, s).pc \in {"idle", "act"}
           /\ AfterSync(c, j, o, s).pc # "idle" =>
                AfterSync(c, j, o, s).job = j
<1>1. CASE o # "status" /\ s \in TERMINAL_STATES
  <2>1. AfterSync(c, j, o, s) = [Idle EXCEPT !.pc = "act", !.op = o, !.job = j]
    BY <1>1 DEF AfterSync
  <2>2. /\ [Idle EXCEPT !.pc = "act", !.op = o, !.job = j] \in Call
        /\ [Idle EXCEPT !.pc = "act", !.op = o, !.job = j].pc = "act"
        /\ [Idle EXCEPT !.pc = "act", !.op = o, !.job = j].job = j
    BY DEF Idle, Call, CallPC, RawStates
  <2> QED
    BY <2>1, <2>2
<1>2. CASE ~(o # "status" /\ s \in TERMINAL_STATES)
  <2>1. AfterSync(c, j, o, s) = Idle
    BY <1>2 DEF AfterSync
  <2> QED
    BY <2>1, IdleFields
<1> QED
  BY <1>1, <1>2

\* The steps of the calls keep the types.  Sync and Interrupt begin a call.
LEMMA SyncTypes ==
    ASSUME TypeInv, NEW c \in Client, NEW j \in Job,
           NEW o \in {"status", "cleanup"}, Sync(c, j, o)
    PROVE  TypeInv'
<1> USE StateSets
<1> DEFINE s == job[j].state
           asks == /\ provider[j] = "claude" /\ ~Terminal(j)
                   /\ job[j].prov /\ s # "interrupting"
           judged == IF provider[j] = "claude" \/ Terminal(j) \/ s = "launching" THEN s
                     ELSE IF ~job[j].pid \/ ~job[j].ident THEN "failed"
                     ELSE IF ProcessMatches(j) THEN s
                     ELSE IF s = "interrupting" THEN "interrupted" ELSE "failed"
<1>0. TypeOK /\ CallsNameJobs /\ job[j] \in Rec /\ s \in States
      /\ call \in [Client -> Call]
  BY Types, RecordTypes DEF TypeInv
<1>1. judged \in States
  BY <1>0
<1>2. /\ IF asks
         THEN /\ \E answer \in {StatusOf(worker[j]), "unknown"} :
                    call' = [call EXCEPT ![c] = [Idle EXCEPT !.pc = "poll", !.op = o,
                                                    !.job = j, !.raw = answer]]
              /\ fresh' = [fresh EXCEPT ![c] = TRUE]
              /\ UNCHANGED job
         ELSE /\ IF judged # s THEN SaveState(j, judged) ELSE UNCHANGED <<job, fresh>>
              /\ call' = [call EXCEPT ![c] = AfterSync(c, j, o, judged)]
      /\ UNCHANGED <<given, lock, launch, worker, procVars, faults>>
  BY DEF Sync
<1> HIDE DEF asks, judged, s
<1>3. CASE asks
  <2>1. PICK answer \in {StatusOf(worker[j]), "unknown"} :
          call' = [call EXCEPT ![c] = [Idle EXCEPT !.pc = "poll", !.op = o,
                                          !.job = j, !.raw = answer]]
    BY <1>2, <1>3
  <2>2. answer \in RawStates /\ answer # "none"
    BY DEF StatusOf, RawStates
  <2> DEFINE v == [Idle EXCEPT !.pc = "poll", !.op = o, !.job = j, !.raw = answer]
  <2>3. v \in Call /\ v.pc = "poll" /\ v.job = j /\ v.raw = answer
    BY <2>2 DEF Idle, Call, CallPC
  <2> HIDE DEF v
  <2>4. call' = [call EXCEPT ![c] = v]
    BY <2>1 DEF v
  <2>5. call' \in [Client -> Call] /\ CallsNameJobs'
    BY <1>0, <2>2, <2>3, <2>4 DEF CallsNameJobs
  <2>6. fresh' \in [Client -> BOOLEAN] /\ job' \in [Job -> Rec]
    BY <1>0, <1>2, <1>3, Types
  <2> QED
    BY <1>0, <1>2, <2>5, <2>6, Types, TypesNext DEF TypeInv, given, procVars
<1>4. CASE ~asks
  <2> DEFINE v == AfterSync(c, j, o, judged)
  <2>1. v \in Call /\ v.pc \in {"idle", "act"} /\ (v.pc # "idle" => v.job = j)
    BY SyncEnds
  <2> HIDE DEF v
  <2>2. call' = [call EXCEPT ![c] = v]
    BY <1>2, <1>4 DEF v
  <2>3. call' \in [Client -> Call] /\ CallsNameJobs'
    BY <1>0, <2>1, <2>2 DEF CallsNameJobs
  <2>4. fresh' \in [Client -> BOOLEAN] /\ job' \in [Job -> Rec]
    BY <1>0, <1>1, <1>2, <1>4, StateSaved, Types
  <2> QED
    BY <1>0, <1>2, <2>3, <2>4, Types, TypesNext DEF TypeInv, given, procVars
<1> QED
  BY <1>3, <1>4

LEMMA InterruptTypes ==
    ASSUME TypeInv, NEW c \in Client, NEW j \in Job, Interrupt(c, j)
    PROVE  TypeInv'
<1> USE StateSets
<1>0. TypeOK /\ CallsNameJobs /\ job[j] \in Rec /\ call \in [Client -> Call]
  BY Types DEF TypeInv
<1>1. "stop" \in CallPC /\ "open" \in CallPC
  BY DEF CallPC
<1>2. ASSUME NEW v \in Call, call' = [call EXCEPT ![c] = v],
             v.pc # "poll", v.pc # "idle" => v.job = j
      PROVE  call' \in [Client -> Call] /\ CallsNameJobs'
  BY <1>0, <1>2 DEF CallsNameJobs
<1>3. job' \in [Job -> Rec] /\ fresh' \in [Client -> BOOLEAN]
  BY <1>0, StateSaved, Types DEF Interrupt
<1>4. /\ [Idle EXCEPT !.pc = "stop", !.job = j] \in Call
      /\ [Idle EXCEPT !.pc = "stop", !.job = j].pc = "stop"
      /\ [Idle EXCEPT !.pc = "stop", !.job = j].job = j
  BY <1>1, CallOfJob
<1>5. /\ [Idle EXCEPT !.pc = "open", !.job = j] \in Call
      /\ [Idle EXCEPT !.pc = "open", !.job = j].pc = "open"
      /\ [Idle EXCEPT !.pc = "open", !.job = j].job = j
  BY <1>1, CallOfJob
<1>6. \/ call' = call
      \/ call' = [call EXCEPT ![c] = Idle]
      \/ call' = [call EXCEPT ![c] = [Idle EXCEPT !.pc = "stop", !.job = j]]
      \/ call' = [call EXCEPT ![c] = [Idle EXCEPT !.pc = "open", !.job = j]]
  BY DEF Interrupt
<1>7. call' \in [Client -> Call] /\ CallsNameJobs'
  <2>1. CASE call' = call
    BY <1>0, <2>1 DEF CallsNameJobs
  <2>2. CASE call' = [call EXCEPT ![c] = Idle]
    BY <1>2, <2>2, IdleFields
  <2>3. CASE call' = [call EXCEPT ![c] = [Idle EXCEPT !.pc = "stop", !.job = j]]
    BY <1>2, <1>4, <2>3
  <2>4. CASE call' = [call EXCEPT ![c] = [Idle EXCEPT !.pc = "open", !.job = j]]
    BY <1>2, <1>5, <2>4
  <2> QED
    BY <1>6, <2>1, <2>2, <2>3, <2>4
<1>8. lock' \in [Job -> {"free", "launch"} \cup Client]
  BY <1>0, Types DEF Interrupt
<1> QED
  BY <1>0, <1>3, <1>7, <1>8, Types, TypesNext DEF TypeInv, Interrupt, given, procVars

LEMMA CallStepTypes ==
    ASSUME TypeInv, NEW c \in Client, CallStep(c)
    PROVE  TypeInv'
<1> USE StateSets
<1> DEFINE j == call[c].job
<1>0. /\ TypeOK /\ CallsNameJobs /\ call \in [Client -> Call] /\ call[c] \in Call
      /\ call[c].pc # "idle" => j \in Job /\ job[j] \in Rec /\ job[j].state \in States
      /\ call[c].op \in {"status", "cleanup"} /\ call[c].raw \in RawStates
  BY Types, RecordTypes, CallTypes DEF TypeInv, CallsNameJobs
<1>a. {"recheck", "signal", "sigerr", "stopped", "stopfail"} \subseteq CallPC
  BY DEF CallPC
<1>b. ASSUME NEW i \in Job, Release(i, c)
      PROVE  lock' \in [Job -> {"free", "launch"} \cup Client]
  BY <1>0, <1>b, Types DEF Release
<1>1. CASE SyncApply(c)
  <2> DEFINE counts == fresh[c] /\ ~Terminal(j)
             s == IF counts THEN call[c].raw ELSE job[j].state
  <2>1. /\ call[c].pc = "poll" /\ Free(j)
        /\ IF ~Exists(j)
           THEN Hangup(c) /\ UNCHANGED job /\ fresh' = [fresh EXCEPT ![c] = FALSE]
           ELSE /\ call' = [call EXCEPT ![c] = AfterSync(c, j, call[c].op, s)]
                /\ IF counts THEN SaveState(j, s)
                   ELSE UNCHANGED job /\ fresh' = [fresh EXCEPT ![c] = FALSE]
        /\ UNCHANGED <<given, lock, launch, worker, procVars, faults>>
    BY <1>1 DEF SyncApply
  <2>2. j \in Job /\ job[j] \in Rec /\ s \in States
    BY <1>0, <2>1
  <2> HIDE DEF counts, s
  <2>3. call' \in [Client -> Call] /\ CallsNameJobs'
    <3>1. CASE ~Exists(j)
      BY <2>1, <3>1, Hangs
    <3>2. CASE Exists(j)
      <4> DEFINE v == AfterSync(c, j, call[c].op, s)
      <4>1. v \in Call /\ v.pc \in {"idle", "act"} /\ (v.pc # "idle" => v.job = j)
        BY <1>0, <2>2, SyncEnds
      <4> HIDE DEF v
      <4>2. call' = [call EXCEPT ![c] = v]
        BY <2>1, <3>2 DEF v
      <4> QED
        BY <1>0, <2>2, <4>1, <4>2 DEF CallsNameJobs
    <3> QED
      BY <3>1, <3>2
  <2>4. fresh' \in [Client -> BOOLEAN] /\ job' \in [Job -> Rec]
    BY <1>0, <2>1, <2>2, StateSaved, Types
  <2> QED
    BY <1>0, <2>1, <2>3, <2>4, Types, TypesNext DEF TypeInv, given, procVars
<1>2. CASE Cleanup(c)
  <2>1. call[c].pc # "idle" /\ Hangup(c)
    BY <1>2 DEF Cleanup
  <2>2. call' \in [Client -> Call] /\ CallsNameJobs'
    BY <2>1, Hangs
  <2>3. job' \in [Job -> Rec] /\ fresh' \in [Client -> BOOLEAN]
    BY <1>0, <1>2, <2>1, StateSaved, Types DEF Cleanup
  <2>4. worker' \in [Job -> {"none", "busy", "done", "failed", "stopped", "removed"}]
    BY <1>0, <1>2, <2>1, Types DEF Cleanup
  <2> QED
    BY <1>0, <1>2, <2>2, <2>3, <2>4, Types, TypesNext
       DEF TypeInv, Cleanup, given, procVars
<1>3. CASE OpenPidfd(c)
  <2>1. call[c].pc = "open" /\ j \in Job
    BY <1>0, <1>3 DEF OpenPidfd
  <2>2. call' \in [Client -> Call] /\ CallsNameJobs'
    <3>1. CASE runner[j] = "gone"
      BY <1>3, <3>1, Hangs DEF OpenPidfd
    <3>2. CASE runner[j] # "gone"
      <4> DEFINE v == [call[c] EXCEPT !.pc = "recheck",
                          !.fd = IF runner[j] = "reused" THEN "other" ELSE "runner"]
      <4>1. v \in Call /\ v.pc = "recheck" /\ v.job = j
        BY <1>0, <1>a DEF Call
      <4>2. call' = [call EXCEPT ![c] = v]
        BY <1>0, <1>3, <3>2 DEF OpenPidfd
      <4> HIDE DEF v
      <4> QED
        BY <1>0, <2>1, <4>1, <4>2 DEF CallsNameJobs
    <3> QED
      BY <3>1, <3>2
  <2>3. job' \in [Job -> Rec] /\ fresh' \in [Client -> BOOLEAN]
    BY <1>0, <1>3, <2>1, StateSaved, Types DEF OpenPidfd
  <2>4. lock' \in [Job -> {"free", "launch"} \cup Client]
    BY <1>0, <1>b, <1>3, <2>1, Types DEF OpenPidfd
  <2> QED
    BY <1>0, <1>3, <2>2, <2>3, <2>4, Types, TypesNext
       DEF TypeInv, OpenPidfd, given, procVars
<1>4. CASE Recheck(c)
  <2>1. call[c].pc = "recheck" /\ j \in Job
    BY <1>0, <1>4 DEF Recheck
  <2>2. call' \in [Client -> Call] /\ CallsNameJobs'
    BY <1>a, <1>4, <2>1, Hangs, Goes DEF Recheck
  <2>3. job' \in [Job -> Rec] /\ fresh' \in [Client -> BOOLEAN]
    BY <1>0, <1>4, <2>1, StateSaved, Types DEF Recheck
  <2>4. lock' \in [Job -> {"free", "launch"} \cup Client]
    BY <1>0, <1>b, <1>4, <2>1 DEF Recheck
  <2> QED
    BY <1>0, <1>4, <2>2, <2>3, <2>4, Types, TypesNext
       DEF TypeInv, Recheck, given, procVars
<1>5. CASE SignalRunner(c)
  <2>1. call[c].pc = "signal" /\ j \in Job
    BY <1>0, <1>5 DEF SignalRunner
  <2>2. call' \in [Client -> Call] /\ CallsNameJobs'
    BY <1>a, <1>5, <2>1, Hangs, Goes DEF SignalRunner
  <2>3. Terminate(j) \/ UNCHANGED procVars
    BY <1>5 DEF SignalRunner
  <2>4. /\ runner' \in [Job -> Alive \cup {"none", "zombie", "gone", "reused"}]
        /\ flag' \in [Job -> BOOLEAN]
        /\ child' \in [Job -> {"none", "busy", "signalled", "ok", "bad"}]
    <3>1. CASE UNCHANGED procVars
      BY <1>0, <3>1, Types DEF procVars
    <3>2. CASE Terminate(j)
      <4>1. runner' \in [Job -> Alive \cup {"none", "zombie", "gone", "reused"}]
        BY <1>0, <2>1, <3>2, Types DEF Terminate
      <4>2. flag' \in [Job -> BOOLEAN]
        BY <1>0, <2>1, <3>2, Types DEF Terminate
      <4>3. child' \in [Job -> {"none", "busy", "signalled", "ok", "bad"}]
        BY <1>0, <2>1, <3>2, Types DEF Terminate
      <4> QED
        BY <4>1, <4>2, <4>3
    <3> QED
      BY <2>3, <3>1, <3>2
  <2>5. faults' \in 0 .. MaxFaults
    BY <1>0, <1>5, Types, FaultsAssumption DEF SignalRunner, Fault
  <2> QED
    BY <1>0, <1>5, <2>2, <2>4, <2>5, Types, TypesNext DEF TypeInv, SignalRunner, given
<1>6. CASE SignalFailed(c)
  <2>1. call[c].pc # "idle" /\ Hangup(c)
    BY <1>6 DEF SignalFailed
  <2>2. call' \in [Client -> Call] /\ CallsNameJobs'
    BY <2>1, Hangs
  <2>3. job' \in [Job -> Rec] /\ fresh' \in [Client -> BOOLEAN]
    BY <1>0, <1>6, <2>1, StateSaved, Types DEF SignalFailed
  <2> QED
    BY <1>0, <1>6, <2>2, <2>3, Types, TypesNext DEF TypeInv, SignalFailed, given, procVars
<1>7. CASE StopClaude(c)
  <2>1. call[c].pc = "stop" /\ j \in Job
    BY <1>0, <1>7 DEF StopClaude
  <2>2. call' \in [Client -> Call] /\ CallsNameJobs'
    BY <1>a, <1>7, <2>1, Goes DEF StopClaude
  <2>3. worker' \in [Job -> {"none", "busy", "done", "failed", "stopped", "removed"}]
    BY <1>0, <1>7, <2>1, Types DEF StopClaude, StopSession
  <2> QED
    BY <1>0, <1>7, <2>2, <2>3, Types, TypesNext DEF TypeInv, StopClaude, given, procVars
<1>8. CASE StopRecord(c)
  <2>1. call[c].pc # "idle" /\ Hangup(c)
    BY <1>8 DEF StopRecord
  <2>2. call' \in [Client -> Call] /\ CallsNameJobs'
    BY <2>1, Hangs
  <2>3. job' \in [Job -> Rec] /\ fresh' \in [Client -> BOOLEAN]
    BY <1>0, <1>8, <2>1, StateSaved, Types DEF StopRecord
  <2> QED
    BY <1>0, <1>8, <2>2, <2>3, Types, TypesNext DEF TypeInv, StopRecord, given, procVars
<1> QED
  BY <1>1, <1>2, <1>3, <1>4, <1>5, <1>6, <1>7, <1>8 DEF CallStep

LEMMA DeathTypes ==
    ASSUME TypeInv, ServerDies
    PROVE  TypeInv'
<1>0. TypeOK /\ CallsNameJobs /\ call \in [Client -> Call]
  BY Types DEF TypeInv
<1>1. faults' \in 0 .. MaxFaults
  BY <1>0, Types, FaultsAssumption DEF ServerDies, Fault
<1>2. ASSUME NEW c \in Client, call[c].pc # "idle", Hangup(c), UNCHANGED launch,
             lock' = [j \in Job |-> IF lock[j] = c THEN "free" ELSE lock[j]],
             fresh' = [fresh EXCEPT ![c] = FALSE]
      PROVE  TypeInv'
  <2>1. call' \in [Client -> Call] /\ CallsNameJobs'
    BY <1>2, Hangs
  <2>2. lock' \in [Job -> {"free", "launch"} \cup Client]
    BY <1>0, <1>2, Types
  <2> QED
    BY <1>0, <1>1, <1>2, <2>1, <2>2, Types, TypesNext
       DEF TypeInv, ServerDies, given, procVars
<1>3. ASSUME NEW j \in Job, EndLaunch(j), Release(j, "launch"), UNCHANGED <<call, fresh>>
      PROVE  TypeInv'
  <2>1. lock' \in [Job -> {"free", "launch"} \cup Client]
    BY <1>0, <1>3, Types DEF Release
  <2>2. CallsNameJobs'
    BY <1>0, <1>3 DEF CallsNameJobs
  <2> QED
    BY <1>0, <1>1, <1>3, <2>1, <2>2, Types, TypesNext
       DEF TypeInv, ServerDies, given, procVars, EndLaunch
<1> QED
  BY <1>2, <1>3 DEF ServerDies

LEMMA TypesKept == TypeInv /\ [Next]_vars => TypeInv'
<1> SUFFICES ASSUME TypeInv, [Next]_vars PROVE TypeInv'
  OBVIOUS
<1>1. CASE Next
  BY <1>1, LaunchTypes, RunnerTypes, SyncTypes, InterruptTypes, CallStepTypes, DeathTypes
     DEF Next
<1>2. CASE UNCHANGED vars
  BY <1>2, Types, TypesNext DEF TypeInv, CallsNameJobs, vars, given, procVars
<1> QED
  BY <1>1, <1>2

LEMMA TypesBegin == Init => TypeInv
<1> SUFFICES ASSUME Init PROVE TypeInv
  OBVIOUS
<1>1. NoRecord \in Rec
  BY DEF NoRecord, Rec, States
<1>2. call \in [Client -> Call] /\ CallsNameJobs
  BY IdleFields DEF Init, CallsNameJobs
<1>3. TypeOK
  BY <1>1, <1>2, FaultsAssumption, Types DEF Init, Providers, Origins
<1> QED
  BY <1>2, <1>3 DEF TypeInv

\* The fields of the records, of the calls and of the processes keep their types,
\* whatever handler runs and whoever dies.
THEOREM TypeCorrect == Spec => []TypeOK
<1>1. TypeInv => TypeOK
  BY DEF TypeInv
<1> QED
  BY <1>1, TypesBegin, TypesKept, PTL DEF Spec

-----------------------------------------------------------------------------
\* The records and their runners.
LEMMA Focus ==
    ASSUME IInv, NEW j \in Job, Only(j), FreshKept,
           JobInv(j)', Steady(j), Final(j), Sticks(j)
    PROVE  StepOK
<1> SUFFICES ASSUME NEW i \in Job, i # j
             PROVE  JobInv(i)' /\ Steady(i) /\ Final(i) /\ Sticks(i)
  BY DEF StepOK
<1>1. /\ job'[i] = job[i] /\ provider'[i] = provider[i] /\ launch'[i] = launch[i]
      /\ lock'[i] = lock[i] /\ runner'[i] = runner[i] /\ child'[i] = child[i]
  BY DEF Only
<1>2. JobInv(i)
  BY DEF IInv
<1>3. JobInv(i)'
  BY <1>1, <1>2 DEF JobInv, LaunchInv, ProviderInv, RunnerInv, Terminal
<1>4. Steady(i)
  BY <1>1 DEF Steady, FreshKept
<1>5. Final(i) /\ Sticks(i)
  BY <1>1 DEF Final, Sticks
<1> QED
  BY <1>3, <1>4, <1>5

LEMMA NewJobStep ==
    ASSUME IInv, NEW j \in Job, NEW p \in Providers, NEW o \in Origins, NewJob(j, p, o)
    PROVE  StepOK
<1>1. /\ TypeInv /\ TypeOK /\ JobInv(j) /\ job[j].state = "none"
      /\ launch[j] = "none" /\ runner[j] = "none" /\ child[j] = "none"
      /\ lock[j] # "launch"
  BY DEF IInv, TypeInv, NewJob, JobInv, LaunchInv
<1>2. /\ job'[j].state = "starting"
      /\ \A i \in Job : i # j => job'[i] = job[i]
      /\ \A c \in Client : fresh'[c] => fresh[c] /\ call[c].job # j
  BY <1>1, StateSaved, StateSets DEF NewJob
<1>3. /\ provider'[j] = p /\ launch'[j] = "created" /\ lock' = lock
      /\ runner' = runner /\ child' = child
      /\ \A i \in Job : i # j => provider'[i] = provider[i] /\ launch'[i] = launch[i]
  BY <1>1, Types DEF NewJob, procVars
<1>4. Only(j) /\ FreshKept
  BY <1>2, <1>3 DEF Only, FreshKept
<1>5. JobInv(j)'
  BY <1>1, <1>2, <1>3 DEF JobInv, LaunchInv, ProviderInv, RunnerInv, Alive, Armed
<1>6. Steady(j)
  BY <1>1, <1>2, <1>3 DEF Steady
<1>7. Final(j) /\ Sticks(j)
  BY <1>1 DEF Final, Sticks, Terminal, TERMINAL_STATES
<1> QED
  BY <1>4, <1>5, <1>6, <1>7, Focus

LEMMA LaunchJobs ==
    ASSUME IInv, NEW j \in Job, LaunchStep(j)
    PROVE  StepOK
<1> USE StateSets
<1>0. /\ TypeInv /\ TypeOK /\ JobInv(j) /\ LaunchInv(j) /\ ProviderInv(j) /\ RunnerInv(j)
      /\ job[j] \in Rec /\ job[j].state \in States
  BY Types, RecordTypes DEF IInv, TypeInv, JobInv
<1>a. ASSUME launch[j] \notin {"none", "created", "locked", "spawned"}
      PROVE  /\ launch[j] # "done" => runner[j] = "none" /\ child[j] = "none"
             /\ launch[j] # "done" => provider[j] = "claude" /\ lock[j] # "launch"
  BY <1>0, <1>a, Types DEF LaunchInv, ProviderInv
<1>1. CASE LaunchBegin(j)
  <2>1. /\ runner[j] = "none" /\ child[j] = "none" /\ provider[j] = "codex"
        /\ Free(j) /\ launch[j] = "created" /\ lock[j] = "free"
        /\ provider' = provider /\ runner' = runner /\ child' = child /\ call' = call
    BY <1>0, <1>1 DEF LaunchBegin, LaunchInv, given, procVars, Free
  <2>2. CASE ~Exists(j) \/ job[j].state \in Interrupted
    <3>1. /\ job' = job /\ fresh' = fresh /\ lock' = lock /\ launch'[j] = "done"
          /\ \A i \in Job : i # j => launch'[i] = launch[i]
      BY <1>0, <1>1, <2>2, Types DEF LaunchBegin, EndLaunch
    <3>2. Only(j) /\ FreshKept
      BY <2>1, <3>1 DEF Only, FreshKept
    <3>3. job[j].state # "none"
      BY <1>0, <2>1 DEF LaunchInv
    <3>4. JobInv(j)'
      BY <1>0, <2>1, <3>1, <3>3 DEF JobInv, LaunchInv, ProviderInv, RunnerInv, Alive, Armed
    <3>5. Steady(j)
      BY <2>1, <3>1 DEF Steady
    <3>6. Final(j) /\ Sticks(j)
      BY <2>1, <3>1 DEF Final, Sticks
    <3> QED
      BY <3>2, <3>4, <3>5, <3>6, Focus
  <2>3. CASE ~(~Exists(j) \/ job[j].state \in Interrupted)
    <3> DEFINE w == [job[j] EXCEPT !.state = "launching", !.pid = FALSE, !.ident = FALSE]
    <3>1. w \in Rec /\ w.state = "launching" /\ w.pid = FALSE
      BY <1>0 DEF Rec
    <3>2. SaveRecord(j, w) /\ lock' = [lock EXCEPT ![j] = "launch"]
          /\ launch' = [launch EXCEPT ![j] = "locked"]
      BY <1>1, <2>3 DEF LaunchBegin
    <3> HIDE DEF w
    <3>3. /\ job'[j] = w /\ lock'[j] = "launch" /\ launch'[j] = "locked"
          /\ \A i \in Job : i # j =>
                job'[i] = job[i] /\ lock'[i] = lock[i] /\ launch'[i] = launch[i]
          /\ \A c \in Client : fresh'[c] => fresh[c] /\ call[c].job # j
      BY <1>0, <3>1, <3>2, Saves, Types
    <3>4. Only(j) /\ FreshKept
      BY <2>1, <3>3 DEF Only, FreshKept
    <3>5. JobInv(j)'
      BY <1>0, <2>1, <3>1, <3>3 DEF JobInv, LaunchInv, ProviderInv, RunnerInv, Alive, Armed
    <3>6. Steady(j)
      BY <2>1, <3>1, <3>3, ClientAssumption DEF Steady
    <3>7. Final(j) /\ Sticks(j)
      BY <2>1, <2>3 DEF Final, Sticks, Interrupted
    <3> QED
      BY <3>4, <3>5, <3>6, <3>7, Focus
  <2> QED
    BY <2>2, <2>3
<1>2. CASE LaunchPopen(j)
  <2>1. /\ runner[j] = "none" /\ child[j] = "none" /\ provider[j] = "codex"
        /\ launch[j] = "locked" /\ lock[j] = "launch"
        /\ job[j].state = "launching" /\ ~job[j].pid
        /\ provider' = provider /\ child' = child /\ call' = call
    BY <1>0, <1>2 DEF LaunchPopen, LaunchInv, given
  <2>2. CASE /\ runner' = [runner EXCEPT ![j] = "handshake"]
             /\ launch' = [launch EXCEPT ![j] = "spawned"]
             /\ UNCHANGED <<job, fresh, lock>>
    <3>1. /\ job' = job /\ fresh' = fresh /\ lock' = lock /\ launch'[j] = "spawned"
          /\ runner'[j] = "handshake"
          /\ \A i \in Job : i # j => launch'[i] = launch[i] /\ runner'[i] = runner[i]
      BY <1>0, <2>2, Types
    <3>2. Only(j) /\ FreshKept
      BY <2>1, <3>1 DEF Only, FreshKept
    <3>3. JobInv(j)'
      BY <1>0, <2>1, <3>1 DEF JobInv, LaunchInv, ProviderInv, RunnerInv, Alive, Armed
    <3>4. Steady(j)
      BY <2>1, <3>1 DEF Steady
    <3>5. Final(j) /\ Sticks(j)
      BY <2>1, <3>1 DEF Final, Sticks
    <3> QED
      BY <3>2, <3>3, <3>4, <3>5, Focus
  <2>3. CASE SaveState(j, "failed") /\ EndLaunch(j) /\ Release(j, "launch")
             /\ UNCHANGED runner
    <3>1. /\ job'[j].state = "failed" /\ lock'[j] = "free" /\ launch'[j] = "done"
          /\ runner' = runner
          /\ \A i \in Job : i # j =>
                job'[i] = job[i] /\ lock'[i] = lock[i] /\ launch'[i] = launch[i]
          /\ \A c \in Client : fresh'[c] => fresh[c] /\ call[c].job # j
      BY <1>0, <2>1, <2>3, StateSaved, Types DEF EndLaunch, Release
    <3>2. Only(j) /\ FreshKept
      BY <2>1, <3>1 DEF Only, FreshKept
    <3>3. JobInv(j)'
      BY <1>0, <2>1, <3>1 DEF JobInv, LaunchInv, ProviderInv, RunnerInv, Alive, Armed
    <3>4. Steady(j)
      BY <2>1, <3>1, ClientAssumption DEF Steady
    <3>5. Final(j) /\ Sticks(j)
      BY <2>1, <3>1 DEF Final, Sticks
    <3> QED
      BY <3>2, <3>3, <3>4, <3>5, Focus
  <2> QED
    BY <1>2, <2>2, <2>3 DEF LaunchPopen
<1>3. CASE LaunchPublish(j)
  <2>1. /\ child[j] = "none" /\ provider[j] = "codex"
        /\ runner[j] \in {"handshake", "zombie", "gone", "reused"}
        /\ launch[j] = "spawned" /\ lock[j] = "launch" /\ job[j].state = "launching"
        /\ provider' = provider /\ runner' = runner /\ child' = child /\ call' = call
    BY <1>0, <1>3 DEF LaunchPublish, LaunchInv, given, procVars
  <2>2. PICK readable \in BOOLEAN :
          SaveRecord(j, [job[j] EXCEPT !.pid = TRUE, !.ident = readable,
                            !.thread = @ \/ origin[j] = "followup",
                            !.state = IF readable THEN "running" ELSE "failed"])
    BY <1>3 DEF LaunchPublish
  <2> DEFINE w == [job[j] EXCEPT !.pid = TRUE, !.ident = readable,
                            !.thread = @ \/ origin[j] = "followup",
                            !.state = IF readable THEN "running" ELSE "failed"]
  <2>3. w \in Rec /\ w.pid = TRUE /\ w.ident = readable
        /\ w.state = IF readable THEN "running" ELSE "failed"
    BY <1>0 DEF Rec
  <2> HIDE DEF w
  <2>4. SaveRecord(j, w)
    BY <2>2 DEF w
  <2>5. /\ job'[j] = w /\ lock'[j] = "free" /\ launch'[j] = "done"
        /\ \A i \in Job : i # j =>
              job'[i] = job[i] /\ lock'[i] = lock[i] /\ launch'[i] = launch[i]
        /\ \A c \in Client : fresh'[c] => fresh[c] /\ call[c].job # j
    BY <1>0, <1>3, <2>1, <2>3, <2>4, Saves, Types DEF LaunchPublish, EndLaunch, Release
  <2>6. Only(j) /\ FreshKept
    BY <2>1, <2>5 DEF Only, FreshKept
  <2>7. JobInv(j)'
    BY <1>0, <2>1, <2>3, <2>5
       DEF JobInv, LaunchInv, ProviderInv, RunnerInv, Alive, Armed, Terminal, TERMINAL_STATES
  <2>8. Steady(j)
    BY <2>1, <2>3, <2>5, ClientAssumption DEF Steady
  <2>9. Final(j) /\ Sticks(j)
    BY <2>1 DEF Final, Sticks
  <2> QED
    BY <2>6, <2>7, <2>8, <2>9, Focus
<1>4. ASSUME launch[j] = "created", provider[j] = "claude",
             launch'[j] \in {"done", "ran", "refused"}, job' = job, fresh' = fresh,
             provider' = provider, lock' = lock, runner' = runner, child' = child,
             \A i \in Job : i # j => launch'[i] = launch[i]
      PROVE  StepOK
  <2>1. /\ runner[j] = "none" /\ child[j] = "none" /\ lock[j] # "launch"
        /\ job[j].state # "none"
    BY <1>0, <1>4 DEF LaunchInv
  <2>2. Only(j) /\ FreshKept
    BY <1>4 DEF Only, FreshKept
  <2>3. JobInv(j)'
    BY <1>0, <1>4, <2>1 DEF JobInv, LaunchInv, ProviderInv, RunnerInv, Alive, Armed
  <2>4. Steady(j) /\ Final(j) /\ Sticks(j)
    BY <1>4 DEF Steady, Final, Sticks
  <2> QED
    BY <2>2, <2>3, <2>4, Focus
<1>5. CASE ClaudeRun(j)
  <2>1. /\ launch'[j] \in {"done", "ran", "refused"}
        /\ \A i \in Job : i # j => launch'[i] = launch[i]
    BY <1>0, <1>5, Types DEF ClaudeRun, EndLaunch
  <2> QED
    BY <1>4, <1>5, <2>1 DEF ClaudeRun, given, procVars
\* The later records of a Claude launch: written in the lock, if there is a record.
<1>6. ASSUME NEW r \in Rec, r.state \notin {"none", "starting", "launching", "succeeded"},
             job[j].state = "interrupting" => r.state # "running",
             launch[j] \in {"ran", "refused", "stop", "stopped", "stopfail"}, Free(j),
             SaveIfExists(j, r), launch'[j] \in {"done", "stop"},
             provider' = provider, lock' = lock, runner' = runner, child' = child,
             \A i \in Job : i # j => launch'[i] = launch[i]
      PROVE  StepOK
  <2>1. /\ runner[j] = "none" /\ child[j] = "none" /\ provider[j] = "claude"
        /\ lock[j] = "free" /\ job[j].state # "none"
    BY <1>0, <1>6 DEF LaunchInv, ProviderInv, Free
  <2>2. /\ job'[j] \in {r, job[j]} /\ job'[j].state # "none"
        /\ \A i \in Job : i # j => job'[i] = job[i]
        /\ \A c \in Client : fresh'[c] => fresh[c]
        /\ \A c \in Client : fresh'[c] /\ call[c].job = j => job'[j] = job[j]
    BY <1>0, <1>6, <2>1, Saves DEF SaveIfExists
  <2>3. Only(j) /\ FreshKept
    BY <1>6, <2>2 DEF Only, FreshKept
  <2>4. JobInv(j)'
    BY <1>0, <1>6, <2>1, <2>2 DEF JobInv, LaunchInv, ProviderInv, RunnerInv, Alive, Armed
  <2>5. Steady(j)
    BY <1>6, <2>1, <2>2, ClientAssumption DEF Steady
  <2>6. Final(j) /\ Sticks(j)
    BY <1>6, <2>2 DEF Final, Sticks
  <2> QED
    BY <2>3, <2>4, <2>5, <2>6, Focus
<1>7. CASE ClaudeRefused(j)
  <2> DEFINE w == [job[j] EXCEPT !.state =
                      IF @ \in Interrupted THEN "interrupted" ELSE "failed"]
  <2>1. w \in Rec /\ w.state \in {"interrupted", "failed"}
    BY <1>0 DEF Rec
  <2>2. SaveIfExists(j, w)
    BY <1>7 DEF ClaudeRefused
  <2> HIDE DEF w
  <2>3. launch'[j] = "done" /\ \A i \in Job : i # j => launch'[i] = launch[i]
    BY <1>0, <1>7, Types DEF ClaudeRefused, EndLaunch
  <2> QED
    BY <1>6, <1>7, <2>1, <2>2, <2>3 DEF ClaudeRefused, given, procVars
<1>8. CASE ClaudeRecord(j)
  <2> DEFINE late == Exists(j) /\ job[j].state \in Interrupted
             w == [job[j] EXCEPT !.prov = TRUE,
                      !.state = IF late THEN "interrupting" ELSE "running"]
  <2>1. w \in Rec /\ w.state \in {"interrupting", "running"}
        /\ w.state = IF late THEN "interrupting" ELSE "running"
    BY <1>0 DEF Rec
  <2>2. SaveIfExists(j, w)
    BY <1>8 DEF ClaudeRecord
  <2>3. job[j].state = "interrupting" => w.state # "running"
    BY <2>1 DEF Exists, Interrupted
  <2> HIDE DEF w
  <2>4. launch'[j] \in {"done", "stop"} /\ \A i \in Job : i # j => launch'[i] = launch[i]
    BY <1>0, <1>8, Types DEF ClaudeRecord
  <2> QED
    BY <1>6, <1>8, <2>1, <2>2, <2>3, <2>4 DEF ClaudeRecord, given, procVars
<1>9. CASE LaunchStopRecord(j)
  <2> DEFINE w == [job[j] EXCEPT !.state =
                      IF launch[j] = "stopped" THEN "interrupted" ELSE "unknown"]
  <2>1. w \in Rec /\ w.state \in {"interrupted", "unknown"}
    BY <1>0 DEF Rec
  <2>2. SaveIfExists(j, w)
    BY <1>9 DEF LaunchStopRecord
  <2> HIDE DEF w
  <2>3. launch'[j] = "done" /\ \A i \in Job : i # j => launch'[i] = launch[i]
    BY <1>0, <1>9, Types DEF LaunchStopRecord, EndLaunch
  <2> QED
    BY <1>6, <1>9, <2>1, <2>2, <2>3 DEF LaunchStopRecord, given, procVars
<1>10. CASE LaunchStop(j)
  <2>1. /\ launch[j] = "stop" /\ launch'[j] \in {"stopped", "stopfail"}
        /\ \A i \in Job : i # j => launch'[i] = launch[i]
        /\ job' = job /\ fresh' = fresh /\ provider' = provider /\ lock' = lock
        /\ runner' = runner /\ child' = child
    BY <1>0, <1>10, Types DEF LaunchStop, given, procVars
  <2>2. Only(j) /\ FreshKept
    BY <2>1 DEF Only, FreshKept
  <2>3. JobInv(j)'
    BY <1>0, <2>1 DEF JobInv, LaunchInv, ProviderInv, RunnerInv, Terminal
  <2>4. Steady(j) /\ Final(j) /\ Sticks(j)
    BY <2>1 DEF Steady, Final, Sticks
  <2> QED
    BY <2>2, <2>3, <2>4, Focus
<1> QED
  BY <1>1, <1>2, <1>3, <1>5, <1>7, <1>8, <1>9, <1>10 DEF LaunchStep

\* The runner, and what becomes of the processes.  A step that writes no record:
LEMMA ProcessStep ==
    ASSUME IInv, NEW j \in Job, job' = job, fresh' = fresh, provider' = provider,
           lock' = lock, launch' = launch, JobInv(j)',
           runner[j] = "reused" => runner'[j] = "reused",
           \A i \in Job : i # j => runner'[i] = runner[i] /\ child'[i] = child[i]
    PROVE  StepOK
<1>1. Only(j) /\ FreshKept
  BY DEF Only, FreshKept
<1>2. Steady(j) /\ Final(j) /\ Sticks(j)
  BY DEF Steady, Final, Sticks
<1> QED
  BY <1>1, <1>2, Focus

\* The runner ends, and writes its last record if there is one to write.
LEMMA RunnerEnds ==
    ASSUME IInv, NEW j \in Job, runner[j] \in Alive, Free(j),
           job'[j].state # "none" \/ job[j].state = "none",
           job'[j].pid = job[j].pid, job'[j].ident = job[j].ident,
           \/ job'[j] = job[j]
           \/ /\ ~Terminal(j) /\ job'[j].state # "none"
              /\ job[j].state = "interrupting" =>
                    job'[j].state \in {"interrupted", "failed"},
           \A c \in Client : fresh'[c] => fresh[c],
           \A c \in Client : fresh'[c] /\ call[c].job = j => job'[j] = job[j],
           provider' = provider, lock' = lock, launch' = launch, child' = child,
           RunnerTo(j, "zombie"), \A i \in Job : i # j => job'[i] = job[i]
    PROVE  StepOK
<1>1. TypeOK /\ JobInv(j) /\ LaunchInv(j) /\ ProviderInv(j) /\ RunnerInv(j)
  BY DEF IInv, TypeInv, JobInv
<1>2. runner'[j] = "zombie" /\ \A i \in Job : i # j => runner'[i] = runner[i]
  BY <1>1, Types DEF RunnerTo
<1>3. Only(j) /\ FreshKept
  BY <1>2 DEF Only, FreshKept
<1>4. runner[j] \notin {"none", "zombie", "gone", "reused"} /\ lock[j] = "free"
  BY DEF Alive, Armed, Free
<1>5. launch[j] \notin {"none", "created", "locked", "spawned"}
  BY <1>1, <1>4 DEF LaunchInv
<1>6. job'[j].state = "none" => job[j].state = "none"
  OBVIOUS
<1>7. JobInv(j)'
  BY <1>1, <1>2, <1>4, <1>5, <1>6 DEF JobInv, LaunchInv, ProviderInv, RunnerInv, Alive, Armed
<1>8. Steady(j)
  BY <1>2, <1>4, ClientAssumption DEF Steady
<1>9. Final(j) /\ Sticks(j)
  BY DEF Final, Sticks
<1> QED
  BY <1>3, <1>7, <1>8, <1>9, Focus

LEMMA RunnerJobs ==
    ASSUME IInv, NEW j \in Job,
           \/ RunnerProcess(j) \/ RunnerKilled(j)
           \/ ChildEnds(j) \/ SessionEnds(j) \/ Reap(j)
    PROVE  StepOK
<1> USE StateSets
<1>0. /\ TypeInv /\ TypeOK /\ JobInv(j) /\ LaunchInv(j) /\ ProviderInv(j) /\ RunnerInv(j)
      /\ job[j] \in Rec /\ job[j].state \in States
  BY Types, RecordTypes DEF IInv, TypeInv, JobInv
<1>a. runner[j] \in Alive => job[j].state # "none" /\ provider[j] = "codex"
  BY <1>0, Types DEF LaunchInv, ProviderInv, Alive, Armed, Providers
<1>b. runner[j] \in Alive \ {"handshake"} => ~Terminal(j) /\ job[j].state # "gone"
  BY <1>0 DEF RunnerInv
<1>c. ASSUME NEW w, RunnerTo(j, w)
      PROVE  runner'[j] = w /\ \A i \in Job : i # j => runner'[i] = runner[i]
  BY <1>0, <1>c, Types DEF RunnerTo
<1>1. CASE Handshake(j)
  <2>1. /\ runner[j] = "handshake" /\ Free(j) /\ runner[j] \in Alive
        /\ provider' = provider /\ lock' = lock /\ launch' = launch /\ child' = child
    BY <1>1 DEF Handshake, given, Alive
  <2>2. CASE Exists(j) /\ job[j].pid /\ job[j].ident
    <3>1. /\ job' = job /\ fresh' = fresh
          /\ RunnerTo(j, IF job[j].state \in Interrupted THEN "refuse" ELSE "setup")
      BY <1>1, <2>2 DEF Handshake
    <3>2. runner'[j] \in {"refuse", "setup"}
          /\ \A i \in Job : i # j => runner'[i] = runner[i]
      BY <1>c, <3>1
    <3>3. launch[j] \notin {"none", "created", "locked", "spawned"} /\ lock[j] = "free"
      BY <1>0, <2>1 DEF LaunchInv, Free
    <3>4. JobInv(j)'
      BY <1>0, <1>a, <2>1, <2>2, <3>1, <3>2, <3>3
         DEF JobInv, LaunchInv, ProviderInv, RunnerInv, Alive, Armed, Terminal
    <3> QED
      BY <2>1, <3>1, <3>2, <3>4, ProcessStep
  <2>3. CASE ~(Exists(j) /\ job[j].pid /\ job[j].ident)
    <3>1. RunnerTo(j, "zombie")
      BY <1>1, <2>3 DEF Handshake
    <3>2. \/ job' = job /\ fresh' = fresh
          \/ ~Terminal(j) /\ SaveState(j, "failed")
      BY <1>1, <2>3 DEF Handshake
    <3>3. CASE job' = job /\ fresh' = fresh
      BY <1>a, <2>1, <3>1, <3>3, RunnerEnds
    <3>4. CASE ~Terminal(j) /\ SaveState(j, "failed")
      <4>1. /\ job'[j].state = "failed" /\ job'[j].pid = job[j].pid
            /\ job'[j].ident = job[j].ident
            /\ \A i \in Job : i # j => job'[i] = job[i]
            /\ \A c \in Client : fresh'[c] => fresh[c] /\ call[c].job # j
        BY <1>0, <3>4, StateSaved
      <4> QED
        BY <2>1, <3>1, <3>4, <4>1, RunnerEnds
    <3> QED
      BY <3>2, <3>3, <3>4
  <2> QED
    BY <2>2, <2>3
<1>2. ASSUME runner[j] \in {"refuse", "setup", "armed", "collect"}, Free(j),
             provider' = provider, lock' = lock, launch' = launch, child' = child,
             RunnerTo(j, "zombie"), NEW r \in Rec, SaveRecord(j, r),
             r.pid = job[j].pid, r.ident = job[j].ident,
             r.state \in {"interrupted", "failed", "succeeded"},
             job[j].state = "interrupting" => r.state \in {"interrupted", "failed"}
      PROVE  StepOK
  <2>1. runner[j] \in Alive /\ ~Terminal(j)
    BY <1>2, <1>b DEF Alive, Armed
  <2>2. /\ job'[j] = r
        /\ \A i \in Job : i # j => job'[i] = job[i]
        /\ \A c \in Client : fresh'[c] => fresh[c] /\ call[c].job # j
    BY <1>0, <1>2, Saves
  <2> QED
    BY <1>2, <2>1, <2>2, RunnerEnds
<1>3. ASSUME runner[j] \in {"refuse", "setup", "armed", "collect"}
      PROVE  Exists(j)
  BY <1>3, <1>a, <1>b DEF Exists, Alive, Armed
<1>4. CASE Refuse(j)
  <2> DEFINE w == [job[j] EXCEPT !.state = "interrupted"]
  <2>1. w \in Rec /\ w.state = "interrupted" /\ w.pid = job[j].pid /\ w.ident = job[j].ident
    BY <1>0 DEF Rec
  <2>2. SaveRecord(j, w)
    BY <1>3, <1>4 DEF Refuse, SaveIfExists
  <2> HIDE DEF w
  <2> QED
    BY <1>2, <1>4, <2>1, <2>2 DEF Refuse, given
<1>5. CASE RunnerRaises(j)
  <2> DEFINE w == [job[j] EXCEPT !.state =
                      IF @ \in Interrupted THEN "interrupted" ELSE "failed"]
  <2>1. w \in Rec /\ w.state \in {"interrupted", "failed"}
        /\ w.pid = job[j].pid /\ w.ident = job[j].ident
    BY <1>0 DEF Rec
  <2>2. SaveRecord(j, w)
    BY <1>3, <1>5 DEF RunnerRaises, SaveIfExists
  <2> HIDE DEF w
  <2> QED
    BY <1>2, <1>5, <2>1, <2>2 DEF RunnerRaises, given
<1>6. CASE Finish(j)
  <2>1. runner[j] = "collect" /\ Exists(j)
    BY <1>3, <1>6 DEF Finish
  <2>2. CASE job[j].state \in Interrupted \/ flag[j]
    <3> DEFINE w == [job[j] EXCEPT !.state = "interrupted"]
    <3>1. w \in Rec /\ w.state = "interrupted"
          /\ w.pid = job[j].pid /\ w.ident = job[j].ident
      BY <1>0 DEF Rec
    <3>2. SaveRecord(j, w)
      BY <1>6, <2>1, <2>2 DEF Finish, SaveState
    <3> HIDE DEF w
    <3> QED
      BY <1>2, <1>6, <3>1, <3>2 DEF Finish, given
  <2>3. CASE ~(job[j].state \in Interrupted \/ flag[j])
    <3>1. PICK heard \in BOOLEAN :
            SaveRecord(j, [job[j] EXCEPT !.thread = @ \/ heard,
                 !.state = IF child[j] = "ok" THEN "succeeded" ELSE "failed"])
      BY <1>6, <2>1, <2>3 DEF Finish
    <3> DEFINE w == [job[j] EXCEPT !.thread = @ \/ heard,
                        !.state = IF child[j] = "ok" THEN "succeeded" ELSE "failed"]
    <3>2. w \in Rec /\ w.state \in {"succeeded", "failed"}
          /\ w.pid = job[j].pid /\ w.ident = job[j].ident
      BY <1>0 DEF Rec
    <3>3. SaveRecord(j, w) /\ job[j].state # "interrupting"
      BY <2>3, <3>1 DEF Interrupted
    <3> HIDE DEF w
    <3> QED
      BY <1>2, <1>6, <3>2, <3>3 DEF Finish, given
  <2> QED
    BY <2>2, <2>3
<1>7. CASE RunnerStep(j)
  <2>1. /\ job' = job /\ fresh' = fresh /\ provider' = provider /\ lock' = lock
        /\ launch' = launch
    BY <1>7 DEF RunnerStep, given
  <2>2. /\ runner[j] \in {"setup", "armed", "opening", "running"}
        /\ runner'[j] \in {"armed", "opening", "running", "collect"}
        /\ \A i \in Job : i # j => runner'[i] = runner[i]
    BY <1>c, <1>7 DEF RunnerStep
  <2>3. \A i \in Job : i # j => child'[i] = child[i]
    BY <1>0, <1>7, Types DEF RunnerStep
  <2>4. /\ launch[j] \notin {"none", "created", "locked", "spawned"}
        /\ job[j].pid /\ job[j].ident /\ ~Terminal(j)
        /\ job[j].state \notin {"none", "gone"} /\ provider[j] # "claude"
    BY <1>0, <1>a, <1>b, <2>2 DEF LaunchInv, RunnerInv, Alive, Armed
  <2>5. JobInv(j)'
    BY <1>0, <2>1, <2>2, <2>4 DEF JobInv, LaunchInv, ProviderInv, RunnerInv, Terminal
  <2> QED
    BY <2>1, <2>2, <2>3, <2>5, ProcessStep
<1>8. CASE RunnerKilled(j)
  <2>1. /\ job' = job /\ fresh' = fresh /\ provider' = provider /\ lock' = lock
        /\ launch' = launch /\ child' = child /\ runner[j] \in Alive
        /\ runner'[j] = "zombie" /\ \A i \in Job : i # j => runner'[i] = runner[i]
    BY <1>c, <1>8 DEF RunnerKilled, given
  <2>2. JobInv(j)'
    BY <1>0, <2>1 DEF JobInv, LaunchInv, ProviderInv, RunnerInv, Alive, Armed, Terminal
  <2> QED
    BY <2>1, <2>2, ProcessStep DEF Alive, Armed
<1>9. CASE ChildEnds(j)
  <2>1. /\ job' = job /\ fresh' = fresh /\ provider' = provider /\ lock' = lock
        /\ launch' = launch /\ runner' = runner
        /\ child[j] \in {"busy", "signalled"} /\ child'[j] \in {"ok", "bad"}
        /\ \A i \in Job : i # j => child'[i] = child[i]
    BY <1>0, <1>9, Types DEF ChildEnds, given
  <2>2. JobInv(j)'
    BY <1>0, <2>1 DEF JobInv, LaunchInv, ProviderInv, RunnerInv, Terminal
  <2> QED
    BY <2>1, <2>2, ProcessStep
<1>10. CASE SessionEnds(j)
  <2>1. /\ job' = job /\ fresh' = fresh /\ provider' = provider /\ lock' = lock
        /\ launch' = launch /\ runner' = runner /\ child' = child
    BY <1>10 DEF SessionEnds, given, procVars
  <2>2. JobInv(j)'
    BY <1>0, <2>1 DEF JobInv, LaunchInv, ProviderInv, RunnerInv, Terminal
  <2> QED
    BY <2>1, <2>2, ProcessStep
<1>11. CASE Reap(j)
  <2>1. /\ job' = job /\ fresh' = fresh /\ provider' = provider /\ lock' = lock
        /\ launch' = launch /\ child' = child
        /\ runner[j] \in {"zombie", "gone"} /\ runner'[j] \in {"gone", "reused"}
        /\ \A i \in Job : i # j => runner'[i] = runner[i]
    BY <1>c, <1>11 DEF Reap, given
  <2>2. JobInv(j)'
    BY <1>0, <2>1 DEF JobInv, LaunchInv, ProviderInv, RunnerInv, Alive, Armed, Terminal
  <2> QED
    BY <2>1, <2>2, ProcessStep
<1> QED
  BY <1>1, <1>4, <1>5, <1>6, <1>7, <1>8, <1>9, <1>10, <1>11 DEF RunnerProcess

-----------------------------------------------------------------------------
\* The calls.  Whoever does not move keeps what it relies on.
LEMMA OthersKeep ==
    ASSUME IInv, StepOK, NEW d \in Client, call'[d] = call[d]
    PROVE  CallInv(d)'
<1>1. CallInv(d) /\ (call[d].pc # "idle" => call[d].job \in Job)
  BY DEF IInv, TypeInv, CallsNameJobs
<1>2. CASE call[d].pc = "idle"
  BY <1>2 DEF CallInv
<1>3. CASE call[d].pc # "idle"
  <2> DEFINE j == call[d].job
  <2>1. j \in Job /\ Steady(j) /\ job[j].state # "none"
    BY <1>1, <1>3 DEF StepOK, CallInv
  <2>2. provider'[j] = provider[j] /\ job'[j].state # "none"
    BY <2>1 DEF Steady
  <2>3. runner[j] = "reused" => runner'[j] = "reused"
    BY <2>1 DEF Steady
  <2>4. lock[j] = d => lock'[j] = d /\ job'[j] = job[j]
    BY <2>1 DEF Steady
  <2>5. fresh'[d] => fresh[d] /\ job'[j] = job[j]
    BY <2>1 DEF Steady
  <2>6. call'[d].job = j
    OBVIOUS
  <2> HIDE DEF j
  <2>7. /\ call[d].pc \in {"poll", "stop", "stopped", "stopfail"} => provider[j] = "claude"
        /\ call[d].pc \in {"open", "recheck"} =>
              lock[j] = d /\ ~Terminal(j) /\ job[j].state # "gone"
        /\ call[d].pc = "recheck" =>
              call[d].fd # "none" /\ (call[d].fd = "other" => runner[j] = "reused")
        /\ call[d].pc = "signal" => call[d].fd = "runner"
        /\ call[d].pc = "poll" /\ fresh[d] => job[j].state # "interrupting"
    BY <1>1 DEF CallInv, j
  <2> QED
    BY <2>2, <2>3, <2>4, <2>5, <2>6, <2>7 DEF CallInv, Terminal
<1> QED
  BY <1>2, <1>3

LEMMA IdleKeeps ==
    ASSUME NEW c \in Client, call'[c].pc \in {"idle"}
    PROVE  CallInv(c)'
BY DEF CallInv

\* An answer to a call that writes its record under the lock.
LEMMA CallSaves ==
    ASSUME IInv, NEW j \in Job, Free(j), ~Terminal(j), job[j].state # "none",
           provider' = provider, lock' = lock, launch' = launch,
           runner' = runner, child' = child,
           NEW s \in States, SaveState(j, s), s # "none",
           runner[j] \in Alive /\ job[j].pid /\ job[j].ident =>
               s \notin TERMINAL_STATES \cup {"gone"},
           job[j].state = "interrupting" =>
               s \notin {"starting", "launching", "running", "succeeded"}
    PROVE  StepOK
<1>1. TypeOK /\ JobInv(j) /\ LaunchInv(j) /\ ProviderInv(j) /\ RunnerInv(j)
  BY DEF IInv, TypeInv, JobInv
<1>2. /\ job'[j].state = s /\ job'[j].pid = job[j].pid /\ job'[j].ident = job[j].ident
      /\ \A i \in Job : i # j => job'[i] = job[i]
      /\ \A c \in Client : fresh'[c] => fresh[c] /\ call[c].job # j
  BY <1>1, StateSaved
<1>3. Only(j) /\ FreshKept
  BY <1>2 DEF Only, FreshKept
<1>4. lock[j] = "free"
  BY DEF Free
<1>5. JobInv(j)'
  BY <1>1, <1>2, <1>4 DEF JobInv, LaunchInv, ProviderInv, RunnerInv, Terminal
<1>6. Steady(j)
  BY <1>2, <1>4, ClientAssumption DEF Steady
<1>7. Final(j) /\ Sticks(j)
  BY <1>2 DEF Final, Sticks
<1> QED
  BY <1>3, <1>5, <1>6, <1>7, Focus

\* A step that writes no record.
LEMMA NothingWritten ==
    ASSUME IInv, job' = job, provider' = provider, lock' = lock,
           launch' = launch, runner' = runner, child' = child,
           \A d \in Client : call'[d] = call[d] /\ fresh'[d] => fresh[d]
    PROVE  StepOK
<1> SUFFICES ASSUME NEW i \in Job
             PROVE  JobInv(i)' /\ Steady(i) /\ Final(i) /\ Sticks(i)
  BY DEF StepOK
<1>1. JobInv(i)'
  BY DEF IInv, JobInv, LaunchInv, ProviderInv, RunnerInv, Terminal
<1>2. Steady(i) /\ Final(i) /\ Sticks(i)
  BY DEF Steady, Final, Sticks
<1> QED
  BY <1>1, <1>2

LEMMA SyncJobs ==
    ASSUME IInv, NEW c \in Client, NEW j \in Job,
           NEW o \in {"status", "cleanup"}, Sync(c, j, o)
    PROVE  /\ StepOK /\ CallInv(c)'
           /\ \A d \in Client : d # c => call'[d] = call[d]
<1> USE StateSets
<1> DEFINE s == job[j].state
           asks == /\ provider[j] = "claude" /\ ~Terminal(j)
                   /\ job[j].prov /\ s # "interrupting"
           judged == IF provider[j] = "claude" \/ Terminal(j) \/ s = "launching" THEN s
                     ELSE IF ~job[j].pid \/ ~job[j].ident THEN "failed"
                     ELSE IF ProcessMatches(j) THEN s
                     ELSE IF s = "interrupting" THEN "interrupted" ELSE "failed"
<1>0. /\ TypeOK /\ call \in [Client -> Call] /\ RunnerInv(j) /\ s \in States
      /\ fresh \in [Client -> BOOLEAN] /\ call[c].pc = "idle" /\ Free(j)
      /\ s # "none" /\ s # "gone"
  BY Types, RecordTypes DEF IInv, TypeInv, JobInv, Sync, Exists
<1>1. /\ IF asks
         THEN /\ \E answer \in {StatusOf(worker[j]), "unknown"} :
                    call' = [call EXCEPT ![c] = [Idle EXCEPT !.pc = "poll", !.op = o,
                                                    !.job = j, !.raw = answer]]
              /\ fresh' = [fresh EXCEPT ![c] = TRUE]
              /\ UNCHANGED job
         ELSE /\ IF judged # s THEN SaveState(j, judged) ELSE UNCHANGED <<job, fresh>>
              /\ call' = [call EXCEPT ![c] = AfterSync(c, j, o, judged)]
      /\ provider' = provider /\ lock' = lock /\ launch' = launch /\ runner' = runner
      /\ child' = child
  BY DEF Sync, given, procVars
<1>2. judged # s => /\ judged \in {"failed", "interrupted"} /\ ~Terminal(j)
                    /\ ~(runner[j] \in Alive /\ job[j].pid /\ job[j].ident)
  BY DEF ProcessMatches
<1>3. asks => provider[j] = "claude" /\ s # "interrupting"
  OBVIOUS
<1> HIDE DEF asks, judged
<1>4. CASE asks
  <2>1. PICK answer \in {StatusOf(worker[j]), "unknown"} :
          call' = [call EXCEPT ![c] = [Idle EXCEPT !.pc = "poll", !.op = o,
                                          !.job = j, !.raw = answer]]
    BY <1>1, <1>4
  <2> DEFINE v == [Idle EXCEPT !.pc = "poll", !.op = o, !.job = j, !.raw = answer]
  <2>2. v.pc = "poll" /\ v.job = j
    BY DEF Idle
  <2> HIDE DEF v
  <2>3. call'[c] = v /\ \A d \in Client : d # c => call'[d] = call[d]
    BY <1>0, <2>1 DEF v
  <2>4. call'[c] # call[c]
    BY <1>0, <2>2, <2>3
  <2>5. \A d \in Client : call'[d] = call[d] /\ fresh'[d] => fresh[d]
    BY <1>0, <1>1, <1>4, <2>3, <2>4
  <2>6. StepOK
    BY <1>1, <1>4, <2>5, NothingWritten
  <2>7. CallInv(c)'
    BY <1>0, <1>1, <1>3, <1>4, <2>2, <2>3 DEF CallInv
  <2> QED
    BY <2>3, <2>6, <2>7
<1>5. CASE ~asks
  <2> DEFINE v == AfterSync(c, j, o, judged)
  <2>1. v.pc \in {"idle", "act"} /\ (v.pc # "idle" => v.job = j)
    BY SyncEnds
  <2> HIDE DEF v
  <2>2. call'[c] = v /\ \A d \in Client : d # c => call'[d] = call[d]
    BY <1>0, <1>1, <1>5 DEF v
  <2>3. StepOK /\ job'[j].state # "none"
    <3>1. CASE judged # s
      <4>1. judged \in States /\ judged # "none" /\ SaveState(j, judged)
        BY <1>1, <1>2, <1>5, <3>1
      <4>2. StepOK
        BY <1>0, <1>1, <1>2, <3>1, <4>1, CallSaves
      <4> QED
        BY <1>0, <4>1, <4>2, StateSaved
    <3>2. CASE judged = s
      BY <1>0, <1>1, <1>5, <3>2, NothingWritten
    <3> QED
      BY <3>1, <3>2
  <2>4. CallInv(c)'
    BY <2>1, <2>2, <2>3 DEF CallInv
  <2> QED
    BY <2>2, <2>3, <2>4
<1> QED
  BY <1>4, <1>5

LEMMA InterruptJobs ==
    ASSUME IInv, NEW c \in Client, NEW j \in Job, Interrupt(c, j)
    PROVE  /\ StepOK /\ CallInv(c)'
           /\ \A d \in Client : d # c => call'[d] = call[d]
<1> USE StateSets
<1> DEFINE s == job[j].state
<1>0. /\ TypeOK /\ call \in [Client -> Call] /\ RunnerInv(j) /\ LaunchInv(j)
      /\ ProviderInv(j) /\ JobInv(j)
      /\ call[c].pc = "idle" /\ Free(j) /\ s \notin {"none", "gone"} /\ ~Terminal(j)
      /\ provider' = provider /\ launch' = launch /\ runner' = runner /\ child' = child
  BY Types DEF IInv, TypeInv, JobInv, Interrupt, Exists, given, procVars
<1>a. ASSUME NEW t \in States, SaveState(j, t), t # "none", lock' = lock,
             runner[j] \in Alive /\ job[j].pid /\ job[j].ident =>
                 t \notin TERMINAL_STATES \cup {"gone"},
             t \notin {"starting", "launching", "running", "succeeded"}
      PROVE  StepOK /\ job'[j].state = t
  <2>1. StepOK
    BY <1>0, <1>a, CallSaves
  <2> QED
    BY <1>0, <1>a, <2>1, StateSaved
<1>1. CASE provider[j] = "claude"
  <2>1. /\ SaveState(j, "interrupting") /\ lock' = lock
        /\ call' = [call EXCEPT ![c] =
                       IF job[j].prov THEN [Idle EXCEPT !.pc = "stop", !.job = j]
                                      ELSE Idle]
    BY <1>1 DEF Interrupt
  <2>2. StepOK /\ job'[j].state = "interrupting"
    BY <1>a, <2>1 DEF TERMINAL_STATES
  <2>3. [Idle EXCEPT !.pc = "stop", !.job = j].pc = "stop"
        /\ [Idle EXCEPT !.pc = "stop", !.job = j].job = j
    BY DEF Idle
  <2>4. /\ call'[c].pc \in {"idle", "stop"} /\ (call'[c].pc = "stop" => call'[c].job = j)
        /\ \A d \in Client : d # c => call'[d] = call[d]
    BY <1>0, <2>1, <2>3, IdleFields
  <2>5. CallInv(c)'
    BY <1>0, <1>1, <2>2, <2>4 DEF CallInv
  <2> QED
    BY <2>2, <2>4, <2>5
<1>2. CASE provider[j] = "codex" /\ s \in {"starting", "launching"} /\ ~job[j].pid
  <2>1. SaveState(j, "interrupted") /\ call' = call /\ lock' = lock
    BY <1>2 DEF Interrupt
  <2>2. StepOK
    BY <1>2, <1>a, <2>1
  <2>3. call'[c].pc \in {"idle"}
    BY <1>0, <2>1
  <2> QED
    BY <2>1, <2>2, <2>3, IdleKeeps
<1>3. CASE provider[j] = "codex" /\ ~(s \in {"starting", "launching"} /\ ~job[j].pid)
  <2>1. CASE job[j].pid /\ job[j].ident /\ ProcessMatches(j)
    <3>1. /\ lock' = [lock EXCEPT ![j] = c]
          /\ call' = [call EXCEPT ![c] = [Idle EXCEPT !.pc = "open", !.job = j]]
          /\ job' = job /\ fresh' = fresh
      BY <1>3, <2>1 DEF Interrupt
    <3>2. [Idle EXCEPT !.pc = "open", !.job = j].pc = "open"
          /\ [Idle EXCEPT !.pc = "open", !.job = j].job = j
      BY DEF Idle
    <3>3. /\ call'[c].pc = "open" /\ call'[c].job = j
          /\ lock'[j] = c /\ lock[j] = "free"
          /\ \A i \in Job : i # j => lock'[i] = lock[i]
          /\ \A d \in Client : d # c => call'[d] = call[d]
      BY <1>0, <3>1, <3>2, Types DEF Free
    <3>4. Only(j) /\ FreshKept
      BY <1>0, <3>1, <3>3 DEF Only, FreshKept
    <3>5. JobInv(j)'
      BY <1>0, <3>1, <3>3, ClientAssumption
         DEF JobInv, LaunchInv, ProviderInv, RunnerInv, Terminal
    <3>6. Steady(j)
      BY <1>0, <3>1, <3>3, ClientAssumption DEF Steady
    <3>7. Final(j) /\ Sticks(j)
      BY <3>1 DEF Final, Sticks
    <3>8. CallInv(c)'
      BY <1>0, <3>1, <3>3 DEF CallInv, Terminal
    <3> QED
      BY <3>3, <3>4, <3>5, <3>6, <3>7, <3>8, Focus
  <2>2. CASE ~(job[j].pid /\ job[j].ident /\ ProcessMatches(j))
    <3>1. SaveState(j, "failed") /\ call' = call /\ lock' = lock
      BY <1>3, <2>2 DEF Interrupt
    <3>2. ~(runner[j] \in Alive /\ job[j].pid /\ job[j].ident)
      BY <2>2 DEF ProcessMatches
    <3>3. StepOK
      BY <1>a, <3>1, <3>2
    <3>4. call'[c].pc \in {"idle"}
      BY <1>0, <3>1
    <3> QED
      BY <3>1, <3>3, <3>4, IdleKeeps
  <2> QED
    BY <2>1, <2>2
<1> QED
  BY <1>1, <1>2, <1>3 DEF Interrupt

LEMMA CallStepJobs ==
    ASSUME IInv, NEW c \in Client, CallStep(c), NEW j, j = call[c].job
    PROVE  /\ StepOK /\ CallInv(c)'
           /\ \A d \in Client : d # c => call'[d] = call[d]
<1> USE StateSets
<1>0. /\ TypeInv /\ TypeOK /\ call \in [Client -> Call] /\ call[c] \in Call /\ CallInv(c)
      /\ fresh \in [Client -> BOOLEAN] /\ call[c].raw \in RawStates
      /\ call[c].pc = "poll" => call[c].raw # "none"
      /\ call[c].pc # "idle" =>
            /\ j \in Job /\ job[j] \in Rec /\ job[j].state \in States
            /\ job[j].state # "none"
            /\ JobInv(j) /\ LaunchInv(j) /\ ProviderInv(j) /\ RunnerInv(j)
  BY Types, RecordTypes, CallTypes DEF IInv, TypeInv, CallsNameJobs, JobInv, CallInv
<1>a. {"recheck", "signal", "sigerr", "stopped", "stopfail"} \subseteq CallPC
  BY DEF CallPC
<1>b. ASSUME Hangup(c)
      PROVE  CallInv(c)' /\ \A d \in Client : d # c => call'[d] = call[d]
  <2>1. call'[c] = Idle /\ \A d \in Client : d # c => call'[d] = call[d]
    BY <1>0, <1>b, Hangs
  <2> QED
    BY <2>1, IdleFields, IdleKeeps
<1>1. CASE SyncApply(c)
  <2> DEFINE counts == fresh[c] /\ ~Terminal(j)
             s == IF counts THEN call[c].raw ELSE job[j].state
  <2>1. /\ call[c].pc = "poll" /\ Free(j)
        /\ IF ~Exists(j)
           THEN Hangup(c) /\ UNCHANGED job /\ fresh' = [fresh EXCEPT ![c] = FALSE]
           ELSE /\ call' = [call EXCEPT ![c] = AfterSync(c, j, call[c].op, s)]
                /\ IF counts THEN SaveState(j, s)
                   ELSE UNCHANGED job /\ fresh' = [fresh EXCEPT ![c] = FALSE]
        /\ provider' = provider /\ lock' = lock /\ launch' = launch /\ runner' = runner
        /\ child' = child
    BY <1>1 DEF SyncApply, given, procVars
  <2>2. /\ counts => s \in RawStates /\ s # "none" /\ ~Terminal(j)
        /\ counts => job[j].state # "interrupting"
        /\ provider[j] = "claude"
    BY <1>0, <2>1 DEF CallInv
  <2> HIDE DEF counts, s
  <2>3. runner[j] = "none"
    BY <1>0, <2>1, <2>2 DEF ProviderInv
  <2>4. CASE ~Exists(j) \/ ~counts
    <3>1. job' = job /\ fresh' = [fresh EXCEPT ![c] = FALSE]
      BY <2>1, <2>4
    <3>2. \A d \in Client : fresh'[d] => fresh[d]
      BY <1>0, <3>1
    <3>3. StepOK
      BY <2>1, <3>1, <3>2, NothingWritten
    <3>4. CASE ~Exists(j)
      BY <1>b, <2>1, <3>3, <3>4
    <3>5. CASE Exists(j)
      <4> DEFINE v == AfterSync(c, j, call[c].op, s)
      <4>1. v.pc \in {"idle", "act"} /\ (v.pc # "idle" => v.job = j)
        BY <1>0, <2>1, SyncEnds, CallTypes
      <4> HIDE DEF v
      <4>2. call'[c] = v /\ \A d \in Client : d # c => call'[d] = call[d]
        BY <1>0, <2>1, <3>5 DEF v
      <4>3. CallInv(c)'
        BY <1>0, <2>1, <3>1, <4>1, <4>2 DEF CallInv
      <4> QED
        BY <3>3, <4>2, <4>3
    <3> QED
      BY <3>4, <3>5
  <2>5. CASE Exists(j) /\ counts
    <3>1. SaveState(j, s) /\ s \in States
      BY <2>1, <2>2, <2>5
    <3>2. StepOK
      BY <1>0, <2>1, <2>2, <2>3, <2>5, <3>1, CallSaves DEF Alive, Armed
    <3>3. job'[j].state = s
      BY <1>0, <2>1, <3>1, StateSaved
    <3> DEFINE v == AfterSync(c, j, call[c].op, s)
    <3>4. v.pc \in {"idle", "act"} /\ (v.pc # "idle" => v.job = j)
      BY <1>0, <2>1, SyncEnds, CallTypes
    <3> HIDE DEF v
    <3>5. call'[c] = v /\ \A d \in Client : d # c => call'[d] = call[d]
      BY <1>0, <2>1, <2>5 DEF v
    <3>6. CallInv(c)'
      BY <2>2, <2>5, <3>3, <3>4, <3>5 DEF CallInv
    <3> QED
      BY <3>2, <3>5, <3>6
  <2> QED
    BY <2>4, <2>5
<1>2. CASE Cleanup(c)
  <2>1. /\ call[c].pc = "act" /\ Free(j) /\ Hangup(c)
        /\ provider' = provider /\ lock' = lock /\ launch' = launch /\ runner' = runner
        /\ child' = child
    BY <1>2 DEF Cleanup, given, procVars
  <2>2. CASE job' = job /\ fresh' = fresh
    BY <1>b, <2>1, <2>2, NothingWritten
  <2>3. CASE Exists(j) /\ Terminal(j) /\ SaveState(j, "gone")
    <3>1. /\ job'[j].state = "gone" /\ job'[j].pid = job[j].pid
          /\ job'[j].ident = job[j].ident
          /\ \A i \in Job : i # j => job'[i] = job[i]
          /\ \A d \in Client : fresh'[d] => fresh[d] /\ call[d].job # j
      BY <1>0, <2>1, <2>3, StateSaved
    <3>2. Only(j) /\ FreshKept
      BY <2>1, <3>1 DEF Only, FreshKept
    <3>3. lock[j] = "free" /\ j \in Job
      BY <1>0, <2>1 DEF Free
    <3>4. JobInv(j)'
      BY <1>0, <2>1, <2>3, <3>1, <3>3
         DEF JobInv, LaunchInv, ProviderInv, RunnerInv, Terminal
    <3>5. Steady(j)
      BY <2>1, <3>1, <3>3, ClientAssumption DEF Steady
    <3>6. Final(j) /\ Sticks(j)
      BY <3>1 DEF Final, Sticks
    <3>7. StepOK
      BY <3>2, <3>3, <3>4, <3>5, <3>6, Focus
    <3> QED
      BY <1>b, <2>1, <3>7
  <2> QED
    BY <1>2, <2>2, <2>3 DEF Cleanup
\* A call that holds the lock writes the record, and lets go of it.
<1>3. ASSUME call[c].pc \in {"open", "recheck"}, NEW t \in {"failed", "interrupting"},
             SaveState(j, t), Release(j, c),
             t = "failed" => runner[j] \notin Alive,
             provider' = provider, launch' = launch, runner' = runner, child' = child,
             \A d \in Client : d # c => call'[d] = call[d],
             call'[c] # call[c]
      PROVE  StepOK /\ job'[j].state = t
  <2>1. j \in Job /\ lock[j] = c /\ ~Terminal(j) /\ job[j].state \notin {"none", "gone"}
    BY <1>0, <1>3 DEF CallInv
  <2>2. t \in States
    BY <1>3
  <2>3. /\ job'[j].state = t /\ job'[j].pid = job[j].pid /\ job'[j].ident = job[j].ident
        /\ \A i \in Job : i # j => job'[i] = job[i]
        /\ \A d \in Client : fresh'[d] => fresh[d] /\ call[d].job # j
    BY <1>0, <1>3, <2>1, <2>2, StateSaved
  <2>4. lock'[j] = "free" /\ \A i \in Job : i # j => lock'[i] = lock[i]
    BY <1>0, <1>3, <2>1, Types DEF Release
  <2>5. Only(j) /\ FreshKept
    BY <1>3, <2>3, <2>4 DEF Only, FreshKept
  <2>6. JobInv(j)'
    BY <1>0, <1>3, <2>1, <2>3, <2>4, ClientAssumption
       DEF JobInv, LaunchInv, ProviderInv, RunnerInv, Terminal, TERMINAL_STATES
  <2>7. Steady(j)
    BY <1>3, <2>1, <2>3, <2>4 DEF Steady
  <2>8. Final(j) /\ Sticks(j)
    BY <1>3, <2>1, <2>3 DEF Final, Sticks
  <2> QED
    BY <2>1, <2>3, <2>5, <2>6, <2>7, <2>8, Focus
<1>4. CASE OpenPidfd(c)
  <2>1. /\ call[c].pc = "open" /\ j \in Job /\ lock[j] = c /\ ~Terminal(j)
        /\ job[j].state \notin {"none", "gone"}
        /\ provider' = provider /\ launch' = launch /\ runner' = runner /\ child' = child
    BY <1>0, <1>4 DEF OpenPidfd, CallInv, given, procVars
  <2>2. CASE runner[j] = "gone"
    <3>1. SaveState(j, "failed") /\ Release(j, c) /\ Hangup(c)
      BY <1>4, <2>2 DEF OpenPidfd
    <3>2. CallInv(c)' /\ (\A d \in Client : d # c => call'[d] = call[d])
          /\ call'[c] # call[c]
      BY <1>0, <1>b, <2>1, <3>1, Hangs, IdleFields
    <3>3. runner[j] \notin Alive
      BY <2>2 DEF Alive, Armed
    <3>4. StepOK
      BY <1>3, <2>1, <3>1, <3>2, <3>3
    <3> QED
      BY <3>2, <3>4
  <2>3. CASE runner[j] # "gone"
    <3> DEFINE f == IF runner[j] = "reused" THEN "other" ELSE "runner"
               v == [call[c] EXCEPT !.pc = "recheck", !.fd = f]
    <3>1. v.pc = "recheck" /\ v.job = j /\ v.fd = f
      BY <1>0 DEF Call
    <3>2. call' = [call EXCEPT ![c] = v] /\ job' = job /\ fresh' = fresh /\ lock' = lock
      BY <1>0, <1>4, <2>3 DEF OpenPidfd
    <3>3. f # "none" /\ (f = "other" => runner[j] = "reused")
      OBVIOUS
    <3> HIDE DEF f, v
    <3>4. call'[c] = v /\ \A d \in Client : d # c => call'[d] = call[d]
      BY <1>0, <3>2
    <3>5. StepOK
      BY <2>1, <3>2, NothingWritten
    <3>6. CallInv(c)'
      BY <2>1, <3>1, <3>2, <3>3, <3>4 DEF CallInv, Terminal
    <3> QED
      BY <3>4, <3>5, <3>6
  <2> QED
    BY <2>2, <2>3
<1>5. CASE Recheck(c)
  <2>1. /\ call[c].pc = "recheck" /\ j \in Job /\ Release(j, c)
        /\ call[c].fd # "none" /\ (call[c].fd = "other" => runner[j] = "reused")
        /\ provider' = provider /\ launch' = launch /\ runner' = runner /\ child' = child
    BY <1>0, <1>5 DEF Recheck, CallInv, given, procVars
  <2>2. CASE ProcessMatches(j)
    <3>1. SaveState(j, "interrupting") /\ Goto(c, "signal")
      BY <1>5, <2>2 DEF Recheck
    <3>2. /\ call'[c].pc = "signal" /\ call'[c].job = j /\ call'[c].fd = call[c].fd
          /\ \A d \in Client : d # c => call'[d] = call[d]
      BY <1>0, <1>a, <2>1, <3>1, Goes
    <3>3. StepOK /\ job'[j].state = "interrupting"
      BY <1>3, <2>1, <3>1, <3>2
    <3>4. call[c].fd = "runner"
      BY <1>0, <2>1, <2>2, CallTypes DEF ProcessMatches, Alive, Armed
    <3>5. CallInv(c)'
      BY <3>2, <3>3, <3>4 DEF CallInv
    <3> QED
      BY <3>2, <3>3, <3>5
  <2>3. CASE ~ProcessMatches(j)
    <3>1. SaveState(j, "failed") /\ Hangup(c)
      BY <1>5, <2>3 DEF Recheck
    <3>2. CallInv(c)' /\ (\A d \in Client : d # c => call'[d] = call[d])
          /\ call'[c] # call[c]
      BY <1>0, <1>b, <2>1, <3>1, Hangs, IdleFields
    <3>3. runner[j] \notin Alive
      BY <2>3 DEF ProcessMatches
    <3>4. StepOK
      BY <1>3, <2>1, <3>1, <3>2, <3>3
    <3> QED
      BY <3>2, <3>4
  <2> QED
    BY <2>2, <2>3
<1>6. CASE SignalRunner(c)
  <2>1. /\ call[c].pc = "signal" /\ j \in Job
        /\ job' = job /\ fresh' = fresh /\ provider' = provider /\ lock' = lock
        /\ launch' = launch
    BY <1>0, <1>6 DEF SignalRunner, given
  <2>2. StepOK
    <3>1. CASE UNCHANGED procVars
      BY <2>1, <3>1, NothingWritten DEF procVars
    <3>2. CASE Terminate(j)
      <4>1. /\ runner'[j] = IF runner[j] \in Alive \ Armed THEN "zombie" ELSE runner[j]
            /\ child'[j] \in {child[j], "signalled"}
            /\ child'[j] # child[j] => child[j] = "busy"
            /\ \A i \in Job : i # j => runner'[i] = runner[i] /\ child'[i] = child[i]
        BY <1>0, <2>1, <3>2, Types DEF Terminate
      <4>2. JobInv(j)'
        BY <1>0, <2>1, <4>1
           DEF JobInv, LaunchInv, ProviderInv, RunnerInv, Alive, Armed, Terminal
      <4>3. runner[j] = "reused" => runner'[j] = "reused"
        BY <4>1 DEF Alive, Armed
      <4> QED
        BY <2>1, <4>1, <4>2, <4>3, ProcessStep
    <3> QED
      BY <1>6, <3>1, <3>2 DEF SignalRunner
  <2>3. CASE Hangup(c)
    BY <1>b, <2>2, <2>3
  <2>4. CASE Goto(c, "sigerr")
    <3>1. /\ call'[c].pc = "sigerr" /\ call'[c].job = j
          /\ \A d \in Client : d # c => call'[d] = call[d]
      BY <1>0, <1>a, <2>1, <2>4, Goes
    <3>2. CallInv(c)'
      BY <1>0, <2>1, <3>1 DEF CallInv
    <3> QED
      BY <2>2, <3>1, <3>2
  <2> QED
    BY <1>6, <2>3, <2>4 DEF SignalRunner
<1>7. CASE SignalFailed(c)
  <2>1. /\ call[c].pc = "sigerr" /\ j \in Job /\ Free(j) /\ Hangup(c)
        /\ job[j].state # "none"
        /\ provider' = provider /\ lock' = lock /\ launch' = launch /\ runner' = runner
        /\ child' = child
    BY <1>0, <1>7 DEF SignalFailed, given, procVars
  <2>2. CASE job' = job /\ fresh' = fresh
    BY <1>b, <2>1, <2>2, NothingWritten
  <2>3. CASE job[j].state = "interrupting" /\ SaveState(j, "unknown")
    <3>1. StepOK
      BY <2>1, <2>3, CallSaves DEF Terminal, TERMINAL_STATES
    <3> QED
      BY <1>b, <2>1, <3>1
  <2> QED
    BY <1>7, <2>2, <2>3 DEF SignalFailed
<1>8. CASE StopClaude(c)
  <2>1. /\ call[c].pc = "stop" /\ j \in Job /\ provider[j] = "claude"
        /\ job[j].state # "none"
        /\ job' = job /\ fresh' = fresh /\ provider' = provider /\ lock' = lock
        /\ launch' = launch /\ runner' = runner /\ child' = child
    BY <1>0, <1>8 DEF StopClaude, CallInv, given, procVars
  <2>2. Goto(c, "stopped") \/ Goto(c, "stopfail")
    BY <1>8 DEF StopClaude
  <2>3. /\ call'[c].pc \in {"stopped", "stopfail"} /\ call'[c].job = j
        /\ \A d \in Client : d # c => call'[d] = call[d]
    BY <1>0, <1>a, <2>1, <2>2, Goes
  <2>4. CallInv(c)'
    BY <2>1, <2>3 DEF CallInv
  <2> QED
    BY <2>1, <2>3, <2>4, NothingWritten
<1>9. CASE StopRecord(c)
  <2>1. /\ call[c].pc \in {"stopped", "stopfail"} /\ j \in Job /\ Free(j) /\ Hangup(c)
        /\ job[j].state # "none" /\ provider[j] = "claude"
        /\ provider' = provider /\ lock' = lock /\ launch' = launch /\ runner' = runner
        /\ child' = child
    BY <1>0, <1>9 DEF StopRecord, CallInv, given, procVars
  <2>2. CASE job' = job /\ fresh' = fresh
    BY <1>b, <2>1, <2>2, NothingWritten
  <2>3. CASE ~Terminal(j) /\ \E t \in {"interrupted", "unknown"} : SaveState(j, t)
    <3>1. PICK t \in {"interrupted", "unknown"} : SaveState(j, t)
      BY <2>3
    <3>2. runner[j] = "none"
      BY <1>0, <2>1 DEF ProviderInv
    <3>3. StepOK
      BY <2>1, <2>3, <3>1, <3>2, CallSaves DEF Alive, Armed
    <3> QED
      BY <1>b, <2>1, <3>3
  <2> QED
    BY <1>9, <2>2, <2>3 DEF StopRecord
<1> QED
  BY <1>1, <1>2, <1>4, <1>5, <1>6, <1>7, <1>8, <1>9 DEF CallStep

\* The locks of a thread that dies are released; its calls are not answered.
LEMMA DeathJobs ==
    ASSUME IInv, ServerDies
    PROVE  StepOK /\ \A d \in Client : CallInv(d)'
<1>0. /\ TypeInv /\ TypeOK
      /\ job' = job /\ provider' = provider /\ runner' = runner /\ child' = child
  BY DEF IInv, TypeInv, ServerDies, given, procVars
<1>1. ASSUME NEW c \in Client, call[c].pc # "idle", Hangup(c), launch' = launch,
             lock' = [j \in Job |-> IF lock[j] = c THEN "free" ELSE lock[j]],
             fresh' = [fresh EXCEPT ![c] = FALSE]
      PROVE  StepOK /\ \A d \in Client : CallInv(d)'
  <2>1. call'[c] = Idle /\ (\A d \in Client : d # c => call'[d] = call[d])
        /\ (\A d \in Client : fresh'[d] => fresh[d]) /\ call'[c] # call[c]
    BY <1>0, <1>1, Hangs, IdleFields, Types
  <2>2. CallInv(c)'
    BY <2>1, IdleFields, IdleKeeps
  <2>3. ASSUME NEW i \in Job
        PROVE  JobInv(i)' /\ Steady(i) /\ Final(i) /\ Sticks(i)
    <3>1. JobInv(i) /\ lock'[i] = IF lock[i] = c THEN "free" ELSE lock[i]
      BY <1>1 DEF IInv
    <3>2. (lock'[i] = "launch") <=> (lock[i] = "launch")
      BY <3>1, ClientAssumption
    <3>3. JobInv(i)'
      BY <1>0, <1>1, <3>1, <3>2 DEF JobInv, LaunchInv, ProviderInv, RunnerInv, Terminal
    <3>4. \A d \in Client : call'[d] = call[d] /\ lock[i] = d => lock'[i] = d
      BY <2>1, <3>1
    <3>5. Steady(i)
      BY <1>0, <2>1, <3>4 DEF Steady
    <3> QED
      BY <1>0, <3>3, <3>5 DEF Final, Sticks
  <2>4. StepOK
    BY <2>3 DEF StepOK
  <2>5. \A d \in Client : CallInv(d)'
    BY <2>1, <2>2, <2>4, OthersKeep
  <2> QED
    BY <2>4, <2>5
<1>2. ASSUME NEW j \in Job, launch[j] \notin {"none", "done"}, EndLaunch(j),
             Release(j, "launch"), UNCHANGED <<call, fresh>>
      PROVE  StepOK /\ \A d \in Client : CallInv(d)'
  <2>1. /\ launch'[j] = "done" /\ lock'[j] # "launch"
        /\ \A c \in Client : lock[j] = c => lock'[j] = c
        /\ \A i \in Job : i # j => launch'[i] = launch[i] /\ lock'[i] = lock[i]
    BY <1>0, <1>2, ClientAssumption, Types DEF EndLaunch, Release
  <2>2. Only(j) /\ FreshKept
    BY <1>0, <1>2, <2>1 DEF Only, FreshKept
  <2>3. JobInv(j) /\ LaunchInv(j)
    BY DEF IInv, JobInv
  <2>4. JobInv(j)'
    BY <1>0, <1>2, <2>1, <2>3
       DEF JobInv, LaunchInv, ProviderInv, RunnerInv, Terminal, Alive, Armed
  <2>5. Steady(j)
    BY <1>0, <1>2, <2>1 DEF Steady
  <2>6. Final(j) /\ Sticks(j)
    BY <1>0 DEF Final, Sticks
  <2>7. StepOK
    BY <2>2, <2>4, <2>5, <2>6, Focus
  <2> QED
    BY <1>2, <2>7, OthersKeep
<1> QED
  BY <1>1, <1>2 DEF ServerDies

-----------------------------------------------------------------------------
LEMMA InvKept == IInv /\ [Next]_vars => IInv' /\ StepOK
<1> SUFFICES ASSUME IInv, [Next]_vars
             PROVE  IInv' /\ StepOK
  OBVIOUS
<1>0. TypeInv'
  BY TypesKept DEF IInv
<1>1. ASSUME StepOK, \A d \in Client : CallInv(d)'
      PROVE  IInv' /\ StepOK
  BY <1>0, <1>1 DEF IInv, StepOK
<1>2. CASE Next
  <2>1. ASSUME NEW j \in Job,
               \/ \E p \in Providers : Spawn(j, p) \/ Followup(j, p)
               \/ LaunchStep(j) \/ RunnerProcess(j) \/ RunnerKilled(j)
               \/ ChildEnds(j) \/ SessionEnds(j) \/ Reap(j)
        PROVE  IInv' /\ StepOK
    <3>1. StepOK
      BY <2>1, NewJobStep, LaunchJobs, RunnerJobs DEF Spawn, Followup, Origins
    <3>2. call' = call
      BY <2>1 DEF Spawn, Followup, NewJob, LaunchStep, LaunchBegin, LaunchPopen,
           LaunchPublish, ClaudeRun, ClaudeRefused, ClaudeRecord, LaunchStop,
           LaunchStopRecord, RunnerProcess, Handshake, Refuse, RunnerStep, Finish,
           RunnerRaises, RunnerKilled, ChildEnds, SessionEnds, Reap
    <3>3. \A d \in Client : CallInv(d)'
      BY <3>1, <3>2, OthersKeep
    <3> QED
      BY <1>1, <3>1, <3>3
  <2>2. ASSUME NEW c \in Client,
               StepOK /\ CallInv(c)' /\ \A d \in Client : d # c => call'[d] = call[d]
        PROVE  IInv' /\ StepOK
    <3>1. \A d \in Client : CallInv(d)'
      BY <2>2, OthersKeep
    <3> QED
      BY <1>1, <2>2, <3>1
  <2>3. ASSUME NEW c \in Client, CallStep(c)
        PROVE  IInv' /\ StepOK
    <3>1. PICK j : j = call[c].job
      OBVIOUS
    <3> QED
      BY <2>2, <2>3, <3>1, CallStepJobs
  <2>4. ASSUME NEW c \in Client, NEW j \in Job, Interrupt(c, j)
        PROVE  IInv' /\ StepOK
    BY <2>2, <2>4, InterruptJobs
  <2>5. ASSUME NEW c \in Client, NEW j \in Job,
               NEW o \in {"status", "cleanup"}, Sync(c, j, o)
        PROVE  IInv' /\ StepOK
    BY <2>2, <2>5, SyncJobs
  <2>6. CASE ServerDies
    BY <1>1, <2>6, DeathJobs
  <2> QED
    BY <1>2, <2>1, <2>3, <2>4, <2>5, <2>6 DEF Next
<1>3. CASE UNCHANGED vars
  <2>1. StepOK
    BY <1>3, NothingWritten DEF vars, given, procVars
  <2>2. call' = call
    BY <1>3 DEF vars
  <2>3. \A d \in Client : CallInv(d)'
    BY <2>1, <2>2, OthersKeep
  <2> QED
    BY <1>1, <2>1, <2>3
<1> QED
  BY <1>2, <1>3

LEMMA InvBegins == Init => IInv
<1> SUFFICES ASSUME Init PROVE IInv
  OBVIOUS
<1>1. TypeInv
  BY TypesBegin
<1>2. ASSUME NEW j \in Job PROVE JobInv(j)
  <2>1. /\ job[j] = NoRecord /\ provider[j] = "codex" /\ lock[j] = "free"
        /\ launch[j] = "none" /\ runner[j] = "none" /\ child[j] = "none"
    BY DEF Init
  <2> QED
    BY <2>1 DEF JobInv, LaunchInv, ProviderInv, RunnerInv, NoRecord, Alive, Armed
<1>3. ASSUME NEW c \in Client PROVE CallInv(c)
  <2>1. call[c].pc = "idle"
    BY IdleFields DEF Init
  <2> QED
    BY <2>1 DEF CallInv
<1> QED
  BY <1>1, <1>2, <1>3 DEF IInv

LEMMA Invariance == Spec => []IInv
BY InvBegins, InvKept, PTL DEF Spec

\* Whatever becomes of the runner between two steps of an interrupt, and however its
\* pid is given away, the pidfd that is signalled was opened on the runner: the
\* second look at its identity finds out (interrupt()).
THEOREM OnlyTheRunner == Spec => []OnlyRunnersSignalled
<1>1. IInv => OnlyRunnersSignalled
  BY DEF IInv, CallInv, OnlyRunnersSignalled
<1> QED
  BY <1>1, Invariance, PTL

\* No Codex works that no record names: the handshake waits for the identity, and
\* the launch that could clear it again is over by then (run_codex_runner()).
THEOREM CodexIsRecorded == Spec => []NoUnrecordedCodex
<1>1. IInv => NoUnrecordedCodex
  BY DEF IInv, JobInv, RunnerInv, NoUnrecordedCodex
<1> QED
  BY <1>1, Invariance, PTL

\* While a live runner waits for a Codex that works, no sync, interrupt, launch or
\* clean-up ends or removes its record (sync(), interrupt(), cleanup()).
THEOREM EndsAreTrue == Spec => []EndedMeansStopped
<1>1. IInv => EndedMeansStopped
  BY DEF IInv, JobInv, RunnerInv, EndedMeansStopped
<1> QED
  BY <1>1, Invariance, PTL

\* Once a launch is over the outcome of its job is final: whoever writes the record
\* looked at it in the same critical section, or held the lock since it did, or is
\* the runner that nobody ends before it ends itself.
THEOREM OutcomesStay == Spec => OutcomeFinal
<1>1. StepOK => \A j \in Job : launch[j] = "done" /\ Terminal(j) =>
                   job'[j].state \in {job[j].state, "gone"}
  BY DEF StepOK, Final
<1>2. IInv /\ [Next]_vars =>
        [\A j \in Job : launch[j] = "done" /\ Terminal(j) =>
            job'[j].state \in {job[j].state, "gone"}]_vars
  BY <1>1, InvKept
<1> QED
  BY <1>2, Invariance, PTL DEF Spec, OutcomeFinal

\* A recorded interrupt is not overwritten by a launch, by a runner that finishes or
\* by the answer to a sync that began before it (sync()'s revision).
THEOREM InterruptsStick == Spec => InterruptSticks
<1>1. StepOK => \A j \in Job : job[j].state = "interrupting" =>
          job'[j].state \notin {"starting", "launching", "running", "succeeded"}
  BY DEF StepOK, Sticks
<1>2. IInv /\ [Next]_vars =>
        [\A j \in Job : job[j].state = "interrupting" =>
          job'[j].state \notin {"starting", "launching", "running", "succeeded"}]_vars
  BY <1>1, InvKept
<1> QED
  BY <1>2, Invariance, PTL DEF Spec, InterruptSticks
===============================================================================
