------------------------ MODULE ClaudeReconcile_proofs ------------------------
(***************************************************************************)
(* Proofs about the Claude provider, for any observers, any graces and any *)
(* number of faults.                                                       *)
(*                                                                         *)
(* The report survives because of a race against time: the transcript may  *)
(* be read before the CLI has flushed it only if it looks settled, and     *)
(* FlushInv bounds, by what is still to be flushed, how old the marker and *)
(* the transcript can be until then.                                       *)
(***************************************************************************)
EXTENDS ClaudeReconcile, TLAPS

Jobs == [state : {"starting", "running"} \cup TERMINAL_STATES, known : BOOLEAN,
         why : {"", "read", "thin", "odd", "reaped", "missing", "asked", "launch"}]
Whys == {"", "read", "thin", "odd", "reaped", "missing", "asked"}
Seen == [pc : {"ready", "reap", "settle", "collect", "apply"},
         state : {"running"} \cup TERMINAL_STATES, known : BOOLEAN, why : Whys]
Files == [raw : {"absent", "active", "odd"} \cup Mapped, quiescent : BOOLEAN]

Ended == session \in {"over", "reaped", "stopped"}
Done == Ended /\ pending = 0                     \* nothing more will be written
Saved == disk = "report" => artifact = "report"

\* What the CLI leaves behind tells what it did.
CliInv ==
    /\ launch = "begin" => session = "none"
    /\ session = "none" => file.raw = "absent"
    /\ file.raw \in Mapped <=> Ended
    /\ file.raw \in {"done", "blocked"} => session = "over"
    /\ pending > 0 => session = "over"
    /\ disk = "report" => pending = 0
    /\ artifact = "report" => disk = "report"

\* How old the marker and the transcript are while something is still to be flushed:
\* the f records flushed so far took f * MaxFlush, and the next is due.
FlushInv ==
    LET f == MaxPending - pending IN
    pending > 0 =>
        /\ idle <= f * MaxFlush + quiet
        /\ idle <= f * MaxFlush + MaxFlush
        /\ idle <= MaxFlush \/ quiet <= MaxFlush

\* What an observer that goes on may rely on.
SeenInv(o) ==
    LET seen == observer[o] IN
    /\ seen.pc = "reap" => session # "none" /\ seen.why = "reaped"
    /\ seen.pc = "settle" => Ended /\ seen.why = "read"
    /\ seen.pc = "collect" => seen.why # "thin" /\ (seen.why = "read" => Done)
    /\ seen.pc = "apply" /\ seen.why \in {"read", "thin"} => Done /\ Saved
    /\ seen.state = "succeeded" =>
          /\ seen.pc \in {"settle", "collect", "apply"}
          /\ session = "over" /\ seen.why = "read"
          /\ seen.pc = "apply" => artifact = "report"

RecordInv ==
    /\ job.why \in {"read", "thin"} => Done /\ Saved
    /\ job.state = "succeeded" => session = "over" /\ artifact = "report"

\* A reaper is done with the job.
ReapClaimed ==
    job.why = "reaped" \/ \E o \in Observer : observer[o].pc = "apply" /\ observer[o].why = "reaped"
ReapTried ==
    ReapClaimed \/ \E o \in Observer : observer[o].pc = "collect" /\ observer[o].why = "reaped"

\* A reaper that is done while the session lives has failed to stop it.  A session
\* that was reaped after that is collected by the reaper that stopped it, unless a
\* crash comes in between: that takes a second fault.
ReapInv ==
    /\ session \in {"none", "live"} /\ ReapTried => faults >= 1
    /\ session = "reaped" /\ ReapClaimed /\ ~Saved =>
          /\ faults >= 1
          /\ faults >= 2 \/ \E o \in Observer : observer[o].pc = "collect"

Inv ==
    /\ CliInv /\ FlushInv /\ RecordInv /\ ReapInv
    /\ \A o \in Observer : SeenInv(o)
IInv == TypeOK /\ Inv

-----------------------------------------------------------------------------
LEMMA Bounds ==
    /\ MissingGrace \in Nat \ {0} /\ UnrecognizedGrace \in Nat \ {0} /\ Quiet \in Nat \ {0}
    /\ IdleGrace \in Nat /\ HardTimeout \in Nat /\ Ceiling \in Nat
    /\ MaxFlush \in Nat /\ MaxPending \in Nat /\ MaxFaults \in Nat
BY TimesAssumption

LEMMA CapIsNatural == IdleCap \in Nat
<1> DEFINE S == {UnrecognizedGrace, IdleGrace, HardTimeout, Quiet, Ceiling}
<1>1. \E x \in S : \A y \in S : x >= y
  BY Bounds
<1>2. IdleCap \in S
  <2> HIDE DEF S
  <2>1. IdleCap = CHOOSE x \in S : \A y \in S : x >= y
    BY DEF IdleCap, Max, S
  <2> QED
    BY <1>1, <2>1
<1> QED
  BY <1>2, Bounds

\* What just began is early enough, and nothing is due where nothing is pending.
LEMMA NothingYet ==
    ASSUME NEW f \in Nat, NEW q \in Nat, NEW m \in Nat, NEW i \in Nat, i = 0
    PROVE  i <= f + q /\ i <= f + m /\ i <= m
OBVIOUS

LEMMA NoneDue == ASSUME NEW n \in Nat, n = 0 PROVE ~(n > 0)
OBVIOUS

\* f more records take one MaxFlush more.
LEMMA FlushTimes ==
    ASSUME NEW n \in 1 .. MaxPending
    PROVE  LET f == MaxPending - n IN
           /\ f \in Nat /\ f * MaxFlush \in Nat
           /\ (MaxPending - (n - 1)) * MaxFlush = f * MaxFlush + MaxFlush
           /\ f * MaxFlush + MaxFlush <= MaxPending * MaxFlush
<1>1. MaxPending \in Nat /\ MaxFlush \in Nat
  BY Bounds
<1>2. PICK f \in Nat : f = MaxPending - n
  BY <1>1
<1>3. f * MaxFlush \in Nat
  BY <1>1
<1>4. MaxPending - (n - 1) = f + 1
  BY <1>1, <1>2
<1>5. (f + 1) * MaxFlush = f * MaxFlush + MaxFlush
  BY <1>1
<1>6. PICK g \in Nat : g = n - 1
  BY <1>1
<1>7. MaxPending * MaxFlush = (f + 1) * MaxFlush + g * MaxFlush
  <2>1. MaxPending = (f + 1) + g
    BY <1>1, <1>2, <1>6
  <2>2. ((f + 1) + g) * MaxFlush = (f + 1) * MaxFlush + g * MaxFlush
    BY <1>1
  <2> QED
    BY <2>1, <2>2
<1>8. g * MaxFlush \in Nat
  BY <1>1
<1>9. f * MaxFlush + MaxFlush <= MaxPending * MaxFlush
  BY <1>1, <1>3, <1>5, <1>7, <1>8
<1> QED
  BY <1>2, <1>3, <1>4, <1>5, <1>9

LEMMA Types ==
    TypeOK <=>
    /\ job \in Jobs /\ artifact \in Messages /\ disk \in Messages
    /\ launch \in {"begin", "ran", "over"}
    /\ observer \in [Observer -> Seen]
    /\ session \in {"none", "live", "over", "reaped", "stopped"}
    /\ file \in Files /\ pending \in 0 .. MaxPending
    /\ age \in 0 .. UnrecognizedGrace /\ since \in 0 .. MissingGrace
    /\ idle \in 0 .. IdleCap /\ quiet \in 0 .. Quiet
    /\ faults \in 0 .. MaxFaults
BY DEF TypeOK, Jobs, Seen, Whys, Files

LEMMA TypesNext ==
    ASSUME job' \in Jobs, artifact' \in Messages, disk' \in Messages,
           launch' \in {"begin", "ran", "over"},
           observer' \in [Observer -> Seen],
           session' \in {"none", "live", "over", "reaped", "stopped"},
           file' \in Files, pending' \in 0 .. MaxPending,
           age' \in 0 .. UnrecognizedGrace, since' \in 0 .. MissingGrace,
           idle' \in 0 .. IdleCap, quiet' \in 0 .. Quiet, faults' \in 0 .. MaxFaults
    PROVE  TypeOK'
BY DEF TypeOK, Jobs, Seen, Whys, Files

LEMMA Fields ==
    /\ \A w \in Jobs : /\ w.state \in {"starting", "running"} \cup TERMINAL_STATES
                       /\ w.known \in BOOLEAN
                       /\ w.why \in Whys \cup {"launch"}
    /\ \A w \in Seen : /\ w.pc \in {"ready", "reap", "settle", "collect", "apply"}
                       /\ w.state \in {"running"} \cup TERMINAL_STATES
                       /\ w.known \in BOOLEAN /\ w.why \in Whys
    /\ \A w \in Files : w.raw \in {"absent", "active", "odd"} \cup Mapped
BY DEF Jobs, Seen, Files, Whys

LEMMA ReadyFields ==
    /\ Ready \in Seen /\ Ready.pc = "ready" /\ Ready.state = "running"
    /\ Ready.why = "" /\ Ready.known = FALSE
BY DEF Ready, Seen, Whys

\* Where an observer goes, and with what.
LEMMA Goes ==
    ASSUME TypeOK, NEW o \in Observer,
           NEW p \in {"ready", "reap", "settle", "collect", "apply"},
           NEW s \in {"running"} \cup TERMINAL_STATES, NEW w \in Whys, NEW k \in BOOLEAN,
           Then(o, p, s, w, k)
    PROVE  /\ observer' \in [Observer -> Seen]
           /\ observer'[o].pc = p /\ observer'[o].state = s /\ observer'[o].why = w
           /\ \A x \in Observer : x # o => observer'[x] = observer[x]
<1> DEFINE v == [pc |-> p, state |-> s, why |-> w, known |-> k]
<1>1. v \in Seen /\ v.pc = p /\ v.state = s /\ v.why = w
  BY DEF Seen
<1>2. observer' = [observer EXCEPT ![o] = v]
  BY DEF Then
<1> HIDE DEF v
<1> QED
  BY <1>1, <1>2, Types

LEMMA GoesOn ==
    ASSUME TypeOK, NEW o \in Observer,
           NEW p \in {"ready", "reap", "settle", "collect", "apply"},
           observer' = [observer EXCEPT ![o].pc = p]
    PROVE  /\ observer' \in [Observer -> Seen]
           /\ observer'[o].pc = p /\ observer'[o].state = observer[o].state
           /\ observer'[o].why = observer[o].why
           /\ \A x \in Observer : x # o => observer'[x] = observer[x]
<1> DEFINE v == [observer[o] EXCEPT !.pc = p]
<1>1. observer \in [Observer -> Seen] /\ observer[o] \in Seen
  BY Types
<1>2. v \in Seen /\ v.pc = p /\ v.state = observer[o].state /\ v.why = observer[o].why
  BY <1>1 DEF Seen
<1>3. observer' = [observer EXCEPT ![o] = v]
  BY <1>1
<1> HIDE DEF v
<1> QED
  BY <1>1, <1>2, <1>3

LEMMA Restarts ==
    ASSUME TypeOK, NEW o \in Observer, observer' = [observer EXCEPT ![o] = Ready]
    PROVE  /\ observer' \in [Observer -> Seen] /\ observer'[o] = Ready
           /\ \A x \in Observer : x # o => observer'[x] = observer[x]
BY ReadyFields, Types

LEMMA Ages ==
    ASSUME NEW cap \in Nat, NEW t \in 0 .. cap
    PROVE  Older(t, cap) \in 0 .. cap
BY DEF Older

-----------------------------------------------------------------------------
LEMMA TypesKept == TypeOK /\ [Next]_vars => TypeOK'
<1> SUFFICES ASSUME TypeOK, [Next]_vars PROVE TypeOK'
  OBVIOUS
<1> USE Bounds, CapIsNatural
<1>0. job \in Jobs /\ file \in Files /\ observer \in [Observer -> Seen]
  BY Types
<1>a. Fault => faults' \in 0 .. MaxFaults
  BY Types DEF Fault
<1>b. ASSUME NEW w \in {"reaped", "stopped"}, StopSession(w)
      PROVE  /\ session' \in {"none", "live", "over", "reaped", "stopped"}
             /\ file' \in Files /\ idle' \in 0 .. IdleCap
  <2>1. [raw |-> "stopped", quiescent |-> TRUE] \in Files /\ 0 \in 0 .. IdleCap
    BY DEF Files, Mapped
  <2>2. session \in {"none", "live", "over", "reaped", "stopped"} /\ idle \in 0 .. IdleCap
    BY Types
  <2> QED
    BY <1>0, <1>b, <2>1, <2>2 DEF StopSession
<1>c. TERMINAL_STATES = {"succeeded", "failed", "interrupted", "unknown"}
      /\ Whys = {"", "read", "thin", "odd", "reaped", "missing", "asked"}
  BY DEF TERMINAL_STATES, Whys
<1>1. CASE Launch
  <2>1. CASE SessionStarts /\ launch' = "ran" /\ UNCHANGED record
    <3>1. file' \in Files /\ idle' \in 0 .. IdleCap /\ session' = "live"
      <4>1. \A raw \in {"active", "odd"} : [raw |-> raw, quiescent |-> TRUE] \in Files
        BY DEF Files
      <4>2. idle \in 0 .. IdleCap
        BY Types
      <4> QED
        BY <1>0, <2>1, <4>1, <4>2 DEF SessionStarts
    <3> QED
      BY <1>1, <2>1, <3>1, Types, TypesNext DEF Launch, record
  <2>2. CASE /\ job' = [job EXCEPT !.state = "failed", !.why = "launch"]
             /\ launch' = "over" /\ since' = 0
             /\ UNCHANGED <<artifact, session, file, idle>>
    <3>1. job' \in Jobs
      BY <1>0, <2>2 DEF Jobs, TERMINAL_STATES
    <3> QED
      BY <1>1, <2>2, <3>1, Types, TypesNext DEF Launch
  <2> QED
    BY <1>1, <2>1, <2>2 DEF Launch
<1>2. CASE LaunchRecord
  <2>1. job' \in Jobs /\ since' \in 0 .. MissingGrace
    <3>1. [job EXCEPT !.state = "running", !.known = TRUE] \in Jobs
          /\ [job EXCEPT !.state = "failed", !.why = "launch"] \in Jobs
      BY <1>0 DEF Jobs, TERMINAL_STATES
    <3>2. since \in 0 .. MissingGrace /\ 0 \in 0 .. MissingGrace
      BY Types
    <3> QED
      BY <1>0, <1>2, <3>1, <3>2 DEF LaunchRecord
  <2> QED
    BY <1>2, <2>1, Types, TypesNext DEF LaunchRecord, cli, times
<1>3. ASSUME NEW o \in Observer, Recover(o) \/ ObserveMissing(o)
      PROVE  TypeOK'
  <2>1. observer' \in [Observer -> Seen]
    BY <1>3, <1>c, Goes DEF Recover, ObserveMissing, Running
  <2> QED
    BY <1>3, <2>1, Types, TypesNext DEF Recover, ObserveMissing, record, cli, times
<1>4. ASSUME NEW o \in Observer, Observe(o)
      PROVE  TypeOK'
  <2>1. file.raw \in Mapped => Mapping(file.raw) \in TERMINAL_STATES
    BY <1>c DEF Mapping, Mapped
  <2>2. \/ /\ file.raw \in Mapped
           /\ Then(o, "settle", Mapping(file.raw), "read", FALSE)
        \/ Then(o, "collect", "unknown", "odd", FALSE)
        \/ Then(o, "reap", "unknown", "reaped", FALSE)
        \/ Running(o)
    BY <1>4 DEF Observe
  <2>3. observer' \in [Observer -> Seen]
    BY <1>c, <2>1, <2>2, Goes DEF Running
  <2> QED
    BY <1>4, <2>3, Types, TypesNext DEF Observe, record, cli, times
<1>5. ASSUME NEW o \in Observer, Reap(o)
      PROVE  TypeOK'
  <2>1. observer' \in [Observer -> Seen]
    BY <1>5, GoesOn DEF Reap
  <2>2. /\ session' \in {"none", "live", "over", "reaped", "stopped"}
        /\ file' \in Files /\ idle' \in 0 .. IdleCap /\ faults' \in 0 .. MaxFaults
    BY <1>0, <1>a, <1>b, <1>5, Types DEF Reap
  <2> QED
    BY <1>5, <2>1, <2>2, Types, TypesNext DEF Reap, record
<1>6. ASSUME NEW o \in Observer, Settle(o)
      PROVE  TypeOK'
  <2>1. observer' \in [Observer -> Seen]
    BY <1>6, <1>c, Goes, GoesOn DEF Settle, Running
  <2> QED
    BY <1>6, <2>1, Types, TypesNext DEF Settle, record, cli, times
<1>7. ASSUME NEW o \in Observer, Collect(o)
      PROVE  TypeOK'
  <2>1. observer' \in [Observer -> Seen]
    BY <1>7, <1>c, Goes, GoesOn DEF Collect
  <2>2. Results \subseteq Messages
    BY Types DEF Results, FinalMessage, Messages
  <2>3. artifact' \in Messages
    BY <1>7, <2>2, Types DEF Collect
  <2> QED
    BY <1>7, <2>1, <2>3, Types, TypesNext DEF Collect, cli, times
<1>8. ASSUME NEW o \in Observer, Apply(o)
      PROVE  TypeOK'
  <2>1. observer' \in [Observer -> Seen]
    BY <1>8, Restarts DEF Apply
  <2>2. observer[o] \in Seen
    BY <1>0
  <2>3. job' \in Jobs /\ since' \in 0 .. MissingGrace
    <3> DEFINE k == job.known \/ observer[o].known
               w == IF observer[o].why = "" THEN job.why ELSE observer[o].why
    <3>1. /\ observer[o].state \in {"starting", "running"} \cup TERMINAL_STATES
          /\ k \in BOOLEAN /\ w \in Whys \cup {"launch"}
      BY <1>0, <2>2, Fields
    <3> HIDE DEF k, w
    <3>2. [state |-> observer[o].state, known |-> k, why |-> w] \in Jobs
      BY <3>1 DEF Jobs, Whys
    <3>3. since \in 0 .. MissingGrace /\ 0 \in 0 .. MissingGrace
      BY Types
    <3>4. \/ UNCHANGED <<job, since>>
          \/ job' = [state |-> observer[o].state, known |-> k, why |-> w] /\ since' = 0
      BY <1>8 DEF Apply, k, w
    <3> QED
      BY <1>0, <3>2, <3>3, <3>4
  <2> QED
    BY <1>8, <2>1, <2>3, Types, TypesNext DEF Apply, cli, times
<1>9. ASSUME NEW o \in Observer, Interrupt(o)
      PROVE  TypeOK'
  <2>1. observer' \in [Observer -> Seen]
    BY <1>9, <1>c, Goes DEF Interrupt
  <2>2. /\ session' \in {"none", "live", "over", "reaped", "stopped"}
        /\ file' \in Files /\ idle' \in 0 .. IdleCap /\ faults' \in 0 .. MaxFaults
    BY <1>0, <1>a, <1>b, <1>9, Types DEF Interrupt
  <2> QED
    BY <1>9, <2>1, <2>2, Types, TypesNext DEF Interrupt, record
<1>10. CASE Work
  <2>1. file' \in Files /\ idle' \in 0 .. IdleCap /\ quiet' \in 0 .. Quiet
        /\ disk' \in Messages
    BY <1>10, Types DEF Work, Files, Messages
  <2> QED
    BY <1>10, <2>1, Types, TypesNext DEF Work, record
<1>11. CASE End
  <2>1. file' \in Files /\ idle' \in 0 .. IdleCap /\ pending' \in 0 .. MaxPending
    BY <1>11 DEF End, Files
  <2> QED
    BY <1>11, <2>1, Types, TypesNext DEF End, record
<1>12. CASE Flush
  <2>1. pending' \in 0 .. MaxPending /\ disk' \in Messages /\ quiet' \in 0 .. Quiet
    BY <1>12, Types DEF Flush, Messages
  <2> QED
    BY <1>12, <2>1, Types, TypesNext DEF Flush, record
<1>13. CASE Tick
  <2>1. /\ age' \in 0 .. UnrecognizedGrace /\ since' \in 0 .. MissingGrace
        /\ idle' \in 0 .. IdleCap /\ quiet' \in 0 .. Quiet
    BY <1>13, Ages, Types DEF Tick
  <2> QED
    BY <1>13, <2>1, Types, TypesNext DEF Tick, cli
<1>14. CASE Crash
  <2>1. observer' \in [Observer -> Seen]
    BY <1>14, ReadyFields DEF Crash
  <2> QED
    BY <1>14, <1>a, <2>1, Types, TypesNext DEF Crash, record, cli, times
<1>15. CASE UNCHANGED vars
  BY <1>15, Types, TypesNext DEF vars, record, cli, times
<1> QED
  BY <1>1, <1>2, <1>3, <1>4, <1>5, <1>6, <1>7, <1>8, <1>9, <1>10, <1>11, <1>12, <1>13,
     <1>14, <1>15 DEF Next, Reconcile

LEMMA TypesBegin == Init => TypeOK
<1> SUFFICES ASSUME Init PROVE TypeOK
  OBVIOUS
<1>1. job \in Jobs
  BY DEF Init, Jobs
<1>2. file \in Files /\ observer \in [Observer -> Seen]
  BY ReadyFields DEF Init, Files
<1>3. /\ 0 \in 0 .. MaxPending /\ 0 \in 0 .. UnrecognizedGrace /\ 0 \in 0 .. MissingGrace
      /\ 0 \in 0 .. IdleCap /\ 0 \in 0 .. Quiet /\ 0 \in 0 .. MaxFaults
  BY Bounds, CapIsNatural
<1> QED
  BY <1>1, <1>2, <1>3, Types DEF Init, Messages

\* The record, the artifact and the clocks keep their types.
THEOREM TypeCorrect == Spec => []TypeOK
BY TypesBegin, TypesKept, PTL DEF Spec

-----------------------------------------------------------------------------
\* An observer that looks, and leaves everything else as it is.
LEMMA Looks ==
    ASSUME IInv, NEW o \in Observer, UNCHANGED <<job, artifact, launch, cli, idle, quiet, faults>>,
           \A x \in Observer : x # o => observer'[x] = observer[x],
           SeenInv(o)', observer[o].pc # "collect",
           ~(observer'[o].pc \in {"collect", "apply"} /\ observer'[o].why = "reaped")
    PROVE  Inv'
<1>1. Inv
  BY DEF IInv
<1>2. CliInv' /\ FlushInv' /\ RecordInv'
  BY <1>1 DEF Inv, CliInv, FlushInv, RecordInv, Ended, Done, Saved, cli
<1>3. \A x \in Observer : SeenInv(x)'
  BY <1>1 DEF Inv, SeenInv, Ended, Done, Saved, cli
<1>4. (ReapClaimed' => ReapClaimed) /\ (ReapTried' => ReapTried)
  BY DEF ReapClaimed, ReapTried
<1>5. ASSUME \E x \in Observer : observer[x].pc = "collect"
      PROVE  \E x \in Observer : observer'[x].pc = "collect"
  <2>1. PICK x \in Observer : observer[x].pc = "collect"
    BY <1>5
  <2> QED
    BY <2>1
<1>6. ReapInv'
  BY <1>1, <1>4, <1>5 DEF Inv, ReapInv, Saved, cli
<1> QED
  BY <1>2, <1>3, <1>6 DEF Inv

LEMMA ObserveKeeps ==
    ASSUME IInv, NEW o \in Observer,
           Recover(o) \/ ObserveMissing(o) \/ Observe(o) \/ Settle(o)
    PROVE  Inv'
<1>0. /\ TypeOK /\ CliInv /\ FlushInv /\ SeenInv(o) /\ observer[o] \in Seen
      /\ pending \in 0 .. MaxPending /\ idle \in 0 .. IdleCap /\ quiet \in 0 .. Quiet
      /\ {"running", "unknown"} \subseteq {"running"} \cup TERMINAL_STATES
      /\ {"", "read", "odd", "reaped", "missing"} \subseteq Whys
  BY Types DEF IInv, Inv, Whys, TERMINAL_STATES
<1>n. pending \in Nat /\ pending <= MaxPending /\ idle \in Nat /\ quiet \in Nat
  BY Bounds, CapIsNatural, Types DEF IInv
<1>1. observer[o].pc \in {"ready", "settle"}
      /\ UNCHANGED <<job, artifact, launch, cli, idle, quiet, faults>>
  BY DEF Recover, ObserveMissing, Observe, Settle, record, times
<1>2. ASSUME NEW p \in {"reap", "collect", "apply"}, NEW s \in {"running", "unknown"},
             NEW w \in {"", "odd", "reaped", "missing"},
             observer'[o].pc = p, observer'[o].state = s, observer'[o].why = w,
             \A x \in Observer : x # o => observer'[x] = observer[x],
             p = "reap" => session # "none" /\ w = "reaped",
             p # "reap" => w # "reaped"
      PROVE  Inv'
  <2>1. SeenInv(o)'
    BY <1>1, <1>2 DEF SeenInv, cli
  <2> QED
    BY <1>1, <1>2, <2>1, Looks
<1>3. CASE Recover(o) \/ ObserveMissing(o)
  <2>1. /\ observer'[o].pc = "apply"
        /\ \/ observer'[o].state = "running" /\ observer'[o].why = ""
           \/ observer'[o].state = "unknown" /\ observer'[o].why = "missing"
        /\ \A x \in Observer : x # o => observer'[x] = observer[x]
    BY <1>0, <1>3, Goes DEF Recover, ObserveMissing, Running
  <2> QED
    BY <1>2, <2>1
<1>4. CASE Observe(o)
  <2>1. CASE file.raw \in Mapped /\ Then(o, "settle", Mapping(file.raw), "read", FALSE)
    <3>1. Mapping(file.raw) \in TERMINAL_STATES
          /\ (Mapping(file.raw) = "succeeded" => file.raw \in {"done", "blocked"})
      BY <2>1 DEF Mapping, Mapped, TERMINAL_STATES
    <3>2. /\ observer'[o].pc = "settle" /\ observer'[o].state = Mapping(file.raw)
          /\ observer'[o].why = "read"
          /\ \A x \in Observer : x # o => observer'[x] = observer[x]
      BY <1>0, <2>1, <3>1, Goes
    <3>3. SeenInv(o)'
      BY <1>0, <1>1, <2>1, <3>1, <3>2 DEF SeenInv, CliInv, Ended, cli
    <3> QED
      BY <1>1, <3>2, <3>3, Looks
  <2>2. CASE Then(o, "collect", "unknown", "odd", FALSE)
    BY <1>0, <1>2, <2>2, Goes
  <2>3. CASE Then(o, "reap", "unknown", "reaped", FALSE)
    <3>1. session # "none"
      BY <1>0, <1>4 DEF Observe, CliInv
    <3> QED
      BY <1>0, <1>2, <2>3, <3>1, Goes
  <2>4. CASE Running(o)
    BY <1>0, <1>2, <2>4, Goes DEF Running
  <2> QED
    BY <1>4, <2>1, <2>2, <2>3, <2>4 DEF Observe
<1>5. CASE Settle(o)
  <2>1. observer[o].pc = "settle" /\ Ended /\ observer[o].why = "read"
    BY <1>0, <1>5 DEF Settle, SeenInv
  <2>2. CASE TranscriptSettled
    <3>1. observer' = [observer EXCEPT ![o].pc = "collect"]
      BY <1>5, <2>2 DEF Settle
    <3>2. /\ observer'[o].pc = "collect" /\ observer'[o].state = observer[o].state
          /\ observer'[o].why = "read"
          /\ \A x \in Observer : x # o => observer'[x] = observer[x]
      BY <1>0, <2>1, <3>1, GoesOn
    <3>3. pending = 0
      <4>1. SUFFICES ASSUME pending > 0 PROVE FALSE
        BY <1>n, Bounds
      <4>2. PICK n \in 1 .. MaxPending : n = pending
        BY <1>n, <4>1, Bounds
      <4> DEFINE f == (MaxPending - n) * MaxFlush
      <4>3. f \in Nat /\ f + MaxFlush <= MaxPending * MaxFlush
        BY FlushTimes
      <4>4. idle <= f + MaxFlush /\ (idle <= MaxFlush \/ quiet <= MaxFlush)
        BY <1>0, <4>1, <4>2 DEF FlushInv
      <4> HIDE DEF f
      <4>5. PICK m \in Int : m = MaxPending * MaxFlush
        BY Bounds
      <4>6. idle < Ceiling
        BY <1>n, <4>3, <4>4, <4>5, Bounds, FlushAssumption
      <4>7. idle < Quiet \/ quiet < Quiet
        BY <1>n, <4>4, Bounds, FlushAssumption
      <4> QED
        BY <1>n, <2>2, <4>6, <4>7, Bounds DEF TranscriptSettled
    <3>4. SeenInv(o)'
      BY <1>0, <1>1, <2>1, <3>2, <3>3 DEF SeenInv, Done, Ended, cli
    <3> QED
      BY <1>1, <2>1, <3>2, <3>4, Looks
  <2>3. CASE ~TranscriptSettled
    <3>1. /\ observer'[o].pc = "apply" /\ observer'[o].state = "running"
          /\ observer'[o].why = ""
          /\ \A x \in Observer : x # o => observer'[x] = observer[x]
      BY <1>0, <1>5, <2>3, Goes DEF Settle, Running
    <3> QED
      BY <1>2, <3>1
  <2> QED
    BY <2>2, <2>3
<1> QED
  BY <1>3, <1>4, <1>5

\* `claude stop`, and what it leaves behind.
LEMMA Stops ==
    ASSUME IInv, NEW w \in {"reaped", "stopped"}, StopSession(w),
           UNCHANGED <<job, artifact, launch, disk, pending, quiet>>
    PROVE  /\ CliInv' /\ FlushInv' /\ RecordInv'
           /\ session = "live" => session' = w
           /\ session # "live" => session' = session /\ file' = file
           /\ Ended => Ended' /\ (Done => Done')
<1>0. CliInv /\ FlushInv /\ RecordInv
  BY DEF IInv, Inv
<1>1. CASE session = "live"
  <2>1. session' = w /\ file' = [raw |-> "stopped", quiescent |-> TRUE] /\ idle' = 0
    BY <1>1 DEF StopSession
  <2>2. pending \in 0 .. MaxPending /\ ~(pending > 0)
    BY <1>0, <1>1, Types DEF CliInv, IInv
  <2>3. CliInv'
    BY <1>0, <1>1, <2>1, <2>2 DEF CliInv, Ended, Mapped
  <2>4. FlushInv'
    BY <2>2 DEF FlushInv
  <2>5. RecordInv'
    BY <1>0, <1>1 DEF RecordInv, Done, Ended
  <2> QED
    BY <1>1, <2>1, <2>3, <2>4, <2>5 DEF Ended, Done
<1>2. CASE session # "live"
  <2>1. UNCHANGED <<session, file, idle>>
    BY <1>2 DEF StopSession
  <2>2. CliInv' /\ FlushInv' /\ RecordInv'
    BY <1>0, <2>1 DEF CliInv, FlushInv, RecordInv, Done, Ended, Saved
  <2> QED
    BY <1>2, <2>1, <2>2 DEF Ended, Done
<1> QED
  BY <1>1, <1>2

-----------------------------------------------------------------------------
\* The reaper, and the stop for a user.
LEMMA ReapKeeps ==
    ASSUME IInv, NEW o \in Observer, Reap(o)
    PROVE  Inv'
<1>0. /\ TypeOK /\ Inv /\ CliInv /\ ReapInv /\ SeenInv(o) /\ observer[o].pc = "reap"
      /\ session \in {"none", "live", "over", "reaped", "stopped"}
  BY Types DEF IInv, Inv, Reap
<1>1. /\ UNCHANGED <<job, artifact, launch, disk, pending, quiet>>
      /\ observer[o].why = "reaped" /\ observer[o].state # "succeeded" /\ session # "none"
  BY <1>0 DEF Reap, record, SeenInv
<1>2. /\ observer'[o].pc = "collect" /\ observer'[o].state = observer[o].state
      /\ observer'[o].why = "reaped"
      /\ \A x \in Observer : x # o => observer'[x] = observer[x]
  BY <1>0, <1>1, GoesOn DEF Reap
<1>3. \/ StopSession("reaped") /\ faults' = faults
      \/ Fault /\ UNCHANGED <<session, file, idle>>
  BY DEF Reap
<1>4. /\ CliInv' /\ FlushInv' /\ RecordInv' /\ (Ended => Ended') /\ (Done => Done')
      /\ session = "over" => session' = "over"
  <2>1. CASE StopSession("reaped")
    BY <1>1, <2>1, Stops DEF Done
  <2>2. CASE UNCHANGED <<session, file, idle>>
    BY <1>0, <1>1, <2>2 DEF Inv, CliInv, FlushInv, RecordInv, Done, Ended, Saved
  <2> QED
    BY <1>3, <2>1, <2>2
<1>5. ASSUME NEW x \in Observer PROVE SeenInv(x)'
  <2>1. SeenInv(x)
    BY <1>0 DEF Inv
  <2>2. CASE x = o
    BY <1>1, <1>2, <2>2 DEF SeenInv
  <2>3. CASE x # o
    <3>1. observer'[x] = observer[x] /\ (Saved => Saved') /\ (session # "none" => session' # "none")
      BY <1>0, <1>1, <1>2, <1>3, <2>3 DEF Saved, StopSession
    <3> QED
      BY <1>1, <1>4, <2>1, <3>1 DEF SeenInv
  <2> QED
    BY <2>2, <2>3
<1>6. ReapInv'
  <2>1. ReapClaimed' => ReapClaimed
    BY <1>1, <1>2 DEF ReapClaimed
  <2>2. \E x \in Observer : observer'[x].pc = "collect"
    BY <1>2
  <2>3. faults' >= faults /\ (session' = "live" => faults' >= 1)
    BY <1>0, <1>1, <1>3, Bounds, Types DEF StopSession, Fault
  <2>4. session' = "reaped" => session \in {"live", "reaped"}
    BY <1>3 DEF StopSession
  <2>5. session' # "none"
    BY <1>0, <1>1, <1>3 DEF StopSession
  <2>6. session' = "reaped" /\ ReapClaimed' /\ ~Saved' => faults' >= 1
    <3>1. faults \in Nat /\ faults' \in Nat /\ (Saved <=> Saved')
      BY <1>0, <1>1, <1>3, Bounds, Types DEF Fault, Saved
    <3>2. ReapClaimed => ReapTried
      BY DEF ReapTried
    <3> QED
      BY <1>0, <2>1, <2>3, <2>4, <3>1, <3>2 DEF ReapInv
  <2> QED
    BY <2>2, <2>3, <2>5, <2>6 DEF ReapInv
<1> QED
  BY <1>4, <1>5, <1>6 DEF Inv

LEMMA InterruptKeeps ==
    ASSUME IInv, NEW o \in Observer, Interrupt(o)
    PROVE  Inv'
<1>0. /\ TypeOK /\ Inv /\ CliInv /\ ReapInv /\ SeenInv(o) /\ observer[o].pc = "ready"
      /\ session \in {"none", "live", "over", "reaped", "stopped"}
      /\ {"interrupted", "unknown"} \subseteq {"running"} \cup TERMINAL_STATES
      /\ "asked" \in Whys
  BY Types DEF IInv, Inv, Interrupt, TERMINAL_STATES, Whys
<1>1. UNCHANGED <<job, artifact, launch, disk, pending, quiet>>
  BY DEF Interrupt, record
<1>2. /\ observer'[o].pc = "apply" /\ observer'[o].state \in {"interrupted", "unknown"}
      /\ observer'[o].why = "asked"
      /\ \A x \in Observer : x # o => observer'[x] = observer[x]
  BY <1>0, Goes DEF Interrupt
<1>3. \/ StopSession("stopped") /\ faults' = faults
      \/ Fault /\ UNCHANGED <<session, file, idle>>
  BY DEF Interrupt
<1>4. /\ CliInv' /\ FlushInv' /\ RecordInv' /\ (Ended => Ended') /\ (Done => Done')
      /\ session = "over" => session' = "over"
  <2>1. CASE StopSession("stopped")
    BY <1>1, <2>1, Stops DEF Done
  <2>2. CASE UNCHANGED <<session, file, idle>>
    BY <1>0, <1>1, <2>2 DEF Inv, CliInv, FlushInv, RecordInv, Done, Ended, Saved
  <2> QED
    BY <1>3, <2>1, <2>2
<1>5. ASSUME NEW x \in Observer PROVE SeenInv(x)'
  <2>1. SeenInv(x)
    BY <1>0 DEF Inv
  <2>2. CASE x = o
    BY <1>2, <2>2 DEF SeenInv
  <2>3. CASE x # o
    <3>1. observer'[x] = observer[x] /\ (Saved => Saved') /\ (session # "none" => session' # "none")
      BY <1>0, <1>1, <1>2, <1>3, <2>3 DEF Saved, StopSession
    <3> QED
      BY <1>1, <1>4, <2>1, <3>1 DEF SeenInv
  <2> QED
    BY <2>2, <2>3
<1>6. ReapInv'
  <2>1. (ReapClaimed' => ReapClaimed) /\ (ReapTried' => ReapTried)
    BY <1>1, <1>2 DEF ReapClaimed, ReapTried
  <2>2. ASSUME \E x \in Observer : observer[x].pc = "collect"
        PROVE  \E x \in Observer : observer'[x].pc = "collect"
    <3>1. PICK x \in Observer : observer[x].pc = "collect"
      BY <2>2
    <3> QED
      BY <1>0, <1>2, <3>1
  <2>3. faults \in Nat /\ faults' \in Nat /\ faults' >= faults
    BY <1>0, <1>3, Bounds, Types DEF Fault
  <2>4. /\ session' = "reaped" => session = "reaped"
        /\ session' \in {"none", "live"} => session \in {"none", "live"}
    BY <1>3 DEF StopSession
  <2>5. Saved <=> Saved'
    BY <1>1 DEF Saved
  <2> QED
    BY <1>0, <2>1, <2>2, <2>3, <2>4, <2>5 DEF ReapInv
<1> QED
  BY <1>4, <1>5, <1>6 DEF Inv

\* The result is read and written.
LEMMA CollectKeeps ==
    ASSUME IInv, NEW o \in Observer, Collect(o)
    PROVE  Inv'
<1>0. /\ TypeOK /\ Inv /\ CliInv /\ FlushInv /\ RecordInv /\ ReapInv /\ SeenInv(o)
      /\ observer[o].pc = "collect" /\ disk \in Messages /\ artifact \in Messages
      /\ observer[o].why # "thin"
      /\ "unknown" \in {"running"} \cup TERMINAL_STATES /\ "thin" \in Whys
  BY Types DEF IInv, Inv, Collect, SeenInv, TERMINAL_STATES, Whys
<1>1. UNCHANGED <<job, launch, cli, idle, quiet, faults>>
  BY DEF Collect, times
<1>2. PICK result \in Results :
        /\ artifact' = IF result = "none" THEN artifact ELSE result
        /\ IF Thin(observer[o].state, result)
           THEN Then(o, "apply", "unknown", "thin", FALSE)
           ELSE observer' = [observer EXCEPT ![o].pc = "apply"]
  BY DEF Collect
<1>3. /\ disk = "report" => result = "report"
      /\ result = "report" => disk = "report"
  BY DEF Results, FinalMessage
\* What is in the transcript is in the artifact, as it was.
<1>4. /\ Saved' /\ (artifact' = "report" => disk = "report")
      /\ (artifact = "report" => artifact' = "report")
  BY <1>0, <1>1, <1>2, <1>3 DEF Saved, CliInv, cli
<1>5. \/ /\ observer'[o].state = "unknown" /\ observer'[o].why = "thin"
         /\ observer[o].state = "succeeded"
      \/ /\ observer'[o].state = observer[o].state /\ observer'[o].why = observer[o].why
         /\ observer[o].state = "succeeded" => result = "report"
  BY <1>0, <1>2, Goes, GoesOn DEF Thin
<1>6. observer'[o].pc = "apply"
      /\ \A x \in Observer : x # o => observer'[x] = observer[x]
  BY <1>0, <1>2, Goes, GoesOn
<1>7. CliInv' /\ FlushInv' /\ RecordInv'
  BY <1>0, <1>1, <1>4 DEF CliInv, FlushInv, RecordInv, Done, Ended, cli
<1>8. ASSUME NEW x \in Observer PROVE SeenInv(x)'
  <2>1. SeenInv(x)
    BY <1>0 DEF Inv
  <2>2. CASE x = o
    <3>1. observer'[o].state = "succeeded" => artifact' = "report"
      BY <1>2, <1>5
    <3>2. observer[o].state = "succeeded" => observer[o].why = "read" /\ session = "over"
      BY <1>0 DEF SeenInv
    <3>3. observer[o].why = "read" => Done
      BY <1>0 DEF SeenInv
    <3>4. Done <=> Done'
      BY <1>1 DEF Done, Ended, cli
    <3> QED
      BY <1>0, <1>1, <1>4, <1>5, <1>6, <2>2, <3>1, <3>2, <3>3, <3>4 DEF SeenInv, cli
  <2>3. CASE x # o
    BY <1>1, <1>4, <1>6, <2>1, <2>3 DEF SeenInv, Done, Ended, cli
  <2> QED
    BY <2>2, <2>3
<1>9. ReapInv'
  <2>1. ReapTried' => ReapTried
    <3>1. observer'[o].why = "reaped" => observer[o].why = "reaped"
      BY <1>5
    <3> QED
      BY <1>0, <1>1, <1>6, <3>1 DEF ReapTried, ReapClaimed
  <2> QED
    BY <1>0, <1>1, <1>4, <2>1 DEF ReapInv, cli
<1> QED
  BY <1>7, <1>8, <1>9 DEF Inv

\* The observation is recorded, or dropped.
LEMMA ApplyKeeps ==
    ASSUME IInv, NEW o \in Observer, Apply(o)
    PROVE  Inv'
<1>0. /\ TypeOK /\ Inv /\ CliInv /\ FlushInv /\ RecordInv /\ ReapInv /\ SeenInv(o)
      /\ observer[o].pc = "apply"
  BY DEF IInv, Inv, Apply
<1>1. UNCHANGED <<artifact, launch, cli, idle, quiet, faults>>
  BY DEF Apply, times
<1>2. observer'[o] = Ready /\ \A x \in Observer : x # o => observer'[x] = observer[x]
  BY <1>0, Restarts DEF Apply
<1>3. \/ job' = job
      \/ /\ job'.state = observer[o].state
         /\ job'.why = IF observer[o].why = "" THEN job.why ELSE observer[o].why
  <2> DEFINE k == job.known \/ observer[o].known
             w == IF observer[o].why = "" THEN job.why ELSE observer[o].why
  <2>1. job' = job \/ job' = [state |-> observer[o].state, known |-> k, why |-> w]
    BY DEF Apply
  <2>2. w = IF observer[o].why = "" THEN job.why ELSE observer[o].why
    OBVIOUS
  <2> HIDE DEF k, w
  <2>3. CASE job' = [state |-> observer[o].state, known |-> k, why |-> w]
    <3>1. job'.state = observer[o].state /\ job'.why = w
      BY <2>3
    <3> QED
      BY <2>2, <3>1
  <2> QED
    BY <2>1, <2>3
<1>4. CliInv' /\ FlushInv'
  BY <1>0, <1>1 DEF CliInv, FlushInv, Ended, cli
<1>5. RecordInv'
  BY <1>0, <1>1, <1>3 DEF RecordInv, SeenInv, Done, Ended, Saved, cli
<1>6. ASSUME NEW x \in Observer PROVE SeenInv(x)'
  <2>1. SeenInv(x)
    BY <1>0 DEF Inv
  <2>2. CASE x = o
    BY <1>2, <2>2, ReadyFields DEF SeenInv
  <2>3. CASE x # o
    BY <1>1, <1>2, <2>1, <2>3 DEF SeenInv, Done, Ended, Saved, cli
  <2> QED
    BY <2>2, <2>3
<1>7. ReapInv'
  <2>1. ReapClaimed' => ReapClaimed
    BY <1>0, <1>2, <1>3, ReadyFields DEF ReapClaimed
  <2>2. ReapTried' => ReapTried
    BY <1>2, <2>1, ReadyFields DEF ReapTried
  <2>3. ASSUME \E x \in Observer : observer[x].pc = "collect"
        PROVE  \E x \in Observer : observer'[x].pc = "collect"
    <3>1. PICK x \in Observer : observer[x].pc = "collect"
      BY <2>3
    <3> QED
      BY <1>0, <1>2, <3>1
  <2> QED
    BY <1>0, <1>1, <2>1, <2>2, <2>3 DEF ReapInv, Saved, cli
<1> QED
  BY <1>4, <1>5, <1>6, <1>7 DEF Inv

-----------------------------------------------------------------------------
\* The launch, the CLI, the clocks, and a crash.  These leave every observer where
\* it is, or send all of them back.
LEMMA LaunchKeeps ==
    ASSUME IInv, Launch \/ LaunchRecord
    PROVE  Inv'
<1>0. /\ TypeOK /\ Inv /\ CliInv /\ FlushInv /\ RecordInv /\ ReapInv
      /\ pending \in Nat /\ job \in Jobs
  BY Bounds, Types DEF IInv, Inv
<1>1. /\ observer' = observer /\ UNCHANGED <<artifact, disk, pending, quiet, faults>>
      /\ job'.why \in {job.why, "launch"}
      /\ job'.state \in {job.state, "running", "failed"}
  <2>1. UNCHANGED <<observer, artifact, disk, pending, quiet, faults>>
    BY DEF Launch, LaunchRecord, record, cli, times
  <2>2. \/ job' = job \/ job' = [job EXCEPT !.state = "running", !.known = TRUE]
        \/ job' = [job EXCEPT !.state = "failed", !.why = "launch"]
    BY DEF Launch, LaunchRecord, record
  <2>3. job'.why \in {job.why, "launch"} /\ job'.state \in {job.state, "running", "failed"}
    BY <1>0, <2>2 DEF Jobs
  <2> QED
    BY <2>1, <2>3
<1>2. (ReapClaimed' => ReapClaimed) /\ (ReapTried' => ReapTried)
  BY <1>1 DEF ReapClaimed, ReapTried
<1>3. CASE UNCHANGED <<session, file, idle>> /\ (launch' = launch \/ launch' = "over")
  <2>1. CliInv' /\ FlushInv' /\ RecordInv'
    BY <1>0, <1>1, <1>3 DEF CliInv, FlushInv, RecordInv, Done, Ended, Saved
  <2>2. \A x \in Observer : SeenInv(x)'
    BY <1>0, <1>1, <1>3 DEF Inv, SeenInv, Done, Ended, Saved
  <2>3. ReapInv'
    BY <1>0, <1>1, <1>2, <1>3 DEF ReapInv, Saved
  <2> QED
    BY <2>1, <2>2, <2>3 DEF Inv
<1>4. CASE launch = "begin" /\ SessionStarts /\ launch' = "ran"
  <2>1. /\ session = "none" /\ session' = "live" /\ file.raw = "absent" /\ ~(pending > 0)
        /\ ~Ended
    BY <1>0, <1>4 DEF SessionStarts, CliInv, Ended
  <2>2. file'.raw \in {"absent", "active", "odd"}
    BY <1>4, <2>1 DEF SessionStarts
  <2>3. CliInv'
    BY <1>0, <1>1, <1>4, <2>1, <2>2 DEF CliInv, Ended, Mapped
  <2>4. FlushInv'
    BY <1>1, <2>1 DEF FlushInv
  <2>5. RecordInv'
    BY <1>0, <1>1, <2>1 DEF RecordInv, Done
  <2>6. \A x \in Observer : SeenInv(x)'
    BY <1>0, <1>1, <2>1 DEF Inv, SeenInv, Done
  <2>7. ReapInv'
    BY <1>0, <1>1, <1>2, <2>1 DEF ReapInv
  <2> QED
    BY <2>3, <2>4, <2>5, <2>6, <2>7 DEF Inv
<1> QED
  BY <1>3, <1>4 DEF Launch, LaunchRecord, cli, times

\* While the session lives nobody relies on its end.
LEMMA CliKeeps ==
    ASSUME IInv, Work \/ End
    PROVE  Inv'
<1>0. /\ TypeOK /\ Inv /\ CliInv /\ RecordInv /\ ReapInv /\ pending \in Nat
      /\ MaxPending \in Nat /\ MaxFlush \in Nat
  BY Bounds, Types DEF IInv, Inv
<1>1. /\ session = "live" /\ session' \in {"live", "over"} /\ idle' = 0
      /\ UNCHANGED <<job, artifact, observer, launch, faults>>
      /\ ~Ended /\ pending = 0
  BY <1>0 DEF Work, End, record, Ended, CliInv
<1>2. CliInv'
  <2>1. CASE Work
    <3>1. session' = "live" /\ pending' = pending /\ file'.raw \in {"active", "odd"}
      BY <2>1 DEF Work
    <3>2. artifact = "report" => disk' = "report"
      BY <1>0, <2>1 DEF Work, CliInv
    <3> QED
      BY <1>0, <1>1, <3>1, <3>2 DEF CliInv, Ended, Mapped
  <2>2. CASE End
    <3>1. session' = "over" /\ file'.raw \in Mapped /\ disk' = disk
      BY <2>2 DEF End
    <3>2. disk = "report" => pending' = 0
      BY <2>2 DEF End
    <3> QED
      BY <1>0, <1>1, <3>1, <3>2 DEF CliInv, Ended
  <2> QED
    BY <2>1, <2>2
<1>3. FlushInv'
  <2>1. CASE Work
    BY <1>1, <2>1 DEF Work, FlushInv
  <2>2. CASE End
    <3>1. quiet' \in Nat /\ pending' \in 0 .. MaxPending
      BY <1>0, <2>2, Bounds, Types DEF End
    <3>2. CASE pending' > 0
      <4>1. PICK n \in 1 .. MaxPending : n = pending'
        BY <1>0, <3>1, <3>2
      <4> DEFINE f == (MaxPending - n) * MaxFlush
      <4>2. f \in Nat /\ (MaxPending - pending') * MaxFlush = f
        BY <4>1, FlushTimes
      <4> HIDE DEF f
      <4>3. f \in Nat /\ quiet' \in Nat /\ MaxFlush \in Nat /\ idle' \in Nat /\ idle' = 0
        BY <1>0, <1>1, <3>1, <4>2
      <4>4. idle' <= f + quiet' /\ idle' <= f + MaxFlush /\ idle' <= MaxFlush
        BY <4>3, NothingYet
      <4> QED
        BY <4>2, <4>4 DEF FlushInv
    <3>3. CASE ~(pending' > 0)
      BY <3>3 DEF FlushInv
    <3> QED
      BY <3>2, <3>3
  <2> QED
    BY <2>1, <2>2
<1>4. RecordInv'
  BY <1>0, <1>1 DEF RecordInv, Done
<1>5. \A x \in Observer : SeenInv(x)'
  BY <1>0, <1>1 DEF Inv, SeenInv, Done
<1>6. ReapInv'
  BY <1>0, <1>1 DEF ReapInv, ReapClaimed, ReapTried
<1> QED
  BY <1>2, <1>3, <1>4, <1>5, <1>6 DEF Inv

\* A flush starts the clock of the transcript again, and it was in time.
LEMMA FlushKeeps ==
    ASSUME IInv, Flush
    PROVE  Inv'
<1>0. /\ TypeOK /\ Inv /\ CliInv /\ FlushInv /\ RecordInv /\ ReapInv
      /\ MaxPending \in Nat /\ MaxFlush \in Nat /\ idle \in Nat /\ quiet \in Nat
  BY Bounds, CapIsNatural, Types DEF IInv, Inv
<1>1. /\ session = "over" /\ pending > 0 /\ pending' = pending - 1 /\ quiet' = 0
      /\ disk' = IF pending = 1 THEN "report" ELSE "note"
      /\ UNCHANGED <<job, artifact, observer, launch, session, file, idle, faults>>
      /\ disk # "report" /\ artifact # "report"
  BY <1>0 DEF Flush, record, CliInv
<1>2. PICK n \in 1 .. MaxPending : n = pending
  BY <1>0, <1>1, Types
<1>3. CliInv'
  BY <1>0, <1>1, <1>2 DEF CliInv, Ended
<1>4. FlushInv'
  <2> DEFINE f == (MaxPending - n) * MaxFlush
             g == (MaxPending - (n - 1)) * MaxFlush
  <2>1. f \in Nat /\ g = f + MaxFlush
    BY FlushTimes
  <2>2. idle <= f + MaxFlush
    BY <1>0, <1>1, <1>2 DEF FlushInv
  <2>3. MaxPending - pending' = MaxPending - (n - 1)
    BY <1>1, <1>2
  <2>4. (MaxPending - pending') * MaxFlush = g
    BY <2>3
  <2> HIDE DEF f, g
  <2> QED
    BY <1>0, <1>1, <2>1, <2>2, <2>4 DEF FlushInv
<1>5. ~Done
  BY <1>1, <1>2 DEF Done
<1>6. RecordInv'
  BY <1>0, <1>1, <1>5 DEF RecordInv
<1>7. \A x \in Observer : SeenInv(x)'
  BY <1>0, <1>1, <1>5 DEF Inv, SeenInv, Ended
<1>8. ReapInv'
  BY <1>1 DEF ReapInv
<1> QED
  BY <1>3, <1>4, <1>6, <1>7, <1>8 DEF Inv

\* Time does not pass a flush that is due.
LEMMA TickKeeps ==
    ASSUME IInv, Tick
    PROVE  Inv'
<1>0. /\ TypeOK /\ Inv /\ CliInv /\ FlushInv /\ RecordInv /\ ReapInv
      /\ MaxPending \in Nat /\ MaxFlush \in Nat /\ idle \in Nat /\ quiet \in 0 .. Quiet
      /\ Quiet \in Nat /\ MaxFlush < Quiet
  BY Bounds, CapIsNatural, FlushAssumption, Types DEF IInv, Inv
<1>1. UNCHANGED <<job, artifact, observer, launch, cli, faults>>
  BY DEF Tick
<1>2. CliInv' /\ RecordInv' /\ ReapInv'
  BY <1>0, <1>1
     DEF CliInv, RecordInv, ReapInv, ReapClaimed, ReapTried, Done, Ended, Saved, cli
<1>3. \A x \in Observer : SeenInv(x)'
  BY <1>0, <1>1 DEF Inv, SeenInv, Done, Ended, Saved, cli
<1>4. FlushInv'
  <2>1. SUFFICES ASSUME pending > 0 PROVE FlushInv'
    BY <1>1 DEF FlushInv, cli
  <2>2. PICK n \in 1 .. MaxPending : n = pending
    BY <1>0, <2>1, Types
  <2> DEFINE f == (MaxPending - n) * MaxFlush
  <2>3. f \in Nat
    BY FlushTimes
  <2>4. /\ idle <= f + quiet /\ idle <= f + MaxFlush
        /\ idle <= MaxFlush \/ quiet <= MaxFlush
    BY <1>0, <2>1, <2>2 DEF FlushInv
  <2>5. (MaxPending - pending') * MaxFlush = f
    BY <1>1, <2>2 DEF cli
  <2> HIDE DEF f
  <2>6. idle < MaxFlush \/ quiet < MaxFlush
    BY <2>1 DEF Tick
  <2>7. idle' \in Nat /\ idle' <= idle + 1
    BY <1>0, CapIsNatural DEF Tick, Older
  <2>8. quiet' = IF quiet < Quiet THEN quiet + 1 ELSE quiet
    BY DEF Tick, Older
  <2>9. idle' <= f + quiet' /\ idle' <= f + MaxFlush
        /\ (idle' <= MaxFlush \/ quiet' <= MaxFlush)
    BY <1>0, <2>3, <2>4, <2>6, <2>7, <2>8
  <2> QED
    BY <2>5, <2>9 DEF FlushInv
<1> QED
  BY <1>2, <1>3, <1>4 DEF Inv

LEMMA CrashKeeps ==
    ASSUME IInv, Crash
    PROVE  Inv'
<1>0. /\ TypeOK /\ Inv /\ CliInv /\ FlushInv /\ RecordInv /\ ReapInv /\ faults \in Nat
  BY Bounds, Types DEF IInv, Inv
<1>1. /\ UNCHANGED <<job, artifact, cli, idle, quiet>> /\ launch' = "over"
      /\ faults' = faults + 1 /\ \A x \in Observer : observer'[x] = Ready
  BY DEF Crash, Fault, record, times
<1>2. CliInv' /\ FlushInv' /\ RecordInv'
  BY <1>0, <1>1 DEF CliInv, FlushInv, RecordInv, Done, Ended, Saved, cli
<1>3. \A x \in Observer : SeenInv(x)'
  BY <1>1, ReadyFields DEF SeenInv
<1>4. (ReapClaimed' => ReapClaimed) /\ (ReapTried' => ReapTried)
  BY <1>1, ReadyFields DEF ReapClaimed, ReapTried
<1>5. ReapInv'
  BY <1>0, <1>1, <1>4 DEF ReapInv, Saved, cli
<1> QED
  BY <1>2, <1>3, <1>5 DEF Inv

LEMMA InvKept == IInv /\ [Next]_vars => IInv'
<1> SUFFICES ASSUME IInv, [Next]_vars PROVE IInv'
  OBVIOUS
<1>1. TypeOK'
  BY TypesKept DEF IInv
<1>2. CASE Next
  BY <1>1, <1>2, LaunchKeeps, ObserveKeeps, ReapKeeps, CollectKeeps, ApplyKeeps,
     InterruptKeeps, CliKeeps, FlushKeeps, TickKeeps, CrashKeeps DEF Next, Reconcile, IInv
<1>3. CASE UNCHANGED vars
  <2>1. CliInv' /\ FlushInv' /\ RecordInv' /\ ReapInv'
    BY <1>3 DEF IInv, Inv, CliInv, FlushInv, RecordInv, ReapInv, ReapClaimed, ReapTried,
         Done, Ended, Saved, vars, record, cli, times
  <2>2. \A x \in Observer : SeenInv(x)'
    BY <1>3 DEF IInv, Inv, SeenInv, Done, Ended, Saved, vars, record, cli
  <2> QED
    BY <1>1, <2>1, <2>2 DEF IInv, Inv
<1> QED
  BY <1>2, <1>3

LEMMA InvBegins == Init => IInv
<1> SUFFICES ASSUME Init PROVE IInv
  OBVIOUS
<1>1. TypeOK /\ pending \in Nat
  BY TypesBegin, Types, Bounds
<1>2. CliInv /\ FlushInv /\ RecordInv
  <2>1. /\ job.state = "starting" /\ job.why = "" /\ file.raw = "absent"
        /\ artifact = "none" /\ disk = "none" /\ pending = 0
        /\ launch = "begin" /\ session = "none"
    BY DEF Init
  <2>2. CliInv
    <3>1. ~Ended /\ ~(file.raw \in Mapped) /\ ~(file.raw \in {"done", "blocked"})
      BY <2>1 DEF Ended, Mapped
    <3>2. ~(pending > 0)
      BY <2>1, <1>1, NoneDue
    <3> QED
      BY <2>1, <3>1, <3>2 DEF CliInv
  <2>3. FlushInv
    <3>1. ~(pending > 0)
      BY <2>1, <1>1, NoneDue
    <3> QED
      BY <3>1 DEF FlushInv
  <2>4. RecordInv
    BY <2>1 DEF RecordInv
  <2> QED
    BY <2>2, <2>3, <2>4
<1>3. \A o \in Observer : SeenInv(o)
  BY ReadyFields DEF Init, SeenInv
<1>4. ~ReapTried /\ ~ReapClaimed
  BY ReadyFields DEF Init, ReapTried, ReapClaimed
<1> QED
  BY <1>1, <1>2, <1>3, <1>4 DEF IInv, Inv, ReapInv

LEMMA Invariance == Spec => []IInv
BY InvBegins, InvKept, PTL DEF Spec

\* The transcript is read only when everything was flushed: a marker and a transcript
\* that look settled are older than any flush still due, so that the report is in the
\* artifact, whatever another observer writes into it (_transcript_settled()).
THEOREM ReportIsKept == Spec => []ReportKept
<1>1. IInv => ReportKept
  <2> SUFFICES ASSUME IInv, job.why \in {"read", "thin"}, pending > 0 \/ disk = "report"
               PROVE  artifact = "report"
    BY DEF ReportKept
  <2>1. Done /\ Saved /\ pending \in Nat
    BY Types, Bounds DEF IInv, Inv, RecordInv
  <2> QED
    BY <2>1 DEF Done, Saved
<1> QED
  BY <1>1, Invariance, PTL

\* A reaper keeps the report that was written before it stopped the session, as long
\* as no two things fail.
THEOREM ReapersKeepReports == Spec => []ReapKeepsReport
<1>1. IInv => ReapKeepsReport
  <2> SUFFICES ASSUME IInv, job.why = "reaped", session = "reaped", disk = "report",
                      faults < 2, \A o \in Observer : observer[o].pc # "collect"
               PROVE  artifact = "report"
    BY DEF ReapKeepsReport
  <2>1. faults \in Nat /\ ReapInv /\ ReapClaimed
    BY Types, Bounds DEF IInv, Inv, ReapClaimed
  <2> QED
    BY <2>1 DEF ReapInv, Saved
<1> QED
  BY <1>1, Invariance, PTL

\* Only a session that ended of itself and reported is recorded as succeeded, and no
\* other observer's write takes the report out of the artifact again (reconcile()).
THEOREM SuccessIsEarned == Spec => []SuccessEarned
<1>1. IInv => SuccessEarned
  BY DEF IInv, Inv, RecordInv, SuccessEarned
<1> QED
  BY <1>1, Invariance, PTL
===============================================================================
