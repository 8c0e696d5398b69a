--------------------------- MODULE Service_proofs ---------------------------
(***************************************************************************)
(* Theorems of Service, for every number of clients, of daemons, of calls, *)
(* of crashes and of jobs.                                                 *)
(***************************************************************************)
EXTENDS Service, TLAPS

-----------------------------------------------------------------------------
(* The transactions of the store. *)

JobStates == {"none", "active", "asked", "ended", "forgotten"}

\* What a transaction may do to an entity: its jobs go on, an ended one may be
\* forgotten, and with it what the table says of its launch and of a stop of it.
SameEntity(s, t) ==
  /\ t.generation = s.generation
  /\ \A j \in Job :
       \/ t.job[j] = s.job[j]
       \/ s.job[j] \in {"active", "asked"} /\ t.job[j] \in {"asked", "ended"}
       \/ /\ s.job[j] = "ended" /\ t.job[j] = "forgotten"
          /\ "launch" \notin t.remembered

\* ... or it is a launch that the table does not know.
NewEntity(s, t) ==
  /\ "launch" \notin s.remembered
  /\ t.generation = s.generation + 1
  /\ t.remembered = {"launch"}
  /\ \A j \in Job : t.job[j] = "active"

StoreStep(s, t) == SameEntity(s, t) \/ NewEntity(s, t)

LEMMA KeyTypes == \A j \in Job : j \in Key /\ j \notin {"launch", "stop", "forget"}
BY JobAssumption DEF Key

LEMMA CreateLaunchStep ==
  ASSUME NEW s \in Store
  PROVE  /\ CreateLaunch(s) \in Store
         /\ StoreStep(s, CreateLaunch(s))
         /\ "launch" \in CreateLaunch(s).remembered
         /\ CreateLaunch(s) = s \/ NewEntity(s, CreateLaunch(s))
<1>1. CASE "launch" \in s.remembered
  BY <1>1 DEF CreateLaunch, StoreStep, SameEntity
<1>2. CASE "launch" \notin s.remembered
  BY <1>2 DEF CreateLaunch, StoreStep, NewEntity, Store, Key
<1>3. QED
  BY <1>1, <1>2

LEMMA RememberStep ==
  ASSUME NEW s \in Store, NEW key \in Key, NEW generation
  PROVE  /\ Remember(s, generation, key) \in Store
         /\ SameEntity(s, Remember(s, generation, key))
         /\ Remember(s, generation, key).job = s.job
         /\ Remember(s, generation, key).remembered =
              IF generation = s.generation THEN s.remembered \cup {key}
                                           ELSE s.remembered
BY DEF Remember, SameEntity, Store

LEMMA UpdateJobStep ==
  ASSUME NEW s \in Store, NEW j \in Job, NEW state \in {"asked", "ended"}
  PROVE  /\ UpdateJob(s, j, state) \in Store
         /\ SameEntity(s, UpdateJob(s, j, state))
         /\ UpdateJob(s, j, state).remembered = s.remembered
BY DEF UpdateJob, SameEntity, Store

LEMMA ForgetJobStep ==
  ASSUME NEW s \in Store, NEW j \in Job, s.job[j] = "ended"
  PROVE  /\ ForgetJob(s, j) \in Store
         /\ SameEntity(s, ForgetJob(s, j))
         /\ ForgetJob(s, j).job = [s.job EXCEPT ![j] = "forgotten"]
         /\ ForgetJob(s, j).remembered = s.remembered \ {"launch", "stop", j}
BY DEF ForgetJob, Mentions, SameEntity, Store

LEMMA ForgetGroupStep ==
  ASSUME NEW s \in Store
  PROVE  /\ ForgetGroup(s) \in Store
         /\ SameEntity(s, ForgetGroup(s))
         /\ \A j \in Job : ForgetGroup(s).job[j] =
              IF s.job[j] = "ended" THEN "forgotten" ELSE s.job[j]
         /\ ForgetGroup(s).remembered = s.remembered \ {"launch", "stop", "forget"}
BY DEF ForgetGroup, SameEntity, Store

-----------------------------------------------------------------------------
(* Type correctness.  Processes are started in order, so that there is     *)
(* always a next one unless the bound is used up.                          *)

BornInOrder ==
  \E k \in 0 .. Daemons : \A d \in Daemon : daemon[d] = "unborn" <=> k < d

TypeInv == TypeOK /\ BornInOrder

FirstUnborn == CHOOSE n \in Unborn : \A m \in Unborn : n <= m

LEMMA DaemonNumbers == \A d \in Daemon : d \in Nat /\ d # None
BY BoundsAssumption DEF Daemon, None

\* The process that Popen starts is the first of those that were not started.
LEMMA NextUnborn ==
  ASSUME TypeInv, Unborn # {}
  PROVE  /\ FirstUnborn \in Daemon
         /\ daemon[FirstUnborn] = "unborn"
         /\ \A m \in Daemon : daemon[m] = "unborn" <=> FirstUnborn <= m
<1>1. PICK k \in 0 .. Daemons : \A d \in Daemon : daemon[d] = "unborn" <=> k < d
  BY DEF TypeInv, BornInOrder
<1>2. Daemons \in Nat
  BY BoundsAssumption
<1>3. k + 1 \in Unborn
  BY <1>1, <1>2 DEF Unborn, Daemon
<1>4. \A m \in Unborn : m \in Nat /\ k + 1 <= m
  BY <1>1, <1>2 DEF Unborn, Daemon
<1>5. FirstUnborn \in Unborn /\ \A m \in Unborn : FirstUnborn <= m
  BY <1>3, <1>4 DEF FirstUnborn
<1>6. FirstUnborn = k + 1
  BY <1>1, <1>3, <1>4, <1>5
<1>7. QED
  BY <1>1, <1>2, <1>5, <1>6 DEF Unborn, Daemon

NoBirth == \A d \in Daemon : daemon'[d] = "unborn" <=> daemon[d] = "unborn"

LEMMA NoBirthInOrder ==
  ASSUME BornInOrder, NoBirth
  PROVE  BornInOrder'
BY DEF BornInOrder, NoBirth

\* A daemon that has been started goes on.
LEMMA ToType ==
  ASSUME TypeOK, NEW d \in Daemon, NEW pc \in DaemonPcs, To(d, pc)
  PROVE  /\ daemon' \in [Daemon -> DaemonPcs]
         /\ daemon'[d] = pc
         /\ \A e \in Daemon : e # d => daemon'[e] = daemon[e]
         /\ pc # "unborn" /\ daemon[d] # "unborn" => NoBirth
BY DEF TypeOK, To, NoBirth

\* The fields of a client that a step assigns.
ClientPcs == {"idle", "connect", "startlock", "probe", "await", "retry", "sent",
              "quiet", "check", "checksent"}

LEMMA GotoType ==
  ASSUME TypeOK, NEW c \in Client, NEW pc \in ClientPcs
  PROVE  [client EXCEPT ![c].pc = pc] \in [Client -> Calling]
<1>1. [client[c] EXCEPT !.pc = pc] \in Calling
  BY DEF TypeOK, Calling, ClientPcs
<1>2. QED
  BY <1>1 DEF TypeOK

LEMMA GotoConnType ==
  ASSUME TypeOK, NEW c \in Client, NEW pc \in ClientPcs, NEW d \in {None} \cup Daemon
  PROVE  /\ [client EXCEPT ![c].pc = pc, ![c].conn = d] \in [Client -> Calling]
         /\ [client EXCEPT ![c].pc = pc, ![c].child = d] \in [Client -> Calling]
<1>1. client[c] \in Calling
  BY DEF TypeOK
<1>2. /\ [client[c] EXCEPT !.pc = pc, !.conn = d] \in Calling
      /\ [client[c] EXCEPT !.pc = pc, !.child = d] \in Calling
  BY <1>1 DEF Calling, ClientPcs
<1>3. QED
  BY <1>2 DEF TypeOK

LEMMA RequestTypes ==
  /\ NoRequest \in Request
  /\ [NoRequest EXCEPT !.op = "shutdown"] \in Request
  /\ Idle \in Calling
  /\ NoThread \in [pc : ThreadPcs, request : Request]
BY DEF NoRequest, Request, Ops, Idle, Calling, NoThread, ThreadPcs

Threads == [pc : ThreadPcs, request : Request]

LEMMA ThreadType ==
  ASSUME TypeOK, NEW d \in Daemon, NEW c \in Client, NEW value \in Threads
  PROVE  [thread EXCEPT ![d][c] = value] \in [Daemon -> [Client -> Threads]]
BY DEF TypeOK, Threads

LEMMA ThreadPcType ==
  ASSUME TypeOK, NEW d \in Daemon, NEW c \in Client, NEW pc \in ThreadPcs
  PROVE  [thread EXCEPT ![d][c].pc = pc] \in [Daemon -> [Client -> Threads]]
<1>1. [thread[d][c] EXCEPT !.pc = pc] \in Threads
  BY DEF TypeOK, Threads
<1>2. QED
  BY <1>1, ThreadType DEF TypeOK, Threads

LEMMA ServeType ==
  ASSUME TypeOK, NEW d \in Daemon, NEW c \in Client, NEW request \in Request,
         Serve(d, c, request)
  PROVE  thread' \in [Daemon -> [Client -> Threads]]
<1>1. [pc |-> "accepted", request |-> request] \in Threads
  BY DEF Threads, ThreadPcs
<1>2. QED
  BY <1>1, ThreadType DEF Serve

LEMMA SendType ==
  ASSUME TypeOK, NEW c \in Client, Connectable, Send(c)
  PROVE  /\ client' \in [Client -> Calling]
         /\ thread' \in [Daemon -> [Client -> Threads]]
<1>1. socket.owner \in Daemon /\ client[c].request \in Request
  BY DEF TypeOK, Connectable, Calling
<1>2. QED
  BY <1>1, GotoConnType, ServeType DEF Send, ClientPcs

LEMMA RaiseType ==
  ASSUME TypeOK, NEW c \in Client, NEW why, Raise(c, why)
  PROVE  /\ client' \in [Client -> Calling]
         /\ startLock' \in {NoClient} \cup Client
         /\ disturbed' \in BOOLEAN
<1>1. [Idle EXCEPT !.pc = "connect", !.restart = TRUE, !.old = client[c].old]
        \in Calling
  BY RequestTypes DEF TypeOK, Calling
<1>2. [Idle EXCEPT !.result = IF why = "exited" THEN why ELSE "failed"] \in Calling
  BY RequestTypes DEF Calling
<1>3. QED
  BY <1>1, <1>2 DEF Raise, TypeOK

LEMMA DaemonType ==
  ASSUME TypeInv, NEW d \in Daemon, DaemonStep(d) \/ Stop(d) \/ Kill(d)
  PROVE  TypeInv'
<1> USE DEF DaemonPcs
<1>1. TypeOK /\ BornInOrder
  BY DEF TypeInv
<1>2. /\ NoBirth
      /\ daemon' \in [Daemon -> DaemonPcs]
  <2>1. \E pc \in DaemonPcs : pc # "unborn" /\ To(d, pc)
    BY DEF DaemonStep, AcquireSingleton, ProbeSocket, UnlinkStale, Bind, Listen, Unlink,
           Release, Exit, Stop, Kill
  <2>2. daemon[d] # "unborn"
    BY DEF DaemonStep, AcquireSingleton, ProbeSocket, UnlinkStale, Bind, Listen, Unlink,
           Release, Exit, Stop, Kill, Listening
  <2>3. QED
    BY <1>1, <2>1, <2>2, ToType
<1>3. /\ lock' \in {None} \cup Daemon
      /\ socket' \in [owner : {None} \cup Daemon, private : BOOLEAN]
      /\ startLock' \in {NoClient} \cup Client
      /\ client' \in [Client -> Calling]
      /\ store' \in Store
      /\ calls' \in 0 .. MaxCalls
      /\ disturbed' \in BOOLEAN
  <2>1. /\ lock' \in {lock, None, d}
        /\ \/ socket' \in {socket, NoSocket, [socket EXCEPT !.private = TRUE]}
           \/ \E private \in BOOLEAN : socket' = [owner |-> d, private |-> private]
        /\ UNCHANGED <<startLock, client, store, calls>>
        /\ disturbed' \in {disturbed, TRUE}
    <3>1. CASE AcquireSingleton(d)
      BY <3>1 DEF AcquireSingleton, bounds
    <3>2. CASE ProbeSocket(d)
      BY <3>2 DEF ProbeSocket, bounds
    <3>3. CASE UnlinkStale(d) \/ Bind(d) \/ Listen(d) \/ Unlink(d)
      BY <3>3 DEF UnlinkStale, Bind, Listen, Unlink, bounds
    <3>4. CASE Release(d) \/ Exit(d) \/ Stop(d)
      BY <3>4 DEF Release, Exit, Stop, files, bounds
    <3>5. CASE Kill(d)
      BY <3>5 DEF Kill
    <3>6. QED
      BY <3>1, <3>2, <3>3, <3>4, <3>5 DEF DaemonStep
  <2>2. NoSocket \in [owner : {None} \cup Daemon, private : BOOLEAN]
    BY DEF NoSocket
  <2>3. QED
    <3>1. /\ lock \in {None} \cup Daemon
          /\ socket \in [owner : {None} \cup Daemon, private : BOOLEAN]
          /\ disturbed \in BOOLEAN
          /\ startLock \in {NoClient} \cup Client
          /\ client \in [Client -> Calling]
          /\ store \in Store
          /\ calls \in 0 .. MaxCalls
      BY <1>1 DEF TypeOK
    <3>2. socket' \in [owner : {None} \cup Daemon, private : BOOLEAN]
      <4>1. [socket EXCEPT !.private = TRUE]
              \in [owner : {None} \cup Daemon, private : BOOLEAN]
        BY <3>1
      <4>2. \A private \in BOOLEAN : [owner |-> d, private |-> private]
              \in [owner : {None} \cup Daemon, private : BOOLEAN]
        OBVIOUS
      <4>3. QED
        BY <2>1, <2>2, <3>1, <4>1, <4>2
    <3>3. QED
      BY <2>1, <3>1, <3>2
<1>4. faults' \in 0 .. MaxFaults
  BY <1>1, BoundsAssumption
  DEF TypeOK, DaemonStep, AcquireSingleton, ProbeSocket, UnlinkStale, Bind,
      Listen, Unlink, Release, Exit, Stop, Kill, bounds
<1>5. thread' \in [Daemon -> [Client -> Threads]]
  <2>1. [c \in Client |-> NoThread] \in [Client -> Threads]
    BY RequestTypes DEF Threads
  <2>2. QED
    BY <1>1, <2>1
    DEF TypeOK, Threads, DaemonStep, AcquireSingleton, ProbeSocket, UnlinkStale, Bind,
        Listen, Unlink, Release, Exit, Stop, Kill
<1>6. QED
  BY <1>1, <1>2, <1>3, <1>4, <1>5, NoBirthInOrder DEF TypeInv, TypeOK, Threads

\* The calls of a client that start nothing.
LEMMA ClientType ==
  ASSUME TypeInv, NEW c \in Client,
         \/ Begin(c) \/ BeginRestart(c) \/ Connect(c) \/ TakeStartLock(c)
         \/ Await(c) \/ Retry(c) \/ Check(c) \/ Lost(c) \/ Timeout(c)
  PROVE  TypeInv'
<1>1. TypeOK /\ BornInOrder
  BY DEF TypeInv
<1>2. /\ UNCHANGED <<lock, socket, daemon, store, faults>>
      /\ \/ calls' = calls
         \/ calls < MaxCalls /\ calls' = calls + 1
  <2>1. CASE Begin(c)
    BY <2>1 DEF Begin, files
  <2>2. CASE BeginRestart(c)
    BY <2>2 DEF BeginRestart, files
  <2>3. CASE Connect(c)
    BY <2>3 DEF Connect, bounds
  <2>4. CASE TakeStartLock(c) \/ Await(c) \/ Retry(c)
    BY <2>4 DEF TakeStartLock, Await, Retry, bounds
  <2>5. CASE Check(c)
    BY <2>5 DEF Check, files, bounds
  <2>6. CASE Lost(c)
    BY <2>6 DEF Lost, files, bounds
  <2>7. CASE Timeout(c)
    BY <2>7 DEF Timeout, bounds
  <2>8. QED
    BY <2>1, <2>2, <2>3, <2>4, <2>5, <2>6, <2>7
<1>3. calls' \in 0 .. MaxCalls
  BY <1>1, <1>2, BoundsAssumption DEF TypeOK
<1>4. /\ client' \in [Client -> Calling]
      /\ thread' \in [Daemon -> [Client -> Threads]]
      /\ startLock' \in {NoClient} \cup Client
      /\ disturbed' \in BOOLEAN
  <2> USE <1>1
  <2>0. /\ client \in [Client -> Calling]
        /\ thread \in [Daemon -> [Client -> Threads]]
        /\ startLock \in {NoClient} \cup Client
        /\ disturbed \in BOOLEAN
        /\ {"connect", "startlock", "probe", "await", "retry", "sent", "checksent"}
             \subseteq ClientPcs
        /\ None \in {None} \cup Daemon
    BY DEF TypeOK, Threads, ClientPcs
  <2>1. CASE Begin(c)
    <3>1. PICK op \in {"launch", "stop", "forget"}, key \in Key :
            client' = [client EXCEPT ![c] =
              [Idle EXCEPT !.pc = "connect",
                           !.request = [op |-> op, key |-> key,
                                        generation |-> IF op = "launch" THEN 0
                                                       ELSE store.generation]]]
      BY <2>1 DEF Begin
    <3>2. [op |-> op, key |-> key,
           generation |-> IF op = "launch" THEN 0 ELSE store.generation] \in Request
      BY DEF Request, Ops, TypeOK, Store
    <3>3. client' \in [Client -> Calling]
      BY <3>1, <3>2, RequestTypes DEF Calling, TypeOK
    <3>4. QED
      BY <2>0, <2>1, <3>3 DEF Begin, TypeOK, files
  <2>2. CASE BeginRestart(c)
    <3>1. CASE Connectable
      <4>1. socket.owner \in Daemon
        BY <3>1 DEF Connectable, TypeOK
      <4>2. [Idle EXCEPT !.pc = "quiet", !.restart = TRUE,
                         !.conn = socket.owner, !.old = socket.owner] \in Calling
        BY <4>1, RequestTypes DEF Calling
      <4>3. QED
        BY <2>2, <3>1, <4>1, <4>2, RequestTypes, ServeType DEF BeginRestart, TypeOK, files
    <3>2. CASE ~Connectable
      <4>1. [Idle EXCEPT !.pc = "connect", !.restart = TRUE] \in Calling
        BY RequestTypes DEF Calling
      <4>2. QED
        BY <2>0, <2>2, <3>2, <4>1 DEF BeginRestart, TypeOK, files
    <3>3. QED
      BY <3>1, <3>2
  <2>3. CASE Connect(c)
    BY <2>0, <2>3, SendType, RaiseType, GotoType DEF Connect, Goto
  <2>4. CASE TakeStartLock(c)
    BY <2>0, <2>4, GotoType DEF TakeStartLock, Goto
  <2>5. CASE Await(c)
    <3>1. CASE \E why \in {"unsafe", "exited"} : Raise(c, why)
      BY <2>0, <2>5, <3>1, RaiseType DEF Await
    <3>2. CASE /\ startLock' = NoClient
               /\ client' = [client EXCEPT ![c].pc = "retry", ![c].child = None]
               /\ UNCHANGED disturbed
      <4>1. client' \in [Client -> Calling]
        BY <2>0, <3>2, GotoConnType
      <4>2. QED
        BY <2>0, <2>5, <3>2, <4>1 DEF Await
    <3>3. QED
      BY <2>5, <3>1, <3>2 DEF Await
  <2>6. CASE Retry(c)
    BY <2>0, <2>6, SendType, RaiseType DEF Retry
  <2>7. CASE Check(c)
    <3>1. CASE Connectable
      <4>1. socket.owner \in Daemon
        BY <3>1 DEF Connectable, TypeOK
      <4>2. QED
        <5>1. thread' \in [Daemon -> [Client -> Threads]]
          BY <2>7, <3>1, <4>1, RequestTypes, ServeType DEF Check
        <5>2. client' \in [Client -> Calling]
          <6>1. client' = [client EXCEPT ![c].pc = "checksent",
                                         ![c].conn = socket.owner]
            BY <2>7, <3>1 DEF Check
          <6>2. QED
            BY <4>1, <6>1, GotoConnType DEF ClientPcs
        <5>3. QED
          BY <2>0, <2>7, <5>1, <5>2 DEF Check, files
    <3>2. CASE ~Connectable
      BY <2>0, <2>7, <3>2, GotoType DEF Check, Goto, files
    <3>3. QED
      BY <3>1, <3>2
  <2>8. CASE Lost(c)
    <3>1. [Idle EXCEPT !.result = "failed"] \in Calling
      BY RequestTypes DEF Calling
    <3>2. [client[c] EXCEPT !.pc = "connect", !.conn = None,
             !.old = IF client[c].pc = "quiet" THEN None ELSE client[c].old] \in Calling
      <4>1. client[c] \in Calling
        BY DEF TypeOK
      <4>2. QED
        BY <4>1 DEF Calling
    <3>3. QED
      BY <2>0, <2>8, <3>1, <3>2 DEF Lost, files
  <2>9. CASE Timeout(c)
    <3>1. [Idle EXCEPT !.result = "failed"] \in Calling
      BY RequestTypes DEF Calling
    <3>2. QED
      BY <2>0, <2>9, <3>1, RaiseType DEF Timeout
  <2>10. QED
    BY <2>1, <2>2, <2>3, <2>4, <2>5, <2>6, <2>7, <2>8, <2>9
<1>5. QED
  BY <1>1, <1>2, <1>3, <1>4 DEF TypeInv, TypeOK, Threads, BornInOrder

LEMMA ProbeType ==
  ASSUME TypeInv, NEW c \in Client, Probe(c)
  PROVE  TypeInv'
<1>1. TypeOK /\ BornInOrder
  BY DEF TypeInv
<1>2. UNCHANGED <<lock, socket, thread, store, calls, faults>>
  BY DEF Probe, bounds
<1>3. CASE Refused /\ Unborn # {} /\ Popen(c)
  <2> DEFINE d == FirstUnborn
  <2>1. /\ To(d, "born")
        /\ client' = [client EXCEPT ![c].pc = "await", ![c].child = d]
        /\ UNCHANGED <<startLock, disturbed>>
    BY <1>3 DEF Popen, FirstUnborn
  <2>2. d \in Daemon /\ daemon[d] = "unborn"
    BY <1>3, NextUnborn
  <2>3. /\ daemon' \in [Daemon -> DaemonPcs]
        /\ daemon'[d] = "born"
        /\ \A e \in Daemon : e # d => daemon'[e] = daemon[e]
    BY <1>1, <2>1, <2>2, ToType DEF DaemonPcs
  <2>4. client' \in [Client -> Calling]
    BY <1>1, <2>1, <2>2, GotoConnType DEF ClientPcs
  <2>5. \A e \in Daemon : daemon[e] = "unborn" <=> d <= e
    BY <1>3, NextUnborn
  <2>6. \A e \in Daemon : daemon'[e] = "unborn" <=> d < e
    BY <2>2, <2>3, <2>5, DaemonNumbers
  <2>7. BornInOrder'
    BY <2>2, <2>6, BoundsAssumption DEF BornInOrder, Daemon
  <2>8. QED
    BY <1>1, <1>2, <2>1, <2>3, <2>4, <2>7 DEF TypeInv, TypeOK
<1>4. CASE UNCHANGED daemon
  <2>1. \/ \E why \in {"unsafe", "timeout"} : Raise(c, why)
        \/ startLock' = NoClient /\ Goto(c, "retry") /\ UNCHANGED disturbed
        \/ Refused /\ Unborn # {} /\ Popen(c)
    BY DEF Probe, Popen
  <2>2. CASE \E why \in {"unsafe", "timeout"} : Raise(c, why)
    <3>1. /\ client' \in [Client -> Calling]
          /\ startLock' \in {NoClient} \cup Client
          /\ disturbed' \in BOOLEAN
      BY <1>1, <2>2, RaiseType
    <3>2. QED
      BY <1>1, <1>2, <1>4, <3>1 DEF TypeInv, TypeOK, BornInOrder
  <2>3. CASE startLock' = NoClient /\ Goto(c, "retry") /\ UNCHANGED disturbed
    <3>1. client' \in [Client -> Calling]
      BY <1>1, <2>3, GotoType DEF Goto, ClientPcs
    <3>2. QED
      BY <1>1, <1>2, <1>4, <2>3, <3>1 DEF TypeInv, TypeOK, BornInOrder
  <2>4. QED
    BY <1>3, <2>1, <2>2, <2>3
<1>5. QED
  BY <1>3, <1>4 DEF Probe, Popen, Raise

\* A request has the key of its operation, and only a stop or a forget comes to
\* remembering its result.
KeyMatches(request) ==
  /\ request.op = "launch" => request.key = "launch"
  /\ request.op = "stop" => request.key = "stop"
  /\ request.op = "forget" => request.key \in Job \cup {"forget"}

KeysMatch ==
  /\ \A c \in Client : KeyMatches(client[c].request)
  /\ \A d \in Daemon, c \in Client :
       /\ KeyMatches(thread[d][c].request)
       /\ thread[d][c].pc = "remember" => thread[d][c].request.op \in Destructive

LEMMA ThreadStepType ==
  ASSUME TypeInv, KeysMatch, NEW d \in Daemon, NEW c \in Client, ThreadStep(d, c)
  PROVE  TypeInv'
<1> DEFINE request == RequestOf(d, c)
<1>1. TypeOK /\ BornInOrder
  BY DEF TypeInv
<1>2. /\ request \in Request
      /\ store \in Store
      /\ client \in [Client -> Calling]
      /\ thread \in [Daemon -> [Client -> Threads]]
      /\ daemon \in [Daemon -> DaemonPcs]
  BY <1>1 DEF TypeOK, RequestOf, Threads
<1>3. UNCHANGED <<lock, socket, startLock, calls, faults, disturbed>>
  BY DEF ThreadStep, Dispatch, Launch, StopJob, ForgetOne, ForgetEntity, RememberResult,
         Answer, files, bounds
<1>4. thread' \in [Daemon -> [Client -> Threads]]
  <2>1. \/ UNCHANGED thread
        \/ \E pc \in ThreadPcs : Thread(d, c, pc)
        \/ thread' = [thread EXCEPT ![d][c] = NoThread]
    BY DEF ThreadStep, Dispatch, Launch, StopJob, ForgetOne, ForgetEntity, RememberResult,
           Answer, LookedUp, ThreadPcs
  <2>2. NoThread \in Threads
    BY RequestTypes DEF Threads
  <2>3. CASE UNCHANGED thread
    BY <1>2, <2>3
  <2>4. CASE \E pc \in ThreadPcs : Thread(d, c, pc)
    BY <1>1, <2>4, ThreadPcType DEF Thread
  <2>5. CASE thread' = [thread EXCEPT ![d][c] = NoThread]
    BY <1>1, <2>2, <2>5, ThreadType
  <2>6. QED
    BY <2>1, <2>3, <2>4, <2>5
<1>5. store' \in Store
  <2>1. CASE UNCHANGED store
    BY <1>2, <2>1
  <2>2. CASE Launch(d, c)
    BY <1>2, <2>2, CreateLaunchStep DEF Launch
  <2>3. CASE StopJob(d, c)
    BY <1>2, <2>3, UpdateJobStep DEF StopJob, Here
  <2>4. CASE ForgetOne(d, c)
    <3>1. \/ store' = store
          \/ /\ request.key \in Job /\ store.job[request.key] = "ended"
             /\ store' = ForgetJob(store, request.key)
      BY <2>4 DEF ForgetOne, Here
    <3>2. QED
      BY <1>2, <3>1, ForgetJobStep
  <2>41. CASE ForgetEntity(d, c)
    BY <1>2, <2>41, ForgetGroupStep DEF ForgetEntity
  <2>5. CASE RememberResult(d, c)
    <3>1. request.key \in Key
      BY <2>5 DEF RememberResult, KeysMatch, KeyMatches, RequestOf, Destructive, Key
    <3>2. QED
      BY <1>2, <2>5, <3>1, RememberStep DEF RememberResult
  <2>6. QED
    BY <2>1, <2>2, <2>3, <2>4, <2>41, <2>5 DEF ThreadStep, Dispatch, Answer
<1>6. daemon' \in [Daemon -> DaemonPcs] /\ NoBirth
  BY <1>1, <1>2, ToType
  DEF ThreadStep, Dispatch, Launch, StopJob, ForgetOne, ForgetEntity, RememberResult, Answer,
      DaemonPcs, NoBirth
<1>7. client' \in [Client -> Calling]
  <2>1. [client[c] EXCEPT !.pc = "idle", !.result = "ok"] \in Calling
    <3>1. client[c] \in Calling
      BY <1>2
    <3>2. QED
      BY <3>1 DEF Calling
  <2>2. [Idle EXCEPT !.result = "failed"] \in Calling
    BY RequestTypes DEF Calling
  <2>3. [client EXCEPT ![c].pc = "check", ![c].conn = None] \in [Client -> Calling]
    BY <1>1, GotoConnType DEF ClientPcs
  <2>4. \/ UNCHANGED client
        \/ client' = [client EXCEPT ![c] = [client[c] EXCEPT !.pc = "idle",
                                                            !.result = "ok"]]
        \/ client' = [client EXCEPT ![c] = [Idle EXCEPT !.result = "failed"]]
        \/ client' = [client EXCEPT ![c].pc = "check", ![c].conn = None]
    BY DEF ThreadStep, Dispatch, Launch, StopJob, ForgetOne, ForgetEntity, RememberResult,
           Answer
  <2>5. QED
    BY <1>2, <2>1, <2>2, <2>3, <2>4
<1>8. QED
  BY <1>1, <1>3, <1>4, <1>5, <1>6, <1>7, NoBirthInOrder DEF TypeInv, TypeOK, Threads

LEMMA TypeInit == Init => TypeInv
<1> SUFFICES ASSUME Init
             PROVE  TypeInv
  OBVIOUS
<1>1. EmptyStore \in Store
  BY DEF EmptyStore, Store
<1>2. TypeOK
  <2>1. [c \in Client |-> NoThread] \in [Client -> Threads]
    BY RequestTypes DEF Threads
  <2>2. /\ thread \in [Daemon -> [Client -> Threads]]
        /\ client \in [Client -> Calling]
        /\ store \in Store
    BY <1>1, <2>1, RequestTypes DEF Init
  <2>3. /\ lock \in {None} \cup Daemon
        /\ socket \in [owner : {None} \cup Daemon, private : BOOLEAN]
        /\ daemon \in [Daemon -> DaemonPcs]
        /\ startLock \in {NoClient} \cup Client
        /\ disturbed \in BOOLEAN
    BY DEF Init, NoSocket, DaemonPcs
  <2>4. calls \in 0 .. MaxCalls /\ faults \in 0 .. MaxFaults
    BY BoundsAssumption DEF Init
  <2>5. QED
    BY <2>2, <2>3, <2>4 DEF TypeOK, Threads
<1>3. BornInOrder
  BY BoundsAssumption DEF Init, BornInOrder, Daemon
<1>4. QED
  BY <1>2, <1>3 DEF TypeInv

-----------------------------------------------------------------------------
(* Who moves: of what concerns a client, only the client itself, the       *)
(* threads that serve it, and a daemon that is gone with its threads.      *)

ClientAction(c) == Begin(c) \/ BeginRestart(c) \/ ClientStep(c) \/ Timeout(c)

Left(c) ==
  /\ client'[c] = client[c]
  /\ \A d \in Daemon : thread'[d][c] \in {thread[d][c], NoThread}

LEMMA ClientOwnMoves ==
  ASSUME TypeInv, NEW c \in Client, ClientAction(c)
  PROVE  /\ \A b \in Client : b # c => client'[b] = client[b]
         /\ \/ UNCHANGED thread
            \/ Connectable /\ Serve(socket.owner, c, client[c].request)
            \/ Connectable /\ Serve(socket.owner, c, NoRequest)
            \/ Connectable /\ Serve(socket.owner, c, [NoRequest EXCEPT !.op = "shutdown"])
         /\ UNCHANGED store
<1>1. client \in [Client -> Calling]
  BY DEF TypeInv, TypeOK
<1>2. CASE Begin(c) \/ BeginRestart(c)
  BY <1>1, <1>2 DEF Begin, BeginRestart
<1>3. CASE Connect(c)
  BY <1>1, <1>3 DEF Connect, Send, Raise, Goto
<1>4. CASE TakeStartLock(c) \/ Await(c)
  BY <1>1, <1>4 DEF TakeStartLock, Await, Raise, Goto
<1>5. CASE Probe(c)
  BY <1>1, <1>5 DEF Probe, Popen, Raise, Goto
<1>6. CASE Retry(c)
  BY <1>1, <1>6 DEF Retry, Send, Raise
<1>7. CASE Check(c)
  BY <1>1, <1>7 DEF Check, Goto
<1>8. CASE Lost(c)
  BY <1>1, <1>8 DEF Lost
<1>9. CASE Timeout(c)
  BY <1>1, <1>9 DEF Timeout, Raise
<1>10. QED
  BY <1>2, <1>3, <1>4, <1>5, <1>6, <1>7, <1>8, <1>9 DEF ClientAction, ClientStep

LEMMA ServeFields ==
  ASSUME TypeInv, NEW d \in Daemon, NEW c \in Client, NEW request \in Request,
         Serve(d, c, request)
  PROVE  /\ thread'[d][c] = [pc |-> "accepted", request |-> request]
         /\ \A e \in Daemon, b \in Client : e # d \/ b # c => thread'[e][b] = thread[e][b]
BY DEF TypeInv, TypeOK, Serve

LEMMA ThreadFields ==
  ASSUME TypeInv, NEW d \in Daemon, NEW c \in Client, NEW pc, Thread(d, c, pc)
  PROVE  /\ thread'[d][c].pc = pc
         /\ thread'[d][c].request = thread[d][c].request
         /\ \A e \in Daemon, b \in Client : e # d \/ b # c => thread'[e][b] = thread[e][b]
BY DEF TypeInv, TypeOK, Thread

LEMMA OffFields ==
  ASSUME TypeInv, NEW d \in Daemon, NEW c \in Client,
         thread' = [thread EXCEPT ![d][c] = NoThread]
  PROVE  /\ thread'[d][c] = NoThread
         /\ \A e \in Daemon, b \in Client : e # d \/ b # c => thread'[e][b] = thread[e][b]
BY DEF TypeInv, TypeOK

LEMMA ThreadOwnMoves ==
  ASSUME TypeInv, NEW d \in Daemon, NEW c \in Client, ThreadStep(d, c)
  PROVE  /\ \A b \in Client : b # c => client'[b] = client[b]
         /\ \A e \in Daemon, b \in Client : e # d \/ b # c => thread'[e][b] = thread[e][b]
         /\ ~Answer(d, c) => UNCHANGED <<client, daemon>>
<1>1. client \in [Client -> Calling]
  BY DEF TypeInv, TypeOK
<1>2. \/ UNCHANGED thread
      \/ \E pc \in ThreadPcs : Thread(d, c, pc)
      \/ thread' = [thread EXCEPT ![d][c] = NoThread]
  BY DEF ThreadStep, Dispatch, Launch, StopJob, ForgetOne, ForgetEntity, RememberResult, Answer,
         LookedUp, ThreadPcs
<1>3. \A e \in Daemon, b \in Client : e # d \/ b # c => thread'[e][b] = thread[e][b]
  BY <1>2, ThreadFields, OffFields
<1>4. \A b \in Client : b # c => client'[b] = client[b]
  BY <1>1 DEF ThreadStep, Dispatch, Launch, StopJob, ForgetOne, ForgetEntity, RememberResult,
              Answer
<1>5. ~Answer(d, c) => UNCHANGED <<client, daemon>>
  BY DEF ThreadStep, Dispatch, Launch, StopJob, ForgetOne, ForgetEntity, RememberResult
<1>6. QED
  BY <1>3, <1>4, <1>5

LEMMA DaemonLeaves ==
  ASSUME TypeInv, NEW d \in Daemon, DaemonStep(d) \/ Stop(d) \/ Kill(d)
  PROVE  /\ UNCHANGED <<client, store>>
         /\ \A e \in Daemon, c \in Client : thread'[e][c] \in {thread[e][c], NoThread}
<1>1. CASE AcquireSingleton(d) \/ ProbeSocket(d) \/ UnlinkStale(d) \/ Bind(d) \/ Listen(d)
  BY <1>1 DEF AcquireSingleton, ProbeSocket, UnlinkStale, Bind, Listen
<1>2. CASE Unlink(d) \/ Release(d) \/ Stop(d)
  BY <1>2 DEF Unlink, Release, Stop
<1>3. CASE Exit(d) \/ Kill(d)
  <2>1. thread \in [Daemon -> [Client -> Threads]]
    BY DEF TypeInv, TypeOK, Threads
  <2>2. /\ thread' = [thread EXCEPT ![d] = [c \in Client |-> NoThread]]
        /\ UNCHANGED <<client, store>>
    BY <1>3 DEF Exit, Kill
  <2>3. QED
    BY <2>1, <2>2
<1>4. QED
  BY <1>1, <1>2, <1>3 DEF DaemonStep

LEMMA Moves ==
  ASSUME TypeInv, [Next]_vars, NEW c \in Client
  PROVE  \/ Left(c)
         \/ ClientAction(c)
         \/ \E d \in Daemon : ThreadStep(d, c)
<1>1. ASSUME NEW b \in Client, ClientAction(b), b # c
      PROVE  Left(c)
  <2>1. Connectable => socket.owner \in Daemon
    BY DEF Connectable, TypeInv, TypeOK
  <2>2. client'[c] = client[c]
    BY <1>1, ClientOwnMoves
  <2>3. \/ UNCHANGED thread
        \/ Connectable /\ \E request \in Request : Serve(socket.owner, b, request)
    <3>1. client[b].request \in Request
      BY <1>1 DEF TypeInv, TypeOK, Calling
    <3>2. QED
      BY <1>1, <3>1, RequestTypes, ClientOwnMoves
  <2>4. \A d \in Daemon : thread'[d][c] = thread[d][c]
    <3>1. ASSUME NEW e \in Daemon, NEW request \in Request, Serve(e, b, request)
          PROVE  \A d \in Daemon : thread'[d][c] = thread[d][c]
      <4>1. b \in Client /\ c # b
        BY <1>1
      <4>2. TypeInv /\ Serve(e, b, request)
        BY <3>1
      <4>3. \A d \in Daemon, a \in Client : d # e \/ a # b => thread'[d][a] = thread[d][a]
        BY <4>1, <4>2, ServeFields
      <4>4. QED
        BY <4>1, <4>3
    <3>2. QED
      BY <2>1, <2>3, <3>1
  <2>5. QED
    BY <2>2, <2>4 DEF Left
<1>2. ASSUME NEW d \in Daemon, NEW b \in Client, ThreadStep(d, b), b # c
      PROVE  Left(c)
  BY <1>2, ThreadOwnMoves DEF Left
<1>3. ASSUME NEW d \in Daemon, DaemonStep(d) \/ Stop(d) \/ Kill(d)
      PROVE  Left(c)
  BY <1>3, DaemonLeaves DEF Left
<1>4. ASSUME NEW j \in Job, JobEnds(j)
      PROVE  Left(c)
  BY <1>4 DEF JobEnds, Left
<1>5. CASE UNCHANGED vars
  BY <1>5 DEF vars, Left
<1>6. QED
  BY <1>1, <1>2, <1>3, <1>4, <1>5 DEF Next, ClientAction

\* What becomes of the request of a client: it stays, is reset, or is a new one.
LEMMA RequestMoves ==
  ASSUME TypeInv, [Next]_vars, NEW c \in Client
  PROVE  \/ client'[c].request = client[c].request
         \/ client'[c].request = NoRequest
         \/ /\ KeyMatches(client'[c].request)
            /\ client'[c].request.generation <= store.generation
<1>0. client \in [Client -> Calling] /\ store.generation \in Nat
  BY DEF TypeInv, TypeOK, Store
<1>1. CASE Left(c)
  BY <1>1 DEF Left
<1>2. CASE Begin(c)
  <2>1. PICK op \in {"launch", "stop", "forget"}, key \in Key :
          /\ key = op \/ (op = "forget" /\ key \in Job)
          /\ client' = [client EXCEPT ![c] =
               [Idle EXCEPT !.pc = "connect",
                            !.request = [op |-> op, key |-> key,
                                         generation |-> IF op = "launch" THEN 0
                                                        ELSE store.generation]]]
    BY <1>2 DEF Begin
  <2>2. client'[c].request = [op |-> op, key |-> key,
                              generation |-> IF op = "launch" THEN 0
                                             ELSE store.generation]
    BY <1>0, <2>1 DEF Idle
  <2>3. QED
    BY <1>0, <2>1, <2>2 DEF KeyMatches
<1>3. CASE BeginRestart(c)
  BY <1>0, <1>3 DEF BeginRestart, Idle
<1>4. ASSUME NEW why, Raise(c, why)
      PROVE  client'[c].request = NoRequest
  <2>1. \/ client'[c] = [Idle EXCEPT !.pc = "connect", !.restart = TRUE,
                                    !.old = client[c].old]
        \/ client'[c] = [Idle EXCEPT !.result = IF why = "exited" THEN why ELSE "failed"]
    BY <1>0, <1>4 DEF Raise
  <2>2. QED
    BY <2>1 DEF Idle
<1>5. CASE Connect(c) \/ Retry(c)
  BY <1>0, <1>4, <1>5 DEF Connect, Retry, Send, Goto, Calling
<1>6. CASE TakeStartLock(c) \/ Await(c) \/ Check(c)
  BY <1>0, <1>4, <1>6 DEF TakeStartLock, Await, Check, Goto, Calling
<1>7. CASE Probe(c)
  BY <1>0, <1>4, <1>7 DEF Probe, Popen, Goto, Calling
<1>8. CASE Lost(c) \/ Timeout(c)
  BY <1>0, <1>4, <1>8 DEF Lost, Timeout, Idle, Calling
<1>9. ASSUME NEW d \in Daemon, ThreadStep(d, c)
      PROVE  client'[c].request \in {client[c].request, NoRequest}
  <2>1. CASE Answer(d, c)
    <3>1. \/ client'[c] = client[c]
          \/ client'[c] = [client[c] EXCEPT !.pc = "idle", !.result = "ok"]
          \/ client'[c] = [Idle EXCEPT !.result = "failed"]
          \/ client' = [client EXCEPT ![c].pc = "check", ![c].conn = None]
      BY <1>0, <2>1 DEF Answer
    <3>2. QED
      BY <1>0, <3>1 DEF Idle, Calling
  <2>2. QED
    BY <1>9, <2>1, ThreadOwnMoves
<1>10. QED
  BY <1>1, <1>2, <1>3, <1>5, <1>6, <1>7, <1>8, <1>9, Moves DEF ClientAction, ClientStep

\* What becomes of a thread.
LEMMA ThreadMoves ==
  ASSUME TypeInv, [Next]_vars, NEW d \in Daemon, NEW c \in Client
  PROVE  \/ thread'[d][c] \in {thread[d][c], NoThread}
         \/ /\ thread'[d][c].pc = "accepted"
            /\ thread'[d][c].request \in {client[c].request, NoRequest,
                                         [NoRequest EXCEPT !.op = "shutdown"]}
         \/ /\ thread'[d][c].request = thread[d][c].request
            /\ ThreadStep(d, c)
<1>1. CASE Left(c)
  BY <1>1 DEF Left
<1>2. CASE ClientAction(c)
  <2>1. Connectable => socket.owner \in Daemon
    BY DEF Connectable, TypeInv, TypeOK
  <2>2. ASSUME NEW request \in {client[c].request, NoRequest,
                                [NoRequest EXCEPT !.op = "shutdown"]},
               Connectable, Serve(socket.owner, c, request)
        PROVE  \/ thread'[d][c] = thread[d][c]
               \/ thread'[d][c] = [pc |-> "accepted", request |-> request]
    <3>1. request \in Request
      <4>1. client[c].request \in Request
        BY DEF TypeInv, TypeOK, Calling
      <4>2. QED
        BY <4>1, RequestTypes
    <3>2. QED
      BY <2>1, <2>2, <3>1, ServeFields
  <2>3. QED
    BY <1>2, <2>2, ClientOwnMoves
<1>3. ASSUME NEW e \in Daemon, ThreadStep(e, c)
      PROVE  \/ thread'[d][c] \in {thread[d][c], NoThread}
             \/ e = d /\ thread'[d][c].request = thread[d][c].request
  <2>1. \/ UNCHANGED thread
        \/ \E pc \in ThreadPcs : Thread(e, c, pc)
        \/ thread' = [thread EXCEPT ![e][c] = NoThread]
    BY <1>3 DEF ThreadStep, Dispatch, Launch, StopJob, ForgetOne, ForgetEntity, RememberResult,
                Answer, LookedUp, ThreadPcs
  <2>2. QED
    BY <2>1, ThreadFields, OffFields
<1>4. QED
  BY <1>1, <1>2, <1>3, Moves

LEMMA KeysNext ==
  ASSUME TypeInv, KeysMatch, [Next]_vars
  PROVE  KeysMatch'
<1>1. /\ KeyMatches(NoRequest)
      /\ KeyMatches([NoRequest EXCEPT !.op = "shutdown"])
      /\ NoThread.request = NoRequest /\ NoThread.pc = "off"
  BY DEF KeyMatches, NoRequest, NoThread
<1>2. ASSUME NEW c \in Client
      PROVE  KeyMatches(client'[c].request)
  BY <1>1, RequestMoves DEF KeysMatch
<1>3. ASSUME NEW d \in Daemon, NEW c \in Client
      PROVE  KeyMatches(thread'[d][c].request)
  BY <1>1, ThreadMoves DEF KeysMatch
<1>4. ASSUME NEW d \in Daemon, NEW c \in Client, thread'[d][c].pc = "remember"
      PROVE  thread'[d][c].request.op \in Destructive
  <2>1. CASE thread'[d][c] = thread[d][c]
    BY <1>4, <2>1 DEF KeysMatch
  <2>2. CASE ThreadStep(d, c) /\ thread'[d][c].request = thread[d][c].request
    <3>1. \/ StopJob(d, c) \/ ForgetOne(d, c) \/ ForgetEntity(d, c)
          \/ UNCHANGED thread \/ thread'[d][c].pc # "remember"
      BY <2>2, <1>1, ThreadFields, OffFields
      DEF ThreadStep, Dispatch, Launch, RememberResult, Answer, LookedUp
    <3>2. QED
      BY <1>4, <2>1, <2>2, <3>1 DEF StopJob, ForgetOne, ForgetEntity, RequestOf, Destructive
  <2>3. QED
    BY <1>1, <1>4, <2>1, <2>2, ThreadMoves
<1>5. QED
  BY <1>2, <1>3, <1>4 DEF KeysMatch, KeyMatches

LEMMA KeysInit == Init => KeysMatch
<1>1. KeyMatches(NoRequest) /\ NoThread.request = NoRequest /\ NoThread.pc # "remember"
  BY DEF KeyMatches, NoRequest, NoThread
<1>2. Idle.request = NoRequest
  BY DEF Idle
<1>3. QED
  BY <1>1, <1>2 DEF Init, KeysMatch

LEMMA TypeNext == TypeInv /\ KeysMatch /\ [Next]_vars => TypeInv'
<1> SUFFICES ASSUME TypeInv, KeysMatch, [Next]_vars
             PROVE  TypeInv'
  OBVIOUS
<1>1. ASSUME NEW j \in Job, JobEnds(j)
      PROVE  TypeInv'
  <2>1. store' \in Store
    BY <1>1, UpdateJobStep DEF JobEnds, TypeInv, TypeOK
  <2>2. QED
    BY <1>1, <2>1 DEF JobEnds, TypeInv, TypeOK, BornInOrder, files, bounds
<1>2. CASE UNCHANGED vars
  BY <1>2 DEF vars, files, bounds, TypeInv, TypeOK, BornInOrder
<1>3. QED
  BY <1>1, <1>2, DaemonType, ClientType, ProbeType, ThreadStepType
  DEF Next, ClientStep

\* Type correctness.
THEOREM TypeCorrect == Spec => []TypeOK
<1>1. TypeInv => TypeOK
  BY DEF TypeInv
<1>2. QED
  BY <1>1, TypeInit, TypeNext, KeysInit, KeysNext, PTL DEF Spec

-----------------------------------------------------------------------------
(* The daemons.  Whoever is past the lock holds it until its release, and  *)
(* only the holder touches the path of the socket; so neither a daemon     *)
(* that lost the race nor one that dies takes the path from the one that   *)
(* serves.                                                                 *)

Bound == {"bound", "serving", "told", "closing"}
Holding == {"locked", "stale", "clear", "unlinked"} \cup Bound

DaemonInv ==
  \A d \in Daemon :
    /\ daemon[d] \in Holding <=> lock = d
    /\ daemon[d] \in Bound => socket.owner = d
    /\ daemon[d] \in Bound \ {"bound"} => socket.private

\* Apart from its own steps, a daemon is started and told to stop.
LEMMA FilesMove ==
  ASSUME TypeInv, [Next]_vars
  PROVE  \/ \E d \in Daemon : DaemonStep(d) \/ Stop(d) \/ Kill(d)
         \/ /\ UNCHANGED <<lock, socket>>
            /\ \E d \in Daemon :
                 \/ daemon[d] = "unborn" /\ To(d, "born")
                 \/ daemon[d] = "serving" /\ To(d, "told")
         \/ UNCHANGED <<lock, socket, daemon>>
<1>1. ASSUME NEW c \in Client, Begin(c) \/ BeginRestart(c) \/ Timeout(c)
      PROVE  UNCHANGED <<lock, socket, daemon>>
  BY <1>1 DEF Begin, BeginRestart, Timeout, files
<1>2. ASSUME NEW c \in Client, Probe(c)
      PROVE  \/ UNCHANGED <<lock, socket, daemon>>
             \/ /\ UNCHANGED <<lock, socket>>
                /\ \E d \in Daemon : daemon[d] = "unborn" /\ To(d, "born")
  <2>1. \/ UNCHANGED <<lock, socket, daemon>>
        \/ Unborn # {} /\ To(FirstUnborn, "born") /\ UNCHANGED <<lock, socket>>
    BY <1>2 DEF Probe, Popen, FirstUnborn
  <2>2. QED
    BY <2>1, NextUnborn
<1>3. ASSUME NEW c \in Client,
             Connect(c) \/ TakeStartLock(c) \/ Await(c) \/ Retry(c) \/ Check(c) \/ Lost(c)
      PROVE  UNCHANGED <<lock, socket, daemon>>
  BY <1>3 DEF Connect, TakeStartLock, Await, Retry, Check, Lost, files
<1>4. ASSUME NEW d \in Daemon, NEW c \in Client, ThreadStep(d, c)
      PROVE  \/ UNCHANGED <<lock, socket, daemon>>
             \/ /\ UNCHANGED <<lock, socket>>
                /\ daemon[d] = "serving" /\ To(d, "told")
  BY <1>4 DEF ThreadStep, Dispatch, Launch, StopJob, ForgetOne, ForgetEntity, RememberResult,
              Answer, files
<1>5. ASSUME NEW j \in Job, JobEnds(j)
      PROVE  UNCHANGED <<lock, socket, daemon>>
  BY <1>5 DEF JobEnds, files
<1>6. CASE UNCHANGED vars
  BY <1>6 DEF vars, files
<1>7. QED
  BY <1>1, <1>2, <1>3, <1>4, <1>5, <1>6 DEF Next, ClientStep

LEMMA DaemonInvInit == Init => DaemonInv
BY DaemonNumbers DEF Init, DaemonInv, Holding, Bound

LEMMA DaemonInvNext ==
  ASSUME TypeInv, DaemonInv, [Next]_vars
  PROVE  DaemonInv'
<1> USE DEF Holding, Bound
<1>1. /\ daemon \in [Daemon -> DaemonPcs]
      /\ lock \in {None} \cup Daemon
      /\ socket \in [owner : {None} \cup Daemon, private : BOOLEAN]
  BY DEF TypeInv, TypeOK
<1>2. \A d \in Daemon : d # None
  BY DaemonNumbers
<1>3. ASSUME NEW d \in Daemon,
             AcquireSingleton(d) \/ ProbeSocket(d) \/ UnlinkStale(d) \/ Bind(d) \/ Listen(d)
      PROVE  DaemonInv'
  <2>1. CASE AcquireSingleton(d)
    BY <1>1, <1>2, <2>1 DEF AcquireSingleton, To, DaemonInv
  <2>2. CASE ProbeSocket(d)
    BY <1>1, <1>2, <2>2 DEF ProbeSocket, To, DaemonInv
  <2>3. CASE UnlinkStale(d)
    BY <1>1, <1>2, <2>3 DEF UnlinkStale, To, DaemonInv
  <2>4. CASE Bind(d)
    BY <1>1, <1>2, <2>4 DEF Bind, To, DaemonInv
  <2>5. CASE Listen(d)
    BY <1>1, <1>2, <2>5 DEF Listen, To, DaemonInv
  <2>6. QED
    BY <1>3, <2>1, <2>2, <2>3, <2>4, <2>5
<1>4. ASSUME NEW d \in Daemon, Unlink(d) \/ Release(d) \/ Exit(d) \/ Stop(d) \/ Kill(d)
      PROVE  DaemonInv'
  <2>1. CASE Unlink(d)
    BY <1>1, <1>2, <2>1 DEF Unlink, To, DaemonInv
  <2>2. CASE Release(d)
    BY <1>1, <1>2, <2>2 DEF Release, To, DaemonInv
  <2>3. CASE Exit(d)
    BY <1>1, <1>2, <2>3 DEF Exit, To, DaemonInv, files
  <2>4. CASE Stop(d)
    BY <1>1, <1>2, <2>4 DEF Stop, Listening, To, DaemonInv, files
  <2>5. CASE Kill(d)
    BY <1>1, <1>2, <2>5 DEF Kill, To, DaemonInv
  <2>6. QED
    BY <1>4, <2>1, <2>2, <2>3, <2>4, <2>5
<1>5. ASSUME NEW d \in Daemon, UNCHANGED <<lock, socket>>,
             \/ daemon[d] = "unborn" /\ To(d, "born")
             \/ daemon[d] = "serving" /\ To(d, "told")
      PROVE  DaemonInv'
  BY <1>1, <1>2, <1>5 DEF To, DaemonInv
<1>6. CASE UNCHANGED <<lock, socket, daemon>>
  BY <1>6 DEF DaemonInv
<1>7. QED
  BY <1>3, <1>4, <1>5, <1>6, FilesMove DEF DaemonStep

\* One daemon at a time serves the state directory and clients find it: whoever is
\* between its bind and its unlink holds the lock and owns the path, whatever daemons
\* were started, lost the race, closed or were killed; for any number of them.
THEOREM ServerFound == Spec => []ServerIsFound
<1>1. DaemonInv => ServerIsFound
  BY DEF DaemonInv, ServerIsFound, Holding, Bound
<1>2. QED
  BY <1>1, TypeInit, TypeNext, KeysInit, KeysNext, DaemonInvInit, DaemonInvNext, PTL
  DEF Spec

-----------------------------------------------------------------------------
(* A restart.  A call goes on to start or to use a daemon only when the    *)
(* one that it shut down has stopped listening for good: a connection that *)
(* is refused or lost is taken for that, and is only refused or lost then, *)
(* because a daemon that listens can be connected to.                      *)

Dead(d) == d = None \/ daemon[d] \in {"closing", "unlinked", "released", "gone"}
Served(d) == d # None /\ (Dead(d) \/ Listening(d))

Starting == {"connect", "startlock", "probe", "await", "retry"}

RestartInv(c) ==
  LET me == client[c] IN
  /\ me.pc # "idle" => me.result = ""
  /\ me.restart =>
       /\ me.pc \in {"quiet", "check", "checksent"} => Served(me.old)
       /\ me.pc = "quiet" => me.conn = me.old
       /\ me.pc = "checksent" => me.conn = me.old \/ Dead(me.old)
       /\ me.pc \in Starting \cup {"sent"} => Dead(me.old)
       /\ me.pc = "sent" \/ me.result = "ok" => me.conn # me.old

Restarts == \A c \in Client : RestartInv(c)

LEMMA DeadForGood ==
  ASSUME TypeInv, [Next]_vars, NEW d \in {None} \cup Daemon
  PROVE  /\ Dead(d) => Dead(d)'
         /\ Served(d) => Served(d)'
<1>1. daemon \in [Daemon -> DaemonPcs] /\ \A e \in Daemon : e # None
  BY DaemonNumbers DEF TypeInv, TypeOK
<1>2. ASSUME NEW e \in Daemon, DaemonStep(e) \/ Stop(e) \/ Kill(e)
      PROVE  \E pc \in DaemonPcs :
               /\ To(e, pc)
               /\ Dead(e) => pc \in {"closing", "unlinked", "released", "gone"}
               /\ Listening(e) => pc \in {"closing", "gone"}
  BY <1>1, <1>2
  DEF DaemonStep, AcquireSingleton, ProbeSocket, UnlinkStale, Bind, Listen, Unlink,
      Release, Exit, Stop, Kill, Dead, Listening, DaemonPcs
<1>3. ASSUME NEW e \in Daemon, NEW pc, To(e, pc),
             Dead(e) => pc \in {"closing", "unlinked", "released", "gone"},
             Listening(e) => pc \in {"told", "closing", "gone"}
      PROVE  /\ Dead(d) => Dead(d)'
             /\ Served(d) => Served(d)'
  BY <1>1, <1>3 DEF To, Dead, Served, Listening
<1>4. CASE UNCHANGED daemon
  BY <1>4 DEF Dead, Served, Listening
<1>5. ASSUME NEW e \in Daemon, \/ daemon[e] = "unborn" /\ To(e, "born")
                               \/ daemon[e] = "serving" /\ To(e, "told")
      PROVE  /\ Dead(d) => Dead(d)'
             /\ Served(d) => Served(d)'
  BY <1>1, <1>5 DEF To, Dead, Served, Listening
<1>6. QED
  BY <1>2, <1>3, <1>4, <1>5, FilesMove

LEMMA RestartInit == Init => Restarts
<1>1. Idle.pc = "idle" /\ Idle.restart = FALSE
  BY DEF Idle
<1>2. QED
  BY <1>1 DEF Init, Restarts, RestartInv

\* A daemon that has served and cannot be connected to is dead.
LEMMA RefusedIsDead ==
  ASSUME TypeInv, DaemonInv, NEW d, Served(d), d \in Daemon, ~Connectable
  PROVE  Dead(d)
BY DaemonNumbers DEF TypeInv, TypeOK, DaemonInv, Served, Dead, Connectable, Listening, Bound

\* A call that raises is over, or that of a restart which starts anew.
LEMMA RaiseValue ==
  ASSUME TypeInv, NEW c \in Client, NEW why, Raise(c, why)
  PROVE  \/ /\ client[c].restart
            /\ client'[c] = [Idle EXCEPT !.pc = "connect", !.restart = TRUE,
                                         !.old = client[c].old]
         \/ /\ ~client[c].restart
            /\ client'[c] = [Idle EXCEPT !.result = IF why = "exited" THEN why
                                                    ELSE "failed"]
BY DEF Raise, TypeInv, TypeOK

LEMMA RaiseKeepsRestart ==
  ASSUME TypeInv, NEW c \in Client, RestartInv(c), [Next]_vars, NEW why, Raise(c, why),
         client[c].pc \in Starting
  PROVE  RestartInv(c)'
<1>1. PICK old \in {None} \cup Daemon : old = client[c].old
  BY DEF TypeInv, TypeOK, Calling
<1>2. CASE client[c].restart
  <2>1. Dead(old)'
    BY <1>1, <1>2, DeadForGood DEF RestartInv, Starting
  <2>2. client'[c] = [Idle EXCEPT !.pc = "connect", !.restart = TRUE,
                                  !.old = client[c].old]
    BY <1>2, RaiseValue
  <2>3. client'[c].pc = "connect" /\ client'[c].old = client[c].old
        /\ client'[c].result = ""
    BY <2>2 DEF Idle
  <2>4. QED
    BY <1>1, <2>1, <2>3 DEF RestartInv, Dead, Starting
<1>3. CASE ~client[c].restart
  <2>1. client'[c] = [Idle EXCEPT !.result = IF why = "exited" THEN why ELSE "failed"]
    BY <1>3, RaiseValue
  <2>2. client'[c].pc = "idle" /\ client'[c].restart = FALSE
    BY <2>1 DEF Idle
  <2>3. QED
    BY <2>2 DEF RestartInv
<1>4. QED
  BY <1>2, <1>3

\* A client that goes on starting a daemon.
LEMMA StartingKeepsRestart ==
  ASSUME TypeInv, NEW c \in Client, RestartInv(c), [Next]_vars, client[c].pc \in Starting,
         NEW pc \in Starting, NEW child, client' = [client EXCEPT ![c].pc = pc]
           \/ client' = [client EXCEPT ![c].pc = pc, ![c].child = child]
  PROVE  RestartInv(c)'
<1>1. PICK old \in {None} \cup Daemon : old = client[c].old
  BY DEF TypeInv, TypeOK, Calling
<1>2. /\ client'[c].pc = pc
      /\ client'[c].restart = client[c].restart
      /\ client'[c].old = old
      /\ client'[c].result = client[c].result
  <2>1. client \in [Client -> Calling]
    BY DEF TypeInv, TypeOK
  <2>2. CASE client' = [client EXCEPT ![c].pc = pc]
    <3>1. client'[c] = [client[c] EXCEPT !.pc = pc] /\ client[c] \in Calling
      BY <2>1, <2>2
    <3>2. QED
      BY <1>1, <3>1 DEF Calling
  <2>3. CASE client' = [client EXCEPT ![c].pc = pc, ![c].child = child]
    BY <1>1, <2>1, <2>3 DEF Calling
  <2>4. QED
    BY <2>2, <2>3
<1>3. client[c].restart => Dead(old)'
  BY <1>1, DeadForGood DEF RestartInv, Starting
<1>4. QED
  BY <1>2, <1>3 DEF RestartInv, Starting, Dead

\* A client that has found a daemon and sends its request.
LEMMA SendKeepsRestart ==
  ASSUME TypeInv, NEW c \in Client, RestartInv(c), [Next]_vars, client[c].pc \in Starting,
         Connectable, Send(c)
  PROVE  RestartInv(c)'
<1>1. PICK old \in {None} \cup Daemon : old = client[c].old
  BY DEF TypeInv, TypeOK, Calling
<1>2. /\ client'[c].pc = "sent"
      /\ client'[c].conn = socket.owner
      /\ client'[c].restart = client[c].restart
      /\ client'[c].old = old
      /\ client'[c].result = client[c].result
  BY <1>1 DEF Send, TypeInv, TypeOK, Calling
<1>3. client[c].restart => Dead(old) /\ Dead(old)'
  BY <1>1, DeadForGood DEF RestartInv, Starting
<1>4. ~Dead(socket.owner)
  BY DaemonNumbers DEF TypeInv, TypeOK, Connectable, Listening, Dead
<1>5. client[c].restart => socket.owner # old
  BY <1>3, <1>4
<1>6. client[c].result = ""
  BY DEF RestartInv, Starting
<1>7. QED
  BY <1>2, <1>3, <1>5, <1>6 DEF RestartInv, Starting, Dead

\* Whatever leaves no restart behind.
LEMMA NoRestart ==
  ASSUME NEW c \in Client, client'[c].restart = FALSE,
         client'[c].pc # "idle" => client'[c].result = ""
  PROVE  RestartInv(c)'
BY DEF RestartInv

LEMMA RestartOfClient ==
  ASSUME TypeInv, DaemonInv, NEW c \in Client, RestartInv(c), [Next]_vars, ClientAction(c)
  PROVE  RestartInv(c)'
<1>0. client \in [Client -> Calling]
  BY DEF TypeInv, TypeOK
<1>1. ASSUME NEW why, Raise(c, why), client[c].pc \in Starting
      PROVE  RestartInv(c)'
  BY <1>1, RaiseKeepsRestart
<1>2. CASE Begin(c)
  <2>1. PICK request : client' = [client EXCEPT ![c] =
                         [Idle EXCEPT !.pc = "connect", !.request = request]]
    BY <1>2 DEF Begin
  <2>2. client'[c].restart = FALSE /\ client'[c].result = ""
    BY <1>0, <2>1 DEF Idle
  <2>3. QED
    BY <2>2, NoRestart
<1>3. CASE BeginRestart(c)
  <2>1. CASE Connectable
    <3>1. PICK d \in Daemon : d = socket.owner /\ Served(d)
      BY <2>1, DaemonNumbers DEF TypeInv, TypeOK, Connectable, Served
    <3>2. client'[c] = [Idle EXCEPT !.pc = "quiet", !.restart = TRUE, !.conn = d, !.old = d]
      BY <1>0, <1>3, <2>1, <3>1 DEF BeginRestart
    <3>3. /\ client'[c].pc = "quiet" /\ client'[c].conn = d
          /\ client'[c].old = d /\ client'[c].result = ""
      BY <3>2 DEF Idle
    <3>4. Served(d)'
      BY <3>1, DeadForGood
    <3>5. QED
      BY <3>3, <3>4 DEF RestartInv, Starting, Served, Dead, Listening
  <2>2. CASE ~Connectable
    <3>1. client'[c] = [Idle EXCEPT !.pc = "connect", !.restart = TRUE]
      BY <1>0, <1>3, <2>2 DEF BeginRestart
    <3>2. client'[c].pc = "connect" /\ client'[c].old = None /\ client'[c].result = ""
      BY <3>1 DEF Idle
    <3>3. QED
      BY <3>2 DEF RestartInv, Starting, Dead
  <2>3. QED
    BY <2>1, <2>2
<1>4. CASE Connect(c) \/ Retry(c)
  <2>1. /\ client[c].pc \in Starting
        /\ \/ Connectable /\ Send(c)
           \/ Raise(c, "unsafe")
           \/ client' = [client EXCEPT ![c].pc = "startlock"]
    BY <1>4 DEF Connect, Retry, Goto, Starting
  <2>2. "startlock" \in Starting
    BY DEF Starting
  <2>3. QED
    BY <1>1, <2>1, <2>2, SendKeepsRestart, StartingKeepsRestart
<1>5. CASE TakeStartLock(c) \/ Probe(c) \/ Await(c)
  <2>1. /\ client[c].pc \in Starting
        /\ \/ \E why : Raise(c, why)
           \/ \E pc \in Starting :
                \/ client' = [client EXCEPT ![c].pc = pc]
                \/ \E child : client' = [client EXCEPT ![c].pc = pc, ![c].child = child]
    BY <1>5 DEF TakeStartLock, Probe, Popen, Await, Goto, Starting
  <2>2. QED
    BY <1>1, <2>1, StartingKeepsRestart
<1>6. CASE Check(c)
  <2>1. PICK old \in {None} \cup Daemon : old = client[c].old
    BY <1>0 DEF Calling
  <2>2. /\ client[c].restart => Served(old) /\ Served(old)'
        /\ client[c].result = ""
    BY <1>6, <2>1, DeadForGood DEF RestartInv, Check
  <2>3. CASE Connectable
    <3>1. /\ client'[c].pc = "checksent"
          /\ client'[c].conn = socket.owner
          /\ client'[c].restart = client[c].restart
          /\ client'[c].old = old
          /\ client'[c].result = ""
      <4>1. client' = [client EXCEPT ![c].pc = "checksent", ![c].conn = socket.owner]
        BY <1>6, <2>3 DEF Check
      <4>2. QED
        BY <1>0, <2>1, <2>2, <4>1 DEF Calling
    <3>2. client[c].restart /\ socket.owner # old => Dead(old)
      BY <2>2 DEF Served, DaemonInv, Listening, Bound, TypeInv, TypeOK
    <3>3. Dead(old) => Dead(old)'
      BY DeadForGood
    <3>4. QED
      BY <2>2, <3>1, <3>2, <3>3 DEF RestartInv, Starting, Dead, Served, Listening
  <2>4. CASE ~Connectable
    <3>1. /\ client'[c].pc = "connect"
          /\ client'[c].restart = client[c].restart
          /\ client'[c].old = old
          /\ client'[c].result = ""
      BY <1>0, <1>6, <2>1, <2>2, <2>4 DEF Check, Goto, Calling
    <3>2. client[c].restart => Dead(old)
      BY <2>2, <2>4, RefusedIsDead DEF Served
    <3>3. Dead(old) => Dead(old)'
      BY DeadForGood
    <3>4. QED
      BY <3>1, <3>2, <3>3 DEF RestartInv, Starting, Dead
  <2>5. QED
    BY <2>3, <2>4
<1>7. ASSUME client' = [client EXCEPT ![c] = [Idle EXCEPT !.result = "failed"]]
      PROVE  RestartInv(c)'
  <2>1. client'[c].pc = "idle" /\ client'[c].restart = FALSE
    BY <1>0, <1>7 DEF Idle
  <2>2. QED
    BY <2>1, NoRestart
<1>8. CASE Lost(c)
  <2>1. PICK old \in {None} \cup Daemon : old = client[c].old
    BY <1>0 DEF Calling
  <2>2. CASE client' = [client EXCEPT ![c] =
               [client[c] EXCEPT !.pc = "connect", !.conn = None,
                                 !.old = IF client[c].pc = "quiet" THEN None
                                         ELSE client[c].old]]
    <3>1. /\ client'[c].pc = "connect"
          /\ client'[c].restart = client[c].restart
          /\ client'[c].old = IF client[c].pc = "quiet" THEN None ELSE old
          /\ client'[c].result = client[c].result
      BY <1>0, <2>1, <2>2 DEF Calling
    <3>2. client[c].restart /\ client[c].pc # "quiet" => Dead(old)
      BY <1>8, <2>1 DEF Lost, RestartInv, Served
    <3>3. Dead(old) => Dead(old)'
      BY DeadForGood
    <3>4. client[c].result = ""
      BY <1>8 DEF Lost, RestartInv
    <3>5. QED
      BY <3>1, <3>2, <3>3, <3>4 DEF RestartInv, Starting, Dead
  <2>3. QED
    BY <1>7, <1>8, <2>2 DEF Lost
<1>9. CASE Timeout(c)
  BY <1>1, <1>7, <1>9 DEF Timeout, Starting
<1>10. QED
  BY <1>2, <1>3, <1>4, <1>5, <1>6, <1>8, <1>9 DEF ClientAction, ClientStep

LEMMA RestartOfThread ==
  ASSUME TypeInv, NEW d \in Daemon, NEW c \in Client, RestartInv(c), [Next]_vars,
         ThreadStep(d, c)
  PROVE  RestartInv(c)'
<1>0. client \in [Client -> Calling]
  BY DEF TypeInv, TypeOK
<1>1. PICK old \in {None} \cup Daemon : old = client[c].old
  BY <1>0 DEF Calling
<1>2. (Dead(old) => Dead(old)') /\ (Served(old) => Served(old)')
  BY DeadForGood
<1>3. CASE client'[c] = client[c]
  BY <1>1, <1>2, <1>3 DEF RestartInv, Dead, Served, Listening
<1>4. CASE Answer(d, c) /\ client'[c] # client[c]
  <2>1. client[c].pc \in {"sent", "quiet", "checksent"}
    BY <1>4 DEF Answer, Waiting
  <2>2. CASE client'[c] = [client[c] EXCEPT !.pc = "idle", !.result = "ok"]
             /\ client[c].pc = "sent"
    <3>1. /\ client'[c].pc = "idle"
          /\ client'[c].restart = client[c].restart
          /\ client'[c].conn = client[c].conn
          /\ client'[c].old = client[c].old
      BY <1>0, <2>2 DEF Calling
    <3>2. QED
      BY <2>2, <3>1 DEF RestartInv, Starting
  <2>3. CASE client'[c] = [Idle EXCEPT !.result = "failed"]
    <3>1. client'[c].pc = "idle" /\ client'[c].restart = FALSE
      BY <2>3 DEF Idle
    <3>2. QED
      BY <3>1, NoRestart
  <2>4. CASE client' = [client EXCEPT ![c].pc = "check", ![c].conn = None]
             /\ client[c].pc # "sent"
    <3>1. /\ client'[c].pc = "check"
          /\ client'[c].restart = client[c].restart
          /\ client'[c].old = old
          /\ client'[c].result = client[c].result
      BY <1>0, <1>1, <2>4 DEF Calling
    <3>2. client[c].result = "" /\ (client[c].restart => Served(old))
      BY <1>1, <2>1, <2>4 DEF RestartInv
    <3>3. QED
      BY <1>2, <3>1, <3>2 DEF RestartInv, Starting, Served, Dead, Listening
  <2>5. QED
    BY <1>0, <1>4, <2>2, <2>3, <2>4 DEF Answer
<1>5. QED
  BY <1>3, <1>4, ThreadOwnMoves

LEMMA RestartNext ==
  ASSUME TypeInv, DaemonInv, Restarts, [Next]_vars
  PROVE  Restarts'
<1>1. ASSUME NEW c \in Client
      PROVE  RestartInv(c)'
  <2>1. PICK old \in {None} \cup Daemon : old = client[c].old
    BY DEF TypeInv, TypeOK, Calling
  <2>2. CASE Left(c)
    <3>1. (Dead(old) => Dead(old)') /\ (Served(old) => Served(old)')
      BY DeadForGood
    <3>2. client'[c] = client[c] /\ RestartInv(c)
      BY <2>2 DEF Left, Restarts
    <3>3. QED
      BY <2>1, <3>1, <3>2 DEF RestartInv, Dead, Served, Listening
  <2>3. QED
    BY <2>2, Moves, RestartOfClient, RestartOfThread DEF Restarts
<1>2. QED
  BY <1>1 DEF Restarts

\* The invariant so far.
BaseInv == TypeInv /\ KeysMatch /\ DaemonInv /\ Restarts

LEMMA BaseInit == Init => BaseInv
BY TypeInit, KeysInit, DaemonInvInit, RestartInit DEF BaseInv

LEMMA BaseNext == BaseInv /\ [Next]_vars => BaseInv'
BY TypeNext, KeysNext, DaemonInvNext, RestartNext DEF BaseInv

\* `om restart` succeeds only with an answer of another daemon than the one that it
\* shut down, however long the old one lingers and whatever else is started, killed
\* or asked in between (_restart).
THEOREM RestartsAreFresh == Spec => []RestartIsFresh
<1>1. BaseInv => RestartIsFresh
  BY DEF BaseInv, Restarts, RestartInv, RestartIsFresh
<1>2. QED
  BY <1>1, BaseInit, BaseNext, PTL DEF Spec

-----------------------------------------------------------------------------
(* Starting a daemon.  Until somebody is stopped, killed or gives up, at   *)
(* most one daemon is ever started: the client that starts it keeps the    *)
(* start lock until it accepts connections, and after that every probe     *)
(* finds it.  So none can lose the race for the lock or for the path.      *)

InStartLock == {"probe", "await"}

LockInv ==
  \A c \in Client :
    /\ client[c].pc \in InStartLock <=> startLock = c
    /\ client[c].pc = "await" => client[c].child \in Daemon
    /\ client[c].result = "exited" => disturbed

Calm ==
  /\ \A d \in Daemon :
       /\ daemon[d] \in {"unborn", "born", "locked", "clear", "bound", "serving", "told"}
       /\ daemon[d] \in {"born", "locked", "clear", "bound"} =>
            \E c \in Client : client[c].pc = "await"
       /\ \A e \in Daemon : daemon[d] # "unborn" /\ daemon[e] # "unborn" => d = e
  /\ socket.owner # None => daemon[socket.owner] \in {"bound", "serving", "told"}

StartInv == LockInv /\ (~disturbed => Calm)

LEMMA StartInit == Init => StartInv
<1> SUFFICES ASSUME Init
             PROVE  StartInv
  OBVIOUS
<1>1. Idle.pc = "idle" /\ Idle.result = ""
  BY DEF Idle
<1>2. LockInv
  BY <1>1, ClientAssumption DEF Init, LockInv, InStartLock
<1>3. Calm
  BY DEF Init, Calm, NoSocket
<1>4. QED
  BY <1>2, <1>3 DEF StartInv

\* How a client comes by the start lock and loses it.
LockMoves(c) ==
  \/ /\ startLock' = startLock
     /\ client'[c].pc \in InStartLock <=> client[c].pc \in InStartLock
  \/ /\ startLock = NoClient /\ startLock' = c
     /\ client'[c].pc \in InStartLock
  \/ /\ startLock' = IF startLock = c THEN NoClient ELSE startLock
     /\ client'[c].pc \notin InStartLock
  \/ /\ startLock' = NoClient
     /\ client[c].pc \in InStartLock /\ client'[c].pc \notin InStartLock

Children(c) ==
  /\ client'[c].pc = "await" =>
       \/ client[c].pc = "await" /\ client'[c].child = client[c].child
       \/ client'[c].child \in Daemon
  /\ client'[c].result = "exited" =>
       \/ client[c].result = "exited"
       \/ Await(c) /\ Refused /\ daemon[client[c].child] = "gone"
  /\ client'[c].result = "ok" => client[c].result = "ok" /\ client[c].pc # "idle"

LEMMA LockOfClient ==
  ASSUME TypeInv, NEW c \in Client, ClientAction(c)
  PROVE  LockMoves(c) /\ Children(c)
<1>0. /\ client \in [Client -> Calling]
      /\ socket.owner \in {None} \cup Daemon
      /\ None \in {None} \cup Daemon
  BY DEF TypeInv, TypeOK
<1>1. ASSUME NEW why \in {"unsafe", "timeout", "exited"}, Raise(c, why)
      PROVE  /\ LockMoves(c)
             /\ client'[c].pc # "await"
             /\ client'[c].result = "exited" => why = "exited"
             /\ client'[c].result # "ok"
  <2>1. client'[c].pc \in {"connect", "idle"}
    BY <1>1, RaiseValue DEF Idle
  <2>2. /\ client'[c].result = "exited" => why = "exited"
        /\ client'[c].result # "ok"
    <3>1. CASE client'[c] = [Idle EXCEPT !.pc = "connect", !.restart = TRUE,
                                         !.old = client[c].old]
      BY <3>1 DEF Idle
    <3>2. CASE client'[c] = [Idle EXCEPT !.result = IF why = "exited" THEN why
                                                    ELSE "failed"]
      BY <3>2 DEF Idle
    <3>3. QED
      BY <1>1, <3>1, <3>2, RaiseValue
  <2>3. startLock' = IF startLock = c THEN NoClient ELSE startLock
    BY <1>1 DEF Raise
  <2>4. QED
    BY <2>1, <2>2, <2>3 DEF LockMoves, InStartLock
<1>2. CASE Begin(c) \/ BeginRestart(c)
  <2>1. client'[c].pc \in {"connect", "quiet"} /\ client'[c].result = ""
    BY <1>0, <1>2 DEF Begin, BeginRestart, Idle
  <2>2. UNCHANGED startLock /\ client[c].pc = "idle"
    BY <1>2 DEF Begin, BeginRestart, files
  <2>3. QED
    BY <2>1, <2>2 DEF LockMoves, Children, InStartLock
<1>3. ASSUME NEW pc \in ClientPcs, client' = [client EXCEPT ![c].pc = pc]
      PROVE  client'[c].pc = pc /\ client'[c].result = client[c].result
  <2>1. client'[c] = [client[c] EXCEPT !.pc = pc] /\ client[c] \in Calling
    BY <1>0, <1>3
  <2>2. QED
    BY <2>1 DEF Calling
<1>13. ASSUME NEW pc \in ClientPcs, NEW d \in {None} \cup Daemon,
              \/ client' = [client EXCEPT ![c].pc = pc, ![c].conn = d]
              \/ client' = [client EXCEPT ![c].pc = pc, ![c].child = d]
       PROVE  client'[c].pc = pc /\ client'[c].result = client[c].result
  <2>1. client[c] \in Calling
    BY <1>0
  <2>2. \/ client'[c] = [client[c] EXCEPT !.pc = pc, !.conn = d]
        \/ client'[c] = [client[c] EXCEPT !.pc = pc, !.child = d]
    BY <1>0, <1>13
  <2>3. QED
    BY <2>1, <2>2 DEF Calling
<1>4. CASE Connect(c) \/ Retry(c)
  <2>1. /\ client[c].pc \in {"connect", "retry"}
        /\ \/ Raise(c, "unsafe")
           \/ /\ UNCHANGED startLock
              /\ \/ client' = [client EXCEPT ![c].pc = "sent", ![c].conn = socket.owner]
                 \/ client' = [client EXCEPT ![c].pc = "startlock"]
    BY <1>4 DEF Connect, Retry, Goto, Send
  <2>2. QED
    <3>1. CASE Raise(c, "unsafe")
      BY <1>1, <2>1, <3>1 DEF Children
    <3>2. CASE UNCHANGED startLock
               /\ client' = [client EXCEPT ![c].pc = "sent", ![c].conn = socket.owner]
      <4>1. client'[c].pc = "sent" /\ client'[c].result = client[c].result
        BY <1>0, <1>13, <3>2 DEF ClientPcs
      <4>2. QED
        BY <2>1, <3>2, <4>1 DEF LockMoves, Children, InStartLock
    <3>3. CASE UNCHANGED startLock /\ client' = [client EXCEPT ![c].pc = "startlock"]
      <4>1. client'[c].pc = "startlock" /\ client'[c].result = client[c].result
        BY <1>3, <3>3 DEF ClientPcs
      <4>2. QED
        BY <2>1, <3>3, <4>1 DEF LockMoves, Children, InStartLock
    <3>4. QED
      BY <2>1, <3>1, <3>2, <3>3
<1>5. CASE TakeStartLock(c)
  <2>1. client'[c].pc = "probe" /\ client'[c].result = client[c].result
    BY <1>3, <1>5 DEF TakeStartLock, Goto, ClientPcs
  <2>2. QED
    BY <1>5, <2>1 DEF TakeStartLock, LockMoves, Children, InStartLock
<1>6. CASE Probe(c)
  <2>1. CASE Refused /\ Unborn # {} /\ Popen(c)
    <3>1. /\ client' = [client EXCEPT ![c].pc = "await", ![c].child = FirstUnborn]
          /\ UNCHANGED startLock
      BY <2>1 DEF Popen, FirstUnborn
    <3>2. client'[c].pc = "await" /\ client'[c].child = FirstUnborn
          /\ client'[c].result = client[c].result
      BY <1>0, <3>1 DEF Calling
    <3>3. FirstUnborn \in Daemon
      BY <2>1, NextUnborn
    <3>4. QED
      BY <1>6, <3>1, <3>2, <3>3 DEF Probe, LockMoves, Children, InStartLock
  <2>2. CASE ~(Refused /\ Unborn # {} /\ Popen(c))
    <3>1. /\ client[c].pc = "probe"
          /\ \/ \E why \in {"unsafe", "timeout"} : Raise(c, why)
             \/ startLock' = NoClient /\ client' = [client EXCEPT ![c].pc = "retry"]
      BY <1>6, <2>2 DEF Probe, Popen, Goto
    <3>2. QED
      <4>1. CASE startLock' = NoClient /\ client' = [client EXCEPT ![c].pc = "retry"]
        <5>1. client'[c].pc = "retry" /\ client'[c].result = client[c].result
          BY <1>3, <4>1 DEF ClientPcs
        <5>2. QED
          BY <3>1, <4>1, <5>1 DEF LockMoves, Children, InStartLock
      <4>2. ASSUME NEW why \in {"unsafe", "timeout"}, Raise(c, why)
            PROVE  LockMoves(c) /\ Children(c)
        BY <1>1, <4>2 DEF Children
      <4>3. QED
        BY <3>1, <4>1, <4>2
  <2>3. QED
    BY <2>1, <2>2
<1>7. CASE Await(c)
  <2>1. /\ client[c].pc = "await"
        /\ \/ Raise(c, "unsafe")
           \/ Raise(c, "exited") /\ Refused /\ daemon[client[c].child] = "gone"
           \/ /\ startLock' = NoClient
              /\ client' = [client EXCEPT ![c].pc = "retry", ![c].child = None]
    BY <1>7 DEF Await
  <2>2. QED
    <3>1. CASE Raise(c, "unsafe")
      BY <1>1, <3>1 DEF Children
    <3>2. CASE Raise(c, "exited") /\ Refused /\ daemon[client[c].child] = "gone"
      BY <1>1, <1>7, <3>2 DEF Children
    <3>3. CASE /\ startLock' = NoClient
               /\ client' = [client EXCEPT ![c].pc = "retry", ![c].child = None]
      <4>1. client'[c].pc = "retry" /\ client'[c].result = client[c].result
        BY <1>0, <1>13, <3>3 DEF ClientPcs
      <4>2. QED
        BY <2>1, <3>3, <4>1 DEF LockMoves, Children, InStartLock
    <3>4. QED
      BY <2>1, <3>1, <3>2, <3>3
<1>8. CASE Check(c)
  <2>1. /\ client[c].pc = "check" /\ UNCHANGED startLock
        /\ \/ client' = [client EXCEPT ![c].pc = "checksent", ![c].conn = socket.owner]
           \/ client' = [client EXCEPT ![c].pc = "connect"]
    BY <1>8 DEF Check, Goto, files
  <2>2. client'[c].pc \in {"checksent", "connect"} /\ client'[c].result = client[c].result
    BY <1>0, <1>3, <1>13, <2>1 DEF ClientPcs
  <2>3. QED
    BY <2>1, <2>2 DEF LockMoves, Children, InStartLock
<1>9. ASSUME client' = [client EXCEPT ![c] = [Idle EXCEPT !.result = "failed"]]
      PROVE  client'[c].pc = "idle" /\ client'[c].result = "failed"
  BY <1>0, <1>9 DEF Idle
<1>10. CASE Lost(c)
  <2>1. /\ client[c].pc \notin InStartLock /\ client[c].pc # "idle"
        /\ UNCHANGED startLock
        /\ \/ client' = [client EXCEPT ![c] = [Idle EXCEPT !.result = "failed"]]
           \/ client'[c].pc = "connect" /\ client'[c].result = client[c].result
    <3>1. /\ client[c].pc \notin InStartLock /\ client[c].pc # "idle"
          /\ UNCHANGED startLock
          /\ \/ client' = [client EXCEPT ![c] = [Idle EXCEPT !.result = "failed"]]
             \/ client' = [client EXCEPT ![c] =
                  [client[c] EXCEPT !.pc = "connect", !.conn = None,
                       !.old = IF client[c].pc = "quiet" THEN None ELSE client[c].old]]
      BY <1>10 DEF Lost, InStartLock, files
    <3>2. client[c] \in Calling
      BY <1>0
    <3>3. \/ client' = [client EXCEPT ![c] = [Idle EXCEPT !.result = "failed"]]
          \/ client'[c] = [client[c] EXCEPT !.pc = "connect", !.conn = None,
                   !.old = IF client[c].pc = "quiet" THEN None ELSE client[c].old]
      BY <1>0, <3>1
    <3>4. QED
      BY <3>1, <3>2, <3>3 DEF Calling
  <2>2. QED
    BY <1>9, <2>1 DEF LockMoves, Children, InStartLock
<1>11. CASE Timeout(c)
  <2>1. \/ Raise(c, "timeout")
        \/ /\ client[c].pc \notin InStartLock
           /\ UNCHANGED startLock
           /\ client' = [client EXCEPT ![c] = [Idle EXCEPT !.result = "failed"]]
    BY <1>11 DEF Timeout, InStartLock
  <2>2. QED
    BY <1>1, <1>9, <2>1 DEF LockMoves, Children, InStartLock
<1>12. QED
  BY <1>2, <1>4, <1>5, <1>6, <1>7, <1>8, <1>10, <1>11 DEF ClientAction, ClientStep

LEMMA DisturbedForGood ==
  ASSUME TypeInv, [Next]_vars
  PROVE  disturbed => disturbed'
<1>1. ASSUME NEW c \in Client, ClientAction(c)
      PROVE  disturbed => disturbed'
  <2>1. ASSUME NEW why, Raise(c, why)
        PROVE  disturbed => disturbed'
    BY <2>1 DEF Raise
  <2>2. CASE Begin(c) \/ BeginRestart(c) \/ TakeStartLock(c) \/ Check(c) \/ Lost(c)
    BY <2>2 DEF Begin, BeginRestart, TakeStartLock, Check, Lost
  <2>3. CASE Connect(c) \/ Retry(c) \/ Timeout(c)
    BY <2>1, <2>3 DEF Connect, Retry, Timeout
  <2>4. CASE Probe(c) \/ Await(c)
    BY <2>1, <2>4 DEF Probe, Popen, Await
  <2>5. QED
    BY <1>1, <2>2, <2>3, <2>4 DEF ClientAction, ClientStep
<1>2. ASSUME NEW d \in Daemon, DaemonStep(d) \/ Stop(d) \/ Kill(d)
      PROVE  disturbed => disturbed'
  BY <1>2 DEF DaemonStep, AcquireSingleton, ProbeSocket, UnlinkStale, Bind, Listen, Unlink,
              Release, Exit, Stop, Kill
<1>3. ASSUME NEW d \in Daemon, NEW c \in Client, ThreadStep(d, c)
      PROVE  disturbed => disturbed'
  BY <1>3 DEF ThreadStep, Dispatch, Launch, StopJob, ForgetOne, ForgetEntity, RememberResult,
              Answer
<1>4. QED
  BY <1>1, <1>2, <1>3 DEF Next, ClientAction, JobEnds, vars

\* Who holds the start lock, and what is known of a daemon that was started.
LEMMA LockNext ==
  ASSUME TypeInv, StartInv, [Next]_vars
  PROVE  LockInv'
<1>0. /\ client \in [Client -> Calling]
      /\ disturbed => disturbed'
      /\ LockInv
      /\ NoClient \notin Client
  BY DisturbedForGood, ClientAssumption DEF TypeInv, TypeOK, StartInv
<1>1. ASSUME NEW c \in Client, ClientAction(c)
      PROVE  LockInv'
  <2>1. \A b \in Client : b # c => client'[b] = client[b]
    BY <1>1, ClientOwnMoves
  <2>2. LockMoves(c) /\ Children(c)
    BY <1>1, LockOfClient
  <2>3. ~(/\ Await(c) /\ Refused /\ ~disturbed
          /\ daemon[client[c].child] = "gone")
    BY <1>0 DEF StartInv, Calm, LockInv, Await
  <2>4. ASSUME NEW b \in Client
        PROVE  client'[b].pc \in InStartLock <=> startLock' = b
    BY <1>0, <1>1, <2>1, <2>2, <2>4 DEF LockInv, LockMoves
  <2>5. client'[c].pc = "await" => client'[c].child \in Daemon
    BY <1>0, <1>1, <2>2 DEF LockInv, Children
  <2>6. client'[c].result = "exited" => disturbed'
    BY <1>0, <1>1, <2>2, <2>3 DEF LockInv, Children
  <2>7. QED
    BY <1>0, <2>1, <2>4, <2>5, <2>6 DEF LockInv
<1>2. ASSUME NEW d \in Daemon, NEW c \in Client, ThreadStep(d, c)
      PROVE  LockInv'
  <2>1. \A b \in Client : b # c => client'[b] = client[b]
    BY <1>2, ThreadOwnMoves
  <2>2. UNCHANGED startLock
    BY <1>2 DEF ThreadStep, Dispatch, Launch, StopJob, ForgetOne, ForgetEntity, RememberResult,
                Answer, files
  <2>3. \/ client'[c] = client[c]
        \/ /\ client[c].pc \notin InStartLock /\ client'[c].pc \notin InStartLock
           /\ client'[c].result \in {"ok", "failed", client[c].result}
    <3>1. CASE Answer(d, c) /\ client' # client
      <4>1. /\ client[c].pc \in {"sent", "quiet", "checksent"}
            /\ \/ client'[c] = [client[c] EXCEPT !.pc = "idle", !.result = "ok"]
               \/ client'[c] = [Idle EXCEPT !.result = "failed"]
               \/ client' = [client EXCEPT ![c].pc = "check", ![c].conn = None]
        BY <1>0, <3>1 DEF Answer, Waiting
      <4>2. client'[c].pc \in {"idle", "check"}
            /\ client'[c].result \in {"ok", "failed", client[c].result}
        BY <1>0, <4>1 DEF Idle, Calling
      <4>3. QED
        BY <4>1, <4>2 DEF InStartLock
    <3>2. QED
      BY <1>2, <3>1, ThreadOwnMoves
  <2>4. QED
    BY <1>0, <2>1, <2>2, <2>3 DEF LockInv, InStartLock
<1>3. CASE UNCHANGED <<client, startLock>>
  BY <1>0, <1>3 DEF LockInv
<1>4. ASSUME NEW d \in Daemon, DaemonStep(d) \/ Stop(d) \/ Kill(d)
      PROVE  UNCHANGED <<client, startLock>>
  BY <1>4 DEF DaemonStep, AcquireSingleton, ProbeSocket, UnlinkStale, Bind, Listen, Unlink,
              Release, Exit, Stop, Kill, files
<1>5. ASSUME NEW j \in Job, JobEnds(j)
      PROVE  UNCHANGED <<client, startLock>>
  BY <1>5 DEF JobEnds, files
<1>6. CASE UNCHANGED vars
  BY <1>3, <1>6 DEF vars, files
<1>7. QED
  BY <1>1, <1>2, <1>3, <1>4, <1>5, <1>6 DEF Next, ClientAction

\* A client that finds no daemon while it holds the start lock is alone: nobody has
\* started one before.
LEMMA NobodyYet ==
  ASSUME TypeInv, DaemonInv, LockInv, Calm, NEW c \in Client, client[c].pc = "probe", Refused
  PROVE  \A d \in Daemon : daemon[d] = "unborn"
<1>1. ASSUME NEW d \in Daemon, daemon[d] \in {"serving", "told"}
      PROVE  FALSE
  <2>1. socket.owner = d /\ socket.private
    BY <1>1 DEF DaemonInv, Bound
  <2>2. QED
    BY <1>1, <2>1, DaemonNumbers DEF Refused, Connectable, Listening
<1>2. ASSUME NEW d \in Daemon, daemon[d] \in {"born", "locked", "clear", "bound"}
      PROVE  FALSE
  BY <1>2 DEF Calm, LockInv, InStartLock
<1>3. QED
  BY <1>1, <1>2 DEF Calm

\* The client that waits for its daemon leaves only when that accepts connections.
LEMMA AwaitEnds ==
  ASSUME TypeInv, LockInv, Calm, NEW c \in Client, ClientAction(c), ~disturbed',
         client[c].pc = "await"
  PROVE  Connectable /\ UNCHANGED <<socket, daemon>>
<1>1. Await(c) \/ Timeout(c)
  BY DEF ClientAction, ClientStep, Begin, BeginRestart, Connect, TakeStartLock, Probe, Retry,
         Check, Lost
<1>2. ~Raise(c, "unsafe") /\ ~Raise(c, "timeout")
  BY DEF Raise
<1>3. client[c].child \in Daemon => daemon[client[c].child] # "gone"
  BY DEF Calm
<1>4. client[c].child \in Daemon
  BY DEF LockInv
<1>5. QED
  BY <1>1, <1>2, <1>3, <1>4 DEF Await, Timeout

LEMMA CalmOfDaemon ==
  ASSUME TypeInv, DaemonInv, Calm, NEW d \in Daemon, DaemonStep(d) \/ Stop(d) \/ Kill(d),
         ~disturbed'
  PROVE  Calm'
<1>0. /\ daemon \in [Daemon -> DaemonPcs]
      /\ lock \in {None} \cup Daemon
      /\ socket \in [owner : {None} \cup Daemon, private : BOOLEAN]
      /\ \A e \in Daemon : e # None
  BY DaemonNumbers DEF TypeInv, TypeOK
<1>1. client' = client
  BY DaemonLeaves
<1>2. /\ daemon[d] \in {"born", "locked", "clear", "bound"}
      /\ \/ daemon[d] = "born" /\ To(d, "locked") /\ UNCHANGED socket
         \/ daemon[d] = "locked" /\ To(d, "clear") /\ UNCHANGED socket
         \/ daemon[d] = "clear" /\ To(d, "bound") /\ socket'.owner = d
         \/ daemon[d] = "bound" /\ To(d, "serving") /\ socket'.owner = socket.owner
  <2>1. CASE AcquireSingleton(d)
    <3>1. lock = None
      <4>1. ASSUME lock # None
            PROVE  FALSE
        <5>1. lock \in Daemon /\ daemon[lock] \in Holding
          BY <1>0, <4>1 DEF DaemonInv
        <5>2. lock = d
          BY <2>1, <5>1 DEF Calm, AcquireSingleton, Holding, Bound
        <5>3. QED
          BY <2>1, <5>1, <5>2 DEF AcquireSingleton, Holding, Bound
      <4>2. QED
        BY <4>1
    <3>2. QED
      BY <2>1, <3>1 DEF AcquireSingleton
  <2>2. CASE ProbeSocket(d)
    <3>1. socket.owner = None
      <4>1. ASSUME socket.owner # None
            PROVE  FALSE
        <5>1. /\ socket.owner \in Daemon
              /\ daemon[socket.owner] \in {"bound", "serving", "told"}
          BY <1>0, <4>1 DEF Calm
        <5>2. socket.owner = d
          BY <2>2, <5>1 DEF Calm, ProbeSocket
        <5>3. QED
          BY <2>2, <5>1, <5>2 DEF ProbeSocket
      <4>2. QED
        BY <4>1
    <3>2. QED
      BY <2>2, <3>1 DEF ProbeSocket
  <2>3. CASE Bind(d)
    BY <2>3 DEF Bind
  <2>4. CASE Listen(d)
    BY <1>0, <2>4 DEF Listen
  <2>5. ~(UnlinkStale(d) \/ Unlink(d) \/ Release(d) \/ Exit(d) \/ Stop(d) \/ Kill(d))
    BY DEF Calm, UnlinkStale, Unlink, Release, Exit, Stop, Kill
  <2>6. QED
    BY <2>1, <2>2, <2>3, <2>4, <2>5 DEF DaemonStep
<1>3. /\ daemon'[d] \in {"locked", "clear", "bound", "serving"}
      /\ \A e \in Daemon : e # d => daemon'[e] = daemon[e]
  BY <1>0, <1>2 DEF To
<1>4. \E c \in Client : client[c].pc = "await"
  BY <1>2 DEF Calm
<1>5. \A e \in Daemon : e # d => daemon[e] = "unborn"
  BY <1>2 DEF Calm
<1>6. socket'.owner # None => /\ socket'.owner = d
                              /\ daemon'[d] \in {"bound", "serving"}
  <2>1. CASE socket'.owner = socket.owner /\ socket.owner # None
    <3>1. socket.owner = d /\ daemon[d] \in {"bound", "serving", "told"}
      BY <1>0, <1>5, <2>1 DEF Calm
    <3>2. QED
      BY <1>0, <1>2, <2>1, <3>1 DEF To
  <2>2. QED
    BY <1>0, <1>2, <2>1 DEF To
<1>7. QED
  BY <1>1, <1>3, <1>4, <1>5, <1>6 DEF Calm

LEMMA CalmNext ==
  ASSUME BaseInv, StartInv, [Next]_vars, ~disturbed'
  PROVE  Calm'
<1>0. /\ TypeInv /\ DaemonInv /\ LockInv /\ Calm
      /\ daemon \in [Daemon -> DaemonPcs]
      /\ client \in [Client -> Calling]
      /\ socket.owner \in {None} \cup Daemon
  BY DisturbedForGood DEF BaseInv, StartInv, TypeInv, TypeOK
<1>1. ASSUME NEW d \in Daemon, DaemonStep(d) \/ Stop(d) \/ Kill(d)
      PROVE  Calm'
  BY <1>0, <1>1, CalmOfDaemon
<1>2. ASSUME UNCHANGED <<socket, daemon>>,
             \A c \in Client : client[c].pc = "await" => client'[c].pc = "await"
      PROVE  Calm'
  BY <1>0, <1>2 DEF Calm
<1>3. ASSUME NEW c \in Client, ClientAction(c)
      PROVE  Calm'
  <2>1. \A b \in Client : b # c => client'[b] = client[b]
    BY <1>0, <1>3, ClientOwnMoves
  <2>2. CASE client[c].pc = "await"
    <3>1. Connectable /\ UNCHANGED <<socket, daemon>>
      BY <1>0, <1>3, <2>2, AwaitEnds
    <3>2. \A d \in Daemon : daemon[d] \in {"unborn", "serving", "told"}
      BY <1>0, <3>1 DEF Connectable, Listening, Calm
    <3>3. QED
      BY <1>0, <3>1, <3>2 DEF Calm
  <2>3. CASE client[c].pc # "await" /\ UNCHANGED <<socket, daemon>>
    BY <1>2, <2>1, <2>3
  <2>4. CASE Probe(c) /\ Refused /\ Unborn # {} /\ Popen(c)
    <3>1. \A d \in Daemon : daemon[d] = "unborn"
      BY <1>0, <2>4, NobodyYet DEF Probe
    <3>2. PICK d \in Daemon : /\ To(d, "born")
                              /\ client' = [client EXCEPT ![c].pc = "await", ![c].child = d]
      BY <1>0, <2>4, NextUnborn DEF Popen, FirstUnborn
    <3>3. /\ client'[c].pc = "await"
          /\ daemon'[d] = "born"
          /\ \A e \in Daemon : e # d => daemon'[e] = "unborn"
      BY <1>0, <3>1, <3>2 DEF To, Calling
    <3>4. socket.owner = None /\ socket' = socket
      BY <1>0, <2>4, <3>1 DEF Probe, Calm
    <3>5. QED
      BY <3>3, <3>4 DEF Calm
  <2>5. UNCHANGED <<socket, daemon>> \/ (Probe(c) /\ Refused /\ Unborn # {} /\ Popen(c))
    BY <1>3 DEF ClientAction, ClientStep, Begin, BeginRestart, Connect, TakeStartLock, Probe,
                Popen, Await, Retry, Check, Lost, Timeout, files
  <2>6. QED
    BY <2>2, <2>3, <2>4, <2>5
<1>4. ASSUME NEW d \in Daemon, NEW c \in Client, ThreadStep(d, c)
      PROVE  Calm'
  <2>1. \A b \in Client : client[b].pc = "await" => client'[b] = client[b]
    <3>1. \A b \in Client : b # c => client'[b] = client[b]
      BY <1>0, <1>4, ThreadOwnMoves
    <3>2. Answer(d, c) /\ client' # client => client[c].pc # "await"
      BY DEF Answer, Waiting
    <3>3. QED
      BY <1>0, <1>4, <3>1, <3>2, ThreadOwnMoves
  <2>2. UNCHANGED socket
    BY <1>4 DEF ThreadStep, Dispatch, Launch, StopJob, ForgetOne, ForgetEntity, RememberResult,
                Answer, files
  <2>3. CASE UNCHANGED daemon
    BY <1>2, <2>1, <2>2, <2>3
  <2>4. CASE daemon[d] = "serving" /\ To(d, "told")
    <3>1. daemon'[d] = "told" /\ \A e \in Daemon : e # d => daemon'[e] = daemon[e]
      BY <1>0, <2>4 DEF To
    <3>2. QED
      BY <1>0, <2>1, <2>2, <2>4, <3>1 DEF Calm
  <2>5. QED
    BY <1>4, <2>3, <2>4 DEF ThreadStep, Dispatch, Launch, StopJob, ForgetOne, ForgetEntity,
                            RememberResult, Answer
<1>5. ASSUME NEW j \in Job, JobEnds(j)
      PROVE  Calm'
  BY <1>2, <1>5 DEF JobEnds, files
<1>6. CASE UNCHANGED vars
  BY <1>2, <1>6 DEF vars, files
<1>7. QED
  BY <1>1, <1>3, <1>4, <1>5, <1>6 DEF Next, ClientAction

LEMMA StartNext == BaseInv /\ StartInv /\ [Next]_vars => StartInv'
BY LockNext, CalmNext DEF BaseInv, StartInv

\* Clients that start the daemon at the same time do not fail over one another: a
\* daemon that a client started exits before it serves only if one was stopped or
\* killed or a client gave up; and whoever holds the start lock is on its way to a
\* daemon (_start_daemon); for any number of clients and daemons.
THEOREM StartsAreApart == Spec => []StartsDoNotCollide
<1>1. BaseInv /\ StartInv => StartsDoNotCollide
  <2>1. ASSUME BaseInv, StartInv, startLock # NoClient
        PROVE  client[startLock].pc \in {"probe", "await"}
    <3>1. startLock \in Client
      BY <2>1 DEF BaseInv, TypeInv, TypeOK
    <3>2. QED
      BY <2>1, <3>1 DEF StartInv, LockInv, InStartLock
  <2>2. QED
    BY <2>1 DEF StartInv, LockInv, StartsDoNotCollide
<1>2. QED
  BY <1>1, BaseInit, BaseNext, StartInit, StartNext, PTL DEF Spec

-----------------------------------------------------------------------------
(* Requests that are retried.  What a success promises is stable: jobs do  *)
(* not come back, and a new entity has other ids.  So it is enough that a  *)
(* request is remembered, and answered from the table, only when what it   *)
(* promises holds.                                                         *)

\* What a success of the request promises.
Promise(s, request) ==
  request.generation = s.generation =>
    /\ request.op = "forget" =>
         \A j \in Job : request.key \in {j, "forget"} => s.job[j] = "forgotten"
    /\ request.op = "stop" => \A j \in Job : s.job[j] # "active"

TableInv ==
  /\ "launch" \in store.remembered =>
       \A j \in Job : store.job[j] \in {"active", "asked", "ended"}
  /\ \A j \in Job : j \in store.remembered => store.job[j] = "forgotten"
  /\ "forget" \in store.remembered => \A j \in Job : store.job[j] = "forgotten"
  /\ \A i, j \in Job : store.job[i] = "none" => store.job[j] = "none"
  /\ "stop" \in store.remembered => \A j \in Job : store.job[j] # "active"
  /\ store.generation > 0 /\ "launch" \notin store.remembered =>
       \E j \in Job : store.job[j] = "forgotten"

AnswerInv ==
  /\ \A c \in Client :
       /\ client[c].request.generation <= store.generation
       /\ client[c].result = "ok" => Promise(store, client[c].request)
  /\ \A d \in Daemon, c \in Client :
       /\ thread[d][c].request.generation <= store.generation
       /\ thread[d][c].pc \in {"remember", "ok"} => Promise(store, thread[d][c].request)
       /\ client[c].pc = "sent" /\ client[c].conn = d /\ thread[d][c].pc # "off" =>
            thread[d][c].request = client[c].request

LEMMA PromiseStable ==
  ASSUME NEW s \in Store, NEW t \in Store, StoreStep(s, t), NEW request \in Request,
         KeyMatches(request), request.generation <= s.generation
  PROVE  /\ request.generation <= t.generation
         /\ Promise(s, request) => Promise(t, request)
<1>1. s.generation \in Nat /\ t.generation \in Nat /\ request.generation \in Nat
  BY DEF Store, Request
<1>2. CASE SameEntity(s, t)
  <2>1. \A j \in Job : /\ s.job[j] = "forgotten" => t.job[j] = "forgotten"
                       /\ s.job[j] # "active" => t.job[j] # "active"
    BY <1>2 DEF SameEntity
  <2>2. QED
    BY <1>1, <1>2, <2>1 DEF SameEntity, Promise, KeyMatches
<1>3. CASE NewEntity(s, t)
  BY <1>1, <1>3 DEF NewEntity, Promise
<1>4. QED
  BY <1>2, <1>3 DEF StoreStep

\* Every step does to the store what a transaction may do.
LEMMA StoreNext ==
  ASSUME TypeInv, KeysMatch, [Next]_vars
  PROVE  /\ store' \in Store
         /\ store' = store \/ StoreStep(store, store')
<1>0. store \in Store /\ store' \in Store
  BY TypeNext DEF TypeInv, TypeOK
<1>1. ASSUME NEW d \in Daemon, NEW c \in Client, ThreadStep(d, c)
      PROVE  store' = store \/ StoreStep(store, store')
  <2> DEFINE request == RequestOf(d, c)
  <2>1. CASE Launch(d, c)
    BY <1>0, <2>1, CreateLaunchStep DEF Launch
  <2>2. CASE StopJob(d, c)
    BY <1>0, <2>2, UpdateJobStep DEF StopJob, Here, StoreStep
  <2>3. CASE ForgetOne(d, c)
    <3>1. \/ store' = store
          \/ /\ request.key \in Job /\ store.job[request.key] = "ended"
             /\ store' = ForgetJob(store, request.key)
      BY <2>3 DEF ForgetOne, Here
    <3>2. QED
      BY <1>0, <3>1, ForgetJobStep DEF StoreStep
  <2>31. CASE ForgetEntity(d, c)
    BY <1>0, <2>31, ForgetGroupStep DEF ForgetEntity, StoreStep
  <2>4. CASE RememberResult(d, c)
    <3>1. request.key \in Key
      BY <2>4 DEF RememberResult, KeysMatch, KeyMatches, RequestOf, Destructive, Key
    <3>2. QED
      BY <1>0, <2>4, <3>1, RememberStep DEF RememberResult, StoreStep
  <2>5. QED
    BY <1>1, <2>1, <2>2, <2>3, <2>31, <2>4 DEF ThreadStep, Dispatch, Answer
<1>2. ASSUME NEW j \in Job, JobEnds(j)
      PROVE  StoreStep(store, store')
  BY <1>0, <1>2, UpdateJobStep DEF JobEnds, StoreStep
<1>3. ASSUME NEW d \in Daemon, DaemonStep(d) \/ Stop(d) \/ Kill(d)
      PROVE  store' = store
  BY <1>3, DaemonLeaves
<1>4. ASSUME NEW c \in Client, ClientAction(c)
      PROVE  store' = store
  BY <1>4, ClientOwnMoves
<1>5. CASE UNCHANGED vars
  BY <1>0, <1>5 DEF vars
<1>6. QED
  BY <1>0, <1>1, <1>2, <1>3, <1>4, <1>5 DEF Next, ClientAction

\* A request goes on to be answered only when what it promises holds.
LEMMA ThreadPromises ==
  ASSUME TypeInv, KeysMatch, TableInv, AnswerInv, [Next]_vars, NEW d \in Daemon,
         NEW c \in Client, ThreadStep(d, c), thread'[d][c].pc \in {"remember", "ok"}
  PROVE  Promise(store', thread'[d][c].request)
<1> DEFINE request == RequestOf(d, c)
<1>0. /\ thread \in [Daemon -> [Client -> Threads]]
      /\ store \in Store
      /\ request = thread[d][c].request
      /\ request \in Request
      /\ KeyMatches(request)
      /\ NoThread.pc = "off"
  BY DEF TypeInv, TypeOK, Threads, RequestOf, KeysMatch, NoThread
<1>1. CASE Dispatch(d, c)
  <2>1. /\ Thread(d, c, LookedUp(request))
        /\ store' = store
    BY <1>0, <1>1, OffFields DEF Dispatch
  <2>2. thread'[d][c].pc = LookedUp(request) /\ thread'[d][c].request = request
    BY <1>0, <2>1, ThreadFields
  <2>3. \/ request.op \in {"shutdown", "doctor"}
        \/ Known(store, request.generation, request.key)
    BY <2>2 DEF LookedUp
  <2>4. Promise(store, request)
    BY <1>0, <2>3, KeyTypes DEF Promise, Known, TableInv, KeyMatches
  <2>5. QED
    BY <2>1, <2>2, <2>4
<1>2. CASE Launch(d, c)
  <2>1. thread'[d][c].request = request /\ request.op = "launch"
    BY <1>0, <1>2, ThreadFields DEF Launch
  <2>2. QED
    BY <2>1 DEF Promise
<1>3. CASE StopJob(d, c)
  <2>1. /\ Thread(d, c, IF Here(request) = {} THEN "refused" ELSE "remember")
        /\ {j \in Here(request) : store.job[j] = "active"} = {}
        /\ store' = store
        /\ request.op = "stop"
        /\ Here(request) # {}
    BY <1>0, <1>3, ThreadFields DEF StopJob
  <2>2. thread'[d][c].request = request
    BY <1>0, <2>1, ThreadFields
  <2>3. request.generation = store.generation => \A j \in Job : store.job[j] # "active"
    BY <2>1 DEF Here, Exists
  <2>4. QED
    BY <2>1, <2>2, <2>3 DEF Promise
<1>4. CASE ForgetOne(d, c)
  <2>1. /\ request.key \in Job
        /\ store.job[request.key] = "ended"
        /\ store' = ForgetJob(store, request.key)
        /\ thread'[d][c].request = request
        /\ request.op = "forget"
    BY <1>0, <1>4, ThreadFields DEF ForgetOne, Here
  <2>2. store'.job[request.key] = "forgotten"
    <3>1. PICK j \in Job : j = request.key
      BY <2>1
    <3>2. ForgetJob(store, j).job = [store.job EXCEPT ![j] = "forgotten"]
      BY <1>0, <2>1, <3>1, ForgetJobStep
    <3>3. store.job \in [Job -> JobStates]
      BY <1>0 DEF Store, JobStates
    <3>4. QED
      BY <2>1, <3>1, <3>2, <3>3
  <2>3. QED
    BY <2>1, <2>2, KeyTypes DEF Promise
<1>41. CASE ForgetEntity(d, c)
  <2>1. /\ Here(request) # {}
        /\ \A j \in Here(request) : store.job[j] = "ended"
        /\ store' = ForgetGroup(store)
        /\ thread'[d][c].request = request
        /\ request.op = "forget"
    BY <1>0, <1>41, ThreadFields DEF ForgetEntity
  <2>2. \A j \in Job : store.job[j] \in {"ended", "forgotten"}
    <3>1. store.job \in [Job -> JobStates]
      BY <1>0 DEF Store, JobStates
    <3>2. QED
      BY <2>1, <3>1 DEF Here, Exists, TableInv, JobStates
  <2>3. \A j \in Job : store'.job[j] = "forgotten"
    BY <1>0, <2>1, <2>2, ForgetGroupStep
  <2>4. QED
    BY <2>1, <2>3 DEF Promise
<1>5. CASE RememberResult(d, c)
  <2>1. /\ thread'[d][c].request = request
        /\ thread[d][c].pc = "remember"
        /\ store' = Remember(store, request.generation, request.key)
    BY <1>0, <1>5, ThreadFields DEF RememberResult
  <2>2. store' = store \/ StoreStep(store, store')
    BY StoreNext
  <2>3. Promise(store, request) /\ request.generation <= store.generation
    BY <1>0, <2>1 DEF AnswerInv
  <2>4. QED
    BY <1>0, <2>1, <2>2, <2>3, PromiseStable, StoreNext
<1>6. ~Answer(d, c)
  BY <1>0, OffFields DEF Answer
<1>7. QED
  BY <1>1, <1>2, <1>3, <1>4, <1>41, <1>5, <1>6 DEF ThreadStep

LEMMA TableNext ==
  ASSUME TypeInv, KeysMatch, TableInv, AnswerInv, [Next]_vars
  PROVE  TableInv'
<1>0. store \in Store /\ store.generation \in Nat /\ store.job \in [Job -> JobStates]
  BY DEF TypeInv, TypeOK, Store, JobStates
<1>1. CASE UNCHANGED store
  BY <1>1 DEF TableInv
<1>2. ASSUME NEW j \in Job, NEW state \in {"asked", "ended"},
             store' = UpdateJob(store, j, state)
      PROVE  TableInv'
  <2>1. /\ store'.generation = store.generation
        /\ store'.remembered = store.remembered
        /\ \A i \in Job : \/ store'.job[i] = store.job[i]
                          \/ /\ store.job[i] \in {"active", "asked"}
                             /\ store'.job[i] \in {"asked", "ended"}
    BY <1>0, <1>2 DEF UpdateJob, Store
  <2>2. QED
    BY <2>1 DEF TableInv
<1>3. ASSUME NEW d \in Daemon, NEW c \in Client, Launch(d, c)
      PROVE  TableInv'
  <2>1. store' = store \/ NewEntity(store, store')
    BY <1>0, <1>3, CreateLaunchStep DEF Launch
  <2>2. CASE NewEntity(store, store')
    BY <2>2, KeyTypes DEF NewEntity, TableInv
  <2>3. QED
    BY <1>1, <2>1, <2>2
<1>4. ASSUME NEW d \in Daemon, NEW c \in Client, ForgetOne(d, c)
      PROVE  TableInv'
  <2>1. \/ store' = store
        \/ \E j \in Job : store.job[j] = "ended" /\ store' = ForgetJob(store, j)
    BY <1>4 DEF ForgetOne, Here
  <2>2. ASSUME NEW j \in Job, store.job[j] = "ended", store' = ForgetJob(store, j)
        PROVE  TableInv'
    <3>1. /\ store'.job = [store.job EXCEPT ![j] = "forgotten"]
          /\ store'.remembered = store.remembered \ {"launch", "stop", j}
      BY <1>0, <2>2, ForgetJobStep
    <3>2. store'.job[j] = "forgotten" /\ \A i \in Job : i # j => store'.job[i] = store.job[i]
      BY <1>0, <3>1
    <3>3. /\ "launch" \notin store'.remembered
          /\ "stop" \notin store'.remembered
          /\ "forget" \notin store'.remembered
      BY <2>2, <3>1 DEF TableInv
    <3>4. \A i \in Job : i \in store'.remembered => store'.job[i] = "forgotten"
      BY <3>1, <3>2 DEF TableInv
    <3>5. \A i \in Job : store'.job[i] # "none"
      BY <2>2, <3>2 DEF TableInv
    <3>6. QED
      BY <3>2, <3>3, <3>4, <3>5 DEF TableInv
  <2>3. QED
    BY <1>1, <2>1, <2>2
<1>41. ASSUME NEW d \in Daemon, NEW c \in Client, ForgetEntity(d, c)
       PROVE  TableInv'
  <2>1. CASE UNCHANGED store
    BY <1>1, <2>1
  <2>2. ASSUME Here(RequestOf(d, c)) # {}, \A j \in Here(RequestOf(d, c)) : store.job[j] = "ended",
               store' = ForgetGroup(store)
        PROVE  TableInv'
    <3>1. /\ \A j \in Job : store'.job[j] =
               IF store.job[j] = "ended" THEN "forgotten" ELSE store.job[j]
          /\ store'.remembered = store.remembered \ {"launch", "stop", "forget"}
          /\ store'.generation = store.generation
      BY <1>0, <2>2, ForgetGroupStep DEF SameEntity
    <3>2. \E j \in Job : store.job[j] = "ended"
      BY <2>2 DEF Here
    <3>3. /\ "launch" \notin store'.remembered
          /\ "stop" \notin store'.remembered
          /\ "forget" \notin store'.remembered
      BY <3>1
    <3>4. \A i \in Job : i \in store'.remembered => store'.job[i] = "forgotten"
      BY <3>1 DEF TableInv
    <3>5. \A i \in Job : store'.job[i] # "none"
      BY <3>1, <3>2 DEF TableInv
    <3>6. \E j \in Job : store'.job[j] = "forgotten"
      BY <3>1, <3>2
    <3>7. QED
      BY <3>3, <3>4, <3>5, <3>6 DEF TableInv
  <2>3. QED
    BY <1>41, <2>1, <2>2 DEF ForgetEntity
<1>5. ASSUME NEW d \in Daemon, NEW c \in Client, RememberResult(d, c)
      PROVE  TableInv'
  <2> DEFINE request == RequestOf(d, c)
  <2>1. /\ store' = Remember(store, request.generation, request.key)
        /\ request.op \in {"stop", "forget"}
        /\ KeyMatches(request)
        /\ Promise(store, request)
    BY <1>5 DEF RememberResult, RequestOf, KeysMatch, AnswerInv, Destructive
  <2>2. request.key \in Key
    BY <2>1 DEF KeyMatches, Key
  <2>3. /\ store'.job = store.job
        /\ store'.generation = store.generation
        /\ store'.remembered = IF request.generation = store.generation
                                 THEN store.remembered \cup {request.key}
                                 ELSE store.remembered
    BY <1>0, <2>1 DEF Remember, Store
  <2>4. QED
    BY <2>1, <2>3, KeyTypes DEF TableInv, Promise, KeyMatches
<1>6. ASSUME NEW d \in Daemon, NEW c \in Client, StopJob(d, c)
      PROVE  TableInv'
  BY <1>1, <1>2, <1>6 DEF StopJob, Here
<1>7. ASSUME NEW d \in Daemon, DaemonStep(d) \/ Stop(d) \/ Kill(d)
      PROVE  UNCHANGED store
  BY <1>7, DaemonLeaves
<1>8. ASSUME NEW c \in Client, ClientAction(c)
      PROVE  UNCHANGED store
  BY <1>8, ClientOwnMoves
<1>9. QED
  BY <1>1, <1>2, <1>3, <1>4, <1>41, <1>5, <1>6, <1>7, <1>8
  DEF Next, ClientAction, ThreadStep, Dispatch, Answer, JobEnds, vars

LEMMA ClientAnswers ==
  ASSUME TypeInv, KeysMatch, AnswerInv, [Next]_vars, NEW c \in Client, RestartInv(c)
  PROVE  /\ client'[c].request.generation <= store'.generation
         /\ client'[c].result = "ok" => Promise(store', client'[c].request)
<1>0. /\ client \in [Client -> Calling]
      /\ store \in Store /\ store.generation \in Nat
      /\ client[c].request \in Request /\ KeyMatches(client[c].request)
      /\ client[c].request.generation <= store.generation
  BY DEF TypeInv, TypeOK, Store, Calling, KeysMatch, AnswerInv
<1>1. /\ store' \in Store /\ store'.generation \in Nat
      /\ store' = store \/ StoreStep(store, store')
      /\ store.generation <= store'.generation
  BY <1>0, StoreNext DEF Store, StoreStep, SameEntity, NewEntity
<1>2. ASSUME NEW request \in Request, KeyMatches(request),
             request.generation <= store.generation
      PROVE  /\ request.generation <= store'.generation
             /\ Promise(store, request) => Promise(store', request)
  BY <1>0, <1>1, <1>2, PromiseStable
<1>3. client'[c].request.generation <= store'.generation
  <2>1. NoRequest.generation = 0
    BY DEF NoRequest
  <2>2. client'[c].request \in Request => client'[c].request.generation \in Nat
    BY DEF Request
  <2>3. client'[c].request \in Request
    BY TypeNext DEF TypeInv, TypeOK, Calling
  <2>4. QED
    BY <1>0, <1>1, <2>1, <2>2, <2>3, RequestMoves
<1>4. ASSUME client'[c].result = "ok"
      PROVE  \/ /\ client[c].result = "ok"
                /\ client'[c].request = client[c].request
             \/ /\ Promise(store, client[c].request)
                /\ client'[c].request = client[c].request
  <2>1. CASE Left(c)
    BY <1>4, <2>1 DEF Left
  <2>2. CASE ClientAction(c)
    BY <1>4, <2>2, LockOfClient DEF Children, RestartInv
  <2>3. ASSUME NEW d \in Daemon, ThreadStep(d, c)
        PROVE  \/ /\ client[c].result = "ok"
                  /\ client'[c].request = client[c].request
               \/ /\ Promise(store, client[c].request)
                  /\ client'[c].request = client[c].request
    <3>1. CASE client'[c] = client[c]
      BY <1>4, <3>1
    <3>2. CASE Answer(d, c) /\ client'[c] # client[c]
      <4>1. /\ client[c].pc = "sent"
            /\ client[c].conn = d
            /\ thread[d][c].pc = "ok"
            /\ client'[c] = [client[c] EXCEPT !.pc = "idle", !.result = "ok"]
        <5>1. /\ client[c].conn = d
              /\ client[c].pc \in {"sent", "quiet", "checksent"}
          BY <3>2 DEF Answer, Waiting
        <5>2. client'[c] # [Idle EXCEPT !.result = "failed"]
          BY <1>4 DEF Idle
        <5>3. client[c].result = ""
          BY <5>1 DEF RestartInv
        <5>4. client' # [client EXCEPT ![c].pc = "check", ![c].conn = None]
          BY <1>0, <1>4, <5>3 DEF Calling
        <5>5. QED
          BY <1>0, <3>2, <5>1, <5>2, <5>4 DEF Answer
      <4>2. client'[c].request = client[c].request
        BY <1>0, <4>1 DEF Calling
      <4>3. thread[d][c].request = client[c].request /\ Promise(store, thread[d][c].request)
        BY <4>1 DEF AnswerInv
      <4>4. QED
        BY <4>2, <4>3
    <3>3. QED
      BY <2>3, <3>1, <3>2, ThreadOwnMoves
  <2>4. QED
    BY <2>1, <2>2, <2>3, Moves
<1>5. QED
  BY <1>0, <1>2, <1>3, <1>4 DEF AnswerInv

LEMMA ThreadAnswers ==
  ASSUME TypeInv, KeysMatch, TableInv, AnswerInv, [Next]_vars, NEW d \in Daemon,
         NEW c \in Client
  PROVE  /\ thread'[d][c].request.generation <= store'.generation
         /\ thread'[d][c].pc \in {"remember", "ok"} => Promise(store', thread'[d][c].request)
<1>0. /\ store \in Store /\ store.generation \in Nat
      /\ thread[d][c].request \in Request /\ KeyMatches(thread[d][c].request)
      /\ thread[d][c].request.generation <= store.generation
      /\ client[c].request.generation <= store.generation
      /\ client[c].request \in Request
  <2>1. /\ client \in [Client -> Calling]
        /\ thread \in [Daemon -> [Client -> Threads]]
        /\ store \in Store
    BY DEF TypeInv, TypeOK, Threads
  <2>2. client[c].request \in Request /\ thread[d][c].request \in Request
    BY <2>1 DEF Calling, Threads
  <2>3. /\ KeyMatches(thread[d][c].request)
        /\ thread[d][c].request.generation <= store.generation
        /\ client[c].request.generation <= store.generation
    BY DEF KeysMatch, AnswerInv
  <2>4. QED
    BY <2>1, <2>2, <2>3 DEF Store
<1>1. /\ store' \in Store /\ store'.generation \in Nat
      /\ store' = store \/ StoreStep(store, store')
      /\ store.generation <= store'.generation
  BY <1>0, StoreNext DEF Store, StoreStep, SameEntity, NewEntity
<1>2. /\ NoRequest.generation = 0
      /\ [NoRequest EXCEPT !.op = "shutdown"].generation = 0
      /\ NoThread.request.generation = 0
      /\ NoThread.pc = "off"
  BY DEF NoRequest, NoThread
<1>3. thread'[d][c].request.generation <= store'.generation
  <2>1. \/ thread'[d][c].request.generation = thread[d][c].request.generation
        \/ thread'[d][c].request.generation = client[c].request.generation
        \/ thread'[d][c].request.generation = 0
    BY <1>2, ThreadMoves
  <2>2. /\ thread[d][c].request.generation \in Nat
        /\ client[c].request.generation \in Nat
    BY <1>0 DEF Request
  <2>3. QED
    BY <1>0, <1>1, <2>1, <2>2
<1>4. ASSUME thread'[d][c].pc \in {"remember", "ok"}
      PROVE  Promise(store', thread'[d][c].request)
  <2>1. CASE ThreadStep(d, c)
    BY <1>4, <2>1, ThreadPromises
  <2>2. CASE thread'[d][c] = thread[d][c]
    <3>1. Promise(store, thread[d][c].request)
      BY <1>4, <2>2 DEF AnswerInv
    <3>2. QED
      BY <1>0, <1>1, <2>2, <3>1, PromiseStable
  <2>3. QED
    BY <1>2, <1>4, <2>1, <2>2, ThreadMoves
<1>5. QED
  BY <1>3, <1>4

\* An answer is that of the request the client waits for.
LEMMA AnswersMatch ==
  ASSUME TypeInv, AnswerInv, [Next]_vars, NEW d \in Daemon, NEW c \in Client,
         client'[c].pc = "sent", client'[c].conn = d, thread'[d][c].pc # "off"
  PROVE  thread'[d][c].request = client'[c].request
<1>0. client \in [Client -> Calling] /\ NoThread.pc = "off"
  BY DEF TypeInv, TypeOK, NoThread
<1>1. CASE Left(c)
  BY <1>0, <1>1 DEF Left, AnswerInv
<1>2. CASE ClientAction(c)
  <2>1. ASSUME Connectable, Send(c)
        PROVE  thread'[d][c].request = client'[c].request
    <3>1. /\ client'[c].conn = socket.owner
          /\ client'[c].request = client[c].request
      BY <1>0, <2>1 DEF Send, Calling
    <3>2. Serve(d, c, client[c].request) /\ client[c].request \in Request
      BY <1>0, <2>1, <3>1 DEF Send, Calling
    <3>3. thread'[d][c] = [pc |-> "accepted", request |-> client[c].request]
      BY <3>2, ServeFields
    <3>4. QED
      BY <3>1, <3>3
  <2>2. ASSUME NEW why, Raise(c, why)
        PROVE  FALSE
    BY <2>2, RaiseValue DEF Idle
  <2>3. ASSUME ~(Connectable /\ Send(c))
        PROVE  client'[c].pc # "sent"
    <3>1. CASE Begin(c) \/ BeginRestart(c)
      BY <1>0, <3>1 DEF Begin, BeginRestart, Idle
    <3>2. CASE Connect(c) \/ Retry(c)
      BY <1>0, <2>2, <2>3, <3>2 DEF Connect, Retry, Goto, Calling
    <3>3. CASE TakeStartLock(c) \/ Await(c)
      BY <1>0, <2>2, <3>3 DEF TakeStartLock, Await, Goto, Calling
    <3>4. CASE Probe(c)
      BY <1>0, <2>2, <3>4 DEF Probe, Popen, Goto, Calling
    <3>5. CASE Check(c)
      BY <1>0, <3>5 DEF Check, Goto, Calling
    <3>6. CASE Lost(c)
      BY <1>0, <3>6 DEF Lost, Idle, Calling
    <3>7. CASE Timeout(c)
      <4>1. client' = [client EXCEPT ![c] = [Idle EXCEPT !.result = "failed"]]
        BY <2>2, <3>7 DEF Timeout
      <4>2. QED
        BY <1>0, <4>1 DEF Idle
    <3>8. QED
      BY <1>2, <3>1, <3>2, <3>3, <3>4, <3>5, <3>6, <3>7 DEF ClientAction, ClientStep
  <2>4. QED
    BY <2>1, <2>3
<1>3. ASSUME NEW e \in Daemon, ThreadStep(e, c)
      PROVE  thread'[d][c].request = client'[c].request
  <2>1. client'[c] = client[c]
    <3>1. CASE Answer(e, c) /\ client'[c] # client[c]
      <4>1. \/ client'[c] = [client[c] EXCEPT !.pc = "idle", !.result = "ok"]
            \/ client'[c] = [Idle EXCEPT !.result = "failed"]
            \/ client' = [client EXCEPT ![c].pc = "check", ![c].conn = None]
        BY <1>0, <3>1 DEF Answer
      <4>2. QED
        BY <1>0, <4>1 DEF Idle, Calling
    <3>2. QED
      BY <1>3, <3>1, ThreadOwnMoves
  <2>2. \/ thread'[d][c] = thread[d][c]
        \/ thread'[d][c].request = thread[d][c].request /\ thread[d][c].pc # "off"
    <3>1. CASE e = d
      <4>1. thread[d][c].pc # "off"
        BY <1>3, <3>1 DEF ThreadStep, Dispatch, Launch, StopJob, ForgetOne, ForgetEntity,
                          RememberResult, Answer
      <4>2. \/ UNCHANGED thread
            \/ \E pc \in ThreadPcs : Thread(d, c, pc)
            \/ thread' = [thread EXCEPT ![d][c] = NoThread]
        BY <1>3, <3>1 DEF ThreadStep, Dispatch, Launch, StopJob, ForgetOne, ForgetEntity,
                          RememberResult, Answer, LookedUp, ThreadPcs
      <4>3. QED
        BY <1>0, <4>1, <4>2, ThreadFields, OffFields
    <3>2. CASE e # d
      BY <1>3, <3>2, ThreadOwnMoves
    <3>3. QED
      BY <3>1, <3>2
  <2>3. QED
    BY <2>1, <2>2 DEF AnswerInv
<1>4. QED
  BY <1>1, <1>2, <1>3, Moves

RequestInv == TableInv /\ AnswerInv

LEMMA RequestInit == Init => RequestInv
<1> SUFFICES ASSUME Init
             PROVE  RequestInv
  OBVIOUS
<1>1. /\ store.generation = 0 /\ store.remembered = {}
      /\ \A j \in Job : store.job[j] = "none"
      /\ \A c \in Client : client[c] = Idle
      /\ \A d \in Daemon, c \in Client : thread[d][c] = NoThread
  BY DEF Init, EmptyStore
<1>2. TableInv
  BY <1>1 DEF TableInv
<1>3. ASSUME NEW c \in Client
      PROVE  /\ client[c].request.generation = 0
             /\ client[c].result # "ok" /\ client[c].pc # "sent"
  <2>1. client[c] = Idle
    BY <1>1, <1>3
  <2>2. /\ Idle.request.generation = 0 /\ Idle.result = "" /\ Idle.pc = "idle"
    BY DEF Idle, NoRequest
  <2>3. QED
    BY <2>1, <2>2
<1>4. ASSUME NEW d \in Daemon, NEW c \in Client
      PROVE  thread[d][c].request.generation = 0 /\ thread[d][c].pc = "off"
  <2>1. thread[d][c] = NoThread
    BY <1>1, <1>4
  <2>2. NoThread.request.generation = 0 /\ NoThread.pc = "off"
    BY DEF NoThread, NoRequest
  <2>3. QED
    BY <2>1, <2>2
<1>5. AnswerInv
  <2>1. 0 <= 0
    OBVIOUS
  <2>2. QED
    BY <1>1, <1>3, <1>4, <2>1 DEF AnswerInv
<1>6. QED
  BY <1>2, <1>5 DEF RequestInv

LEMMA RequestNext == BaseInv /\ RequestInv /\ [Next]_vars => RequestInv'
<1> SUFFICES ASSUME BaseInv, RequestInv, [Next]_vars
             PROVE  RequestInv'
  OBVIOUS
<1>0. /\ TypeInv /\ KeysMatch /\ TableInv /\ AnswerInv
      /\ \A c \in Client : RestartInv(c)
  BY DEF BaseInv, Restarts, RequestInv
<1>1. TableInv'
  BY <1>0, TableNext
<1>2. ASSUME NEW c \in Client
      PROVE  /\ client'[c].request.generation <= store'.generation
             /\ client'[c].result = "ok" => Promise(store', client'[c].request)
  BY <1>0, ClientAnswers
<1>3. ASSUME NEW d \in Daemon, NEW c \in Client
      PROVE  /\ thread'[d][c].request.generation <= store'.generation
             /\ thread'[d][c].pc \in {"remember", "ok"} =>
                  Promise(store', thread'[d][c].request)
             /\ client'[c].pc = "sent" /\ client'[c].conn = d /\ thread'[d][c].pc # "off" =>
                  thread'[d][c].request = client'[c].request
  BY <1>0, ThreadAnswers, AnswersMatch
<1>4. AnswerInv'
  BY <1>2, <1>3 DEF AnswerInv
<1>5. QED
  BY <1>1, <1>4 DEF RequestInv

\* What the table answers with is there: the key of a launch never outlives a job of
\* its entity, so that a retry of the launch finds all of it (create_launch,
\* forget_job); for any number of clients, daemons, kills and jobs.
THEOREM ReplaysResolve == Spec => []ReplayResolves
<1>1. RequestInv => ReplayResolves
  BY DEF RequestInv, TableInv, ReplayResolves, Exists
<1>2. QED
  BY <1>1, BaseInit, BaseNext, RequestInit, RequestNext, PTL DEF Spec

\* A success is one, replayed or not: of what a client was told is forgotten nothing
\* is left, and of what it was told is stopped nothing runs unasked, whatever call
\* crashed halfway and was retried at another daemon (_stop, _forget,
\* remember_idempotency).
THEOREM AnswersAreTrue == Spec => []AnswersTrue
<1>1. RequestInv => AnswersTrue
  BY DEF RequestInv, AnswerInv, Promise, AnswersTrue
<1>2. QED
  BY <1>1, BaseInit, BaseNext, RequestInit, RequestNext, PTL DEF Spec

\* While an entity is whole a retry of its launch finds it, over crashes, restarts,
\* concurrent retries and an old daemon that lingers: a second one is created only
\* after a job of the first was forgotten (create_launch, forget_job, forget_group).
THEOREM RelaunchesNeedForget == Spec => RelaunchNeedsForget
<1>1. ASSUME BaseInv, RequestInv, [Next]_vars, store'.generation # store.generation
      PROVE  store.generation = 0 \/ \E j \in Job : store.job[j] = "forgotten"
  <2>1. TypeInv /\ KeysMatch /\ TableInv /\ store.generation \in Nat
    BY <1>1 DEF BaseInv, RequestInv, TypeInv, TypeOK, Store
  <2>2. NewEntity(store, store')
    BY <1>1, <2>1, StoreNext DEF StoreStep, SameEntity
  <2>3. QED
    BY <2>1, <2>2 DEF NewEntity, TableInv
<1>2. BaseInv /\ RequestInv /\ [Next]_vars =>
        [store'.generation # store.generation =>
           store.generation = 0 \/ \E j \in Job : store.job[j] = "forgotten"]_vars
  BY <1>1
<1>3. QED
  BY <1>2, BaseInit, BaseNext, RequestInit, RequestNext, PTL DEF Spec, RelaunchNeedsForget

=============================================================================
