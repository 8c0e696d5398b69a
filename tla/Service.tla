------------------------------- MODULE Service -------------------------------
(***************************************************************************)
(* The broker as a service: clients that start its daemon when none        *)
(* answers, daemons of which one at a time owns the state directory, and   *)
(* requests that are retried when a daemon is shut down, restarted or      *)
(* killed under them.                                                      *)
(*                                                                         *)
(* client.py, daemon.py, `om restart` of cli.py, and of broker.py the      *)
(* order in which a request looks up, acts and remembers.                  *)
(***************************************************************************)
EXTENDS RequestStore

CONSTANTS
  Client,     \* processes that call the broker
  Daemons,    \* bound: processes that may be started as its daemon
  MaxCalls,   \* bound: calls of all clients
  MaxFaults   \* bound: daemons that are killed

ASSUME BoundsAssumption == {Daemons, MaxCalls, MaxFaults} \subseteq Nat

Daemon == 1 .. Daemons
None == 0   \* no daemon

VARIABLES
  lock,       \* who holds daemon.lock
  socket,     \* overmind.sock: whose it is, and may only its user open it?
  daemon,     \* how far each daemon is
  startLock,  \* which client holds daemon-start.lock
  client,
  thread,     \* of each daemon, the thread that serves a client
  store,
  calls, faults,
  disturbed   \* history: a daemon was stopped or killed, or a call raised

files == <<lock, socket, startLock>>
bounds == <<calls, faults>>
vars == <<files, daemon, client, thread, store, bounds, disturbed>>

-----------------------------------------------------------------------------
NoClient == "none"
ASSUME ClientAssumption == NoClient \notin Client

NoSocket == [owner |-> None, private |-> TRUE]

DaemonPcs == {"unborn", "born", "locked", "stale", "clear", "bound", "serving", "told",
              "closing", "unlinked", "released", "gone"}

Ops == {"launch", "stop", "forget", "restart", "shutdown", "doctor"}
Request == [op : Ops, generation : Nat, key : Key \cup {""}]
NoRequest == [op |-> "doctor", generation |-> 0, key |-> ""]

\* restart: is the call an `om restart`, and old the daemon it shuts down?  A call
\* that is over leaves its result, and an answered one its request and connection.
Calling == [pc : {"idle", "connect", "startlock", "probe", "await", "retry", "sent",
                  "quiet", "check", "checksent"},
            request : Request, restart : BOOLEAN,
            conn : {None} \cup Daemon, child : {None} \cup Daemon,
            old : {None} \cup Daemon,
            result : {"", "ok", "exited", "failed"}]

Idle == [pc |-> "idle", request |-> NoRequest, restart |-> FALSE, conn |-> None,
         child |-> None, old |-> None, result |-> ""]

ThreadPcs == {"off", "accepted", "act", "remember", "ok", "refused"}
NoThread == [pc |-> "off", request |-> NoRequest]

TypeOK ==
  /\ lock \in {None} \cup Daemon
  /\ socket \in [owner : {None} \cup Daemon, private : BOOLEAN]
  /\ daemon \in [Daemon -> DaemonPcs]
  /\ startLock \in {NoClient} \cup Client
  /\ client \in [Client -> Calling]
  /\ thread \in [Daemon -> [Client -> [pc : ThreadPcs, request : Request]]]
  /\ store \in Store
  /\ calls \in 0 .. MaxCalls /\ faults \in 0 .. MaxFaults
  /\ disturbed \in BOOLEAN

Init ==
  /\ lock = None /\ socket = NoSocket /\ startLock = NoClient
  /\ daemon = [d \in Daemon |-> "unborn"]
  /\ client = [c \in Client |-> Idle]
  /\ thread = [d \in Daemon |-> [c \in Client |-> NoThread]]
  /\ store = EmptyStore
  /\ calls = 0 /\ faults = 0
  /\ disturbed = FALSE

-----------------------------------------------------------------------------
(* The daemon. *)

To(d, pc) == daemon' = [daemon EXCEPT ![d] = pc]

\* "told" is between the answer to a shutdown and the stop event.
Listening(d) == daemon[d] \in {"serving", "told"}

\* Mutation: a daemon that lost the race tidies up on its way out.
AcquireSingletonTidily(d) ==
  /\ daemon[d] = "born"
  /\ IF lock = None THEN lock' = d /\ To(d, "locked") /\ UNCHANGED socket
                    ELSE socket' = NoSocket /\ To(d, "gone") /\ UNCHANGED lock
  /\ UNCHANGED <<startLock, client, thread, store, bounds, disturbed>>

\* _acquire_singleton: without waiting; who comes second exits.
AcquireSingleton(d) ==
  /\ daemon[d] = "born"
  /\ IF lock = None THEN lock' = d /\ To(d, "locked")
                    ELSE To(d, "gone") /\ UNCHANGED lock
  /\ UNCHANGED <<socket, startLock, client, thread, store, bounds, disturbed>>

\* _prepare_socket, after Broker(recover=True) and the time it takes: a socket that is
\* there and does not answer is stale; one that does is somebody else's.
ProbeSocket(d) ==
  /\ daemon[d] = "locked"
  /\ CASE socket.owner = None -> To(d, "clear") /\ UNCHANGED lock
       [] socket.owner # None /\ ~Listening(socket.owner) ->
            To(d, "stale") /\ UNCHANGED lock
       [] OTHER -> To(d, "gone") /\ lock' = None
  /\ UNCHANGED <<socket, startLock, client, thread, store, bounds, disturbed>>

UnlinkStale(d) ==
  /\ daemon[d] = "stale"
  /\ socket' = NoSocket
  /\ To(d, "clear")
  /\ UNCHANGED <<lock, startLock, client, thread, store, bounds, disturbed>>

\* The umask of whoever started the daemon decides about the mode, until chmod.
Bind(d) ==
  /\ daemon[d] = "clear"
  /\ socket.owner = None
  /\ \E private \in BOOLEAN : socket' = [owner |-> d, private |-> private]
  /\ To(d, "bound")
  /\ UNCHANGED <<lock, startLock, client, thread, store, bounds, disturbed>>

\* chmod and listen; until then a connection is refused anyway.
Listen(d) ==
  /\ daemon[d] = "bound"
  /\ socket' = [socket EXCEPT !.private = TRUE]
  /\ To(d, "serving")
  /\ UNCHANGED <<lock, startLock, client, thread, store, bounds, disturbed>>

\* The stop event and the end of the listening socket, after a shutdown or by a
\* SIGTERM.  (One that comes before the daemon serves takes effect then.)
Stop(d) ==
  /\ Listening(d)
  /\ To(d, "closing")
  /\ disturbed' = TRUE
  /\ UNCHANGED <<files, client, thread, store, bounds>>

\* close(): connections are shut and threads waited for, two seconds at most; then
\* the socket is unlinked, and then the lock is released.
Unlink(d) ==
  /\ daemon[d] = "closing"
  /\ socket' = NoSocket
  /\ To(d, "unlinked")
  /\ UNCHANGED <<lock, startLock, client, thread, store, bounds, disturbed>>

Release(d) ==
  /\ daemon[d] = "unlinked"
  /\ lock' = None
  /\ To(d, "released")
  /\ UNCHANGED <<socket, startLock, client, thread, store, bounds, disturbed>>

\* The interpreter waits for the threads that launch, so the process may outlive
\* its lock; its other threads end with it.
Exit(d) ==
  /\ daemon[d] = "released"
  /\ To(d, "gone")
  /\ thread' = [thread EXCEPT ![d] = [c \in Client |-> NoThread]]
  /\ UNCHANGED <<files, client, store, bounds, disturbed>>

\* SIGKILL: the kernel releases the lock, the path stays.
Kill(d) ==
  /\ daemon[d] \notin {"unborn", "gone"}
  /\ faults < MaxFaults
  /\ faults' = faults + 1
  /\ To(d, "gone")
  /\ lock' = IF lock = d THEN None ELSE lock
  /\ thread' = [thread EXCEPT ![d] = [c \in Client |-> NoThread]]
  /\ disturbed' = TRUE
  /\ UNCHANGED <<socket, startLock, client, store, calls>>

DaemonStep(d) ==
  \/ AcquireSingleton(d) \/ ProbeSocket(d) \/ UnlinkStale(d)
  \/ Bind(d) \/ Listen(d)
  \/ Unlink(d) \/ Release(d) \/ Exit(d)

-----------------------------------------------------------------------------
(* The client. *)

\* _connect_once: it raises of a socket that others could open, is refused when
\* nobody listens, or has a connection.
Unsafe == socket.owner # None /\ ~socket.private
Connectable == socket.owner # None /\ socket.private /\ Listening(socket.owner)
Refused == ~Unsafe /\ ~Connectable

Goto(c, pc) == client' = [client EXCEPT ![c].pc = pc]

\* A connection, and the request goes out on it.
Serve(d, c, request) ==
  thread' = [thread EXCEPT ![d][c] = [pc |-> "accepted", request |-> request]]

Send(c) ==
  /\ client' = [client EXCEPT ![c].pc = "sent", ![c].conn = socket.owner]
  /\ Serve(socket.owner, c, client[c].request)

\* The call raises, whatever lock it holds is closed; `om restart` tries again.
Raise(c, why) ==
  /\ client' = [client EXCEPT ![c] =
                  IF @.restart THEN [Idle EXCEPT !.pc = "connect", !.restart = TRUE,
                                                 !.old = client[c].old]
                  ELSE [Idle EXCEPT !.result = IF why = "exited" THEN why ELSE "failed"]]
  /\ startLock' = IF startLock = c THEN NoClient ELSE startLock
  /\ disturbed' = (disturbed \/ why # "exited")

\* request(): a launch, or the stop or forgetting of what it created.
Begin(c) ==
  /\ client[c].pc = "idle"
  /\ calls < MaxCalls
  /\ calls' = calls + 1
  /\ \E op \in {"launch", "stop", "forget"}, key \in Key :
       /\ key = op \/ (op = "forget" /\ key \in Job)
       /\ op # "launch" => store.generation > 0
       /\ client' = [client EXCEPT ![c] =
            [Idle EXCEPT !.pc = "connect",
                         !.request = [op |-> op, key |-> key,
                                      generation |-> IF op = "launch" THEN 0
                                                     ELSE store.generation]]]
  /\ UNCHANGED <<files, daemon, thread, store, faults, disturbed>>

\* _restart(): a shutdown, without starting anything for it.
BeginRestart(c) ==
  /\ client[c].pc = "idle"
  /\ calls < MaxCalls
  /\ calls' = calls + 1
  /\ IF Connectable
       THEN /\ client' = [client EXCEPT ![c] =
                 [Idle EXCEPT !.pc = "quiet", !.restart = TRUE,
                              !.conn = socket.owner, !.old = socket.owner]]
            /\ Serve(socket.owner, c, [NoRequest EXCEPT !.op = "shutdown"])
       ELSE /\ client' = [client EXCEPT ![c] =
                 [Idle EXCEPT !.pc = "connect", !.restart = TRUE]]
            /\ UNCHANGED thread
  /\ UNCHANGED <<files, daemon, store, faults, disturbed>>

\* Mutation: once the shutdown is answered, the old daemon is taken to be gone.
CheckNothing(c) ==
  /\ client[c].pc = "check"
  /\ Goto(c, "connect") /\ UNCHANGED thread
  /\ UNCHANGED <<files, daemon, startLock, store, bounds, disturbed>>

\* It asks until the old daemon does not answer any more.
Check(c) ==
  /\ client[c].pc = "check"
  /\ IF Connectable
       THEN /\ client' = [client EXCEPT ![c].pc = "checksent", ![c].conn = socket.owner]
            /\ Serve(socket.owner, c, NoRequest)
       ELSE Goto(c, "connect") /\ UNCHANGED thread
  /\ UNCHANGED <<files, daemon, store, bounds, disturbed>>

\* _connect: the first attempt.
Connect(c) ==
  /\ client[c].pc = "connect"
  /\ \/ Connectable /\ Send(c) /\ UNCHANGED <<startLock, disturbed>>
     \/ Unsafe /\ Raise(c, "unsafe") /\ UNCHANGED thread
     \/ Refused /\ Goto(c, "startlock") /\ UNCHANGED <<thread, startLock, disturbed>>
  /\ UNCHANGED <<lock, socket, daemon, store, bounds>>

\* _start_daemon: one client at a time.
TakeStartLock(c) ==
  /\ client[c].pc = "startlock"
  /\ startLock = NoClient
  /\ startLock' = c
  /\ Goto(c, "probe")
  /\ UNCHANGED <<lock, socket, daemon, thread, store, bounds, disturbed>>

Unborn == {d \in Daemon : daemon[d] = "unborn"}

\* Mutation: the start lock is kept until the process is started, and no longer.
PopenUnlocked(c) ==
  IF Unborn = {}
    THEN Raise(c, "timeout") /\ UNCHANGED daemon
    ELSE LET d == CHOOSE n \in Unborn : \A m \in Unborn : n <= m IN
         /\ To(d, "born")
         /\ client' = [client EXCEPT ![c].pc = "await", ![c].child = d]
         /\ startLock' = NoClient
         /\ UNCHANGED disturbed

\* Processes are started in order.  (When the bound is used up, the call fails.)
Popen(c) ==
  IF Unborn = {}
    THEN Raise(c, "timeout") /\ UNCHANGED daemon
    ELSE LET d == CHOOSE n \in Unborn : \A m \in Unborn : n <= m IN
         /\ To(d, "born")
         /\ client' = [client EXCEPT ![c].pc = "await", ![c].child = d]
         /\ UNCHANGED <<startLock, disturbed>>

\* Another client may have started it meanwhile.
Probe(c) ==
  /\ client[c].pc = "probe"
  /\ \/ /\ Connectable /\ startLock' = NoClient /\ Goto(c, "retry")
        /\ UNCHANGED <<daemon, disturbed>>
     \/ Unsafe /\ Raise(c, "unsafe") /\ UNCHANGED daemon
     \/ Refused /\ Popen(c)
  /\ UNCHANGED <<lock, socket, thread, store, bounds>>

\* The start lock is kept until the daemon accepts connections.
Await(c) ==
  /\ client[c].pc = "await"
  /\ \/ /\ Connectable /\ startLock' = NoClient
        /\ client' = [client EXCEPT ![c].pc = "retry", ![c].child = None]
        /\ UNCHANGED disturbed
     \/ Unsafe /\ Raise(c, "unsafe")
     \/ Refused /\ daemon[client[c].child] = "gone" /\ Raise(c, "exited")
  /\ UNCHANGED <<lock, socket, daemon, thread, store, bounds>>

\* _connect: again, now that there is a daemon.
Retry(c) ==
  /\ client[c].pc = "retry"
  /\ \/ Connectable /\ Send(c) /\ UNCHANGED <<startLock, disturbed>>
     \/ Unsafe /\ Raise(c, "unsafe") /\ UNCHANGED thread
  /\ UNCHANGED <<lock, socket, daemon, store, bounds>>

\* start_timeout, of either wait; the deadline of `om restart`.
Timeout(c) ==
  /\ \/ client[c].pc \in {"await", "retry"} /\ Raise(c, "timeout")
     \/ /\ client[c].pc \in {"check", "connect"} /\ client[c].restart
        /\ client' = [client EXCEPT ![c] = [Idle EXCEPT !.result = "failed"]]
        /\ disturbed' = TRUE
        /\ UNCHANGED startLock
  /\ UNCHANGED <<lock, socket, daemon, thread, store, bounds>>

\* The connection is shut or reset by a daemon that closes or dies.  `om restart`
\* goes on, unless it comes as a reset, which it does not catch.
Lost(c) ==
  /\ client[c].pc \in {"sent", "quiet", "checksent"}
  /\ ~Listening(client[c].conn)
  /\ \/ client' = [client EXCEPT ![c] = [Idle EXCEPT !.result = "failed"]]
     \/ /\ client[c].restart
        /\ client' = [client EXCEPT ![c] =
             [@ EXCEPT !.pc = "connect", !.conn = None,
                       !.old = IF client[c].pc = "quiet" THEN None
                               ELSE client[c].old]]
  /\ UNCHANGED <<files, daemon, thread, store, bounds, disturbed>>

ClientStep(c) ==
  \/ Connect(c) \/ TakeStartLock(c) \/ Probe(c) \/ Await(c) \/ Retry(c)
  \/ Check(c) \/ Lost(c)

-----------------------------------------------------------------------------
(* A thread of a daemon serves one request. *)

RequestOf(d, c) == thread[d][c].request
Thread(d, c, pc) == thread' = [thread EXCEPT ![d][c].pc = pc]

Destructive == {"stop", "forget"}

\* Who holds the _destructive_lock, which is one of the daemon only.
InDestructiveLock(d) ==
  {c \in Client : /\ RequestOf(d, c).op \in Destructive
                  /\ thread[d][c].pc \in {"act", "remember"}}

\* Where a request goes on from the lookup.
LookedUp(request) ==
  IF request.op \in {"shutdown", "doctor"}
       \/ Known(store, request.generation, request.key)
    THEN "ok" ELSE "act"

\* Mutation: a request is remembered before it is carried out.
DispatchClaiming(d, c) ==
  LET request == RequestOf(d, c) IN
  /\ thread[d][c].pc = "accepted"
  /\ request.op \in Destructive => InDestructiveLock(d) = {}
  /\ IF Listening(d)
       THEN Thread(d, c, LookedUp(request))
       ELSE thread' = [thread EXCEPT ![d][c] = NoThread]
  /\ store' = IF request.op \in Destructive
                 THEN Remember(store, request.generation, request.key) ELSE store
  /\ UNCHANGED <<files, daemon, client, bounds, disturbed>>

\* _handle_client and dispatch, to the first lookup; a stop or a forget has the lock
\* by then.  A daemon that has been told to stop reads no more requests.
Dispatch(d, c) ==
  LET request == RequestOf(d, c) IN
  /\ thread[d][c].pc = "accepted"
  /\ request.op \in Destructive => InDestructiveLock(d) = {}
  /\ IF Listening(d)
       THEN Thread(d, c, LookedUp(request))
       ELSE thread' = [thread EXCEPT ![d][c] = NoThread]
  /\ UNCHANGED <<files, daemon, client, store, bounds, disturbed>>

\* _run_many: one transaction looks the key up again, creates and remembers.
Launch(d, c) ==
  /\ thread[d][c].pc = "act" /\ RequestOf(d, c).op = "launch"
  /\ store' = CreateLaunch(store)
  /\ Thread(d, c, "ok")
  /\ UNCHANGED <<files, daemon, client, bounds, disturbed>>

Here(request) == {j \in Job : Exists(store, request.generation, j)}

\* _stop: its jobs one after another, each of which ends or is asked to.
StopJob(d, c) ==
  LET request == RequestOf(d, c)
      active == {j \in Here(request) : store.job[j] = "active"}
  IN
  /\ thread[d][c].pc = "act" /\ request.op = "stop"
  /\ IF active # {}
       THEN /\ \E j \in active, state \in {"asked", "ended"} :
                 store' = UpdateJob(store, j, state)
            /\ UNCHANGED thread
       ELSE /\ Thread(d, c, IF Here(request) = {} THEN "refused" ELSE "remember")
            /\ UNCHANGED store
  /\ UNCHANGED <<files, daemon, client, bounds, disturbed>>

\* _forget: of a job that is there and has ended.
ForgetOne(d, c) ==
  LET request == RequestOf(d, c)
      j == request.key
  IN
  /\ thread[d][c].pc = "act" /\ request.op = "forget" /\ j \in Job
  /\ IF j \in Here(request) /\ store.job[j] = "ended"
       THEN store' = ForgetJob(store, j) /\ Thread(d, c, "remember")
       ELSE UNCHANGED store /\ Thread(d, c, "refused")
  /\ UNCHANGED <<files, daemon, client, bounds, disturbed>>

\* _forget: of the group, if none of its jobs is running.
ForgetEntity(d, c) ==
  LET request == RequestOf(d, c)
      left == Here(request)
  IN
  /\ thread[d][c].pc = "act" /\ request.op = "forget" /\ request.key = "forget"
  /\ IF left # {} /\ \A j \in left : store.job[j] = "ended"
       THEN store' = ForgetGroup(store) /\ Thread(d, c, "remember")
       ELSE UNCHANGED store /\ Thread(d, c, "refused")
  /\ UNCHANGED <<files, daemon, client, bounds, disturbed>>

RememberResult(d, c) ==
  LET request == RequestOf(d, c) IN
  /\ thread[d][c].pc = "remember"
  /\ store' = Remember(store, request.generation, request.key)
  /\ Thread(d, c, "ok")
  /\ UNCHANGED <<files, daemon, client, bounds, disturbed>>

\* The client that an answer of this thread would reach.
Waiting(d, c) ==
  /\ client[c].conn = d /\ client[c].pc \in {"sent", "quiet", "checksent"}
  /\ Listening(d) \/ daemon[d] = "closing"

\* The answer, if there is still somebody to read it.  `om restart` goes on to look
\* whether the daemon is gone; a shutdown is answered before it is carried out.
Answer(d, c) ==
  /\ thread[d][c].pc \in {"ok", "refused"}
  /\ thread' = [thread EXCEPT ![d][c] = NoThread]
  /\ IF RequestOf(d, c).op = "shutdown" /\ daemon[d] = "serving"
       THEN To(d, "told")
       ELSE UNCHANGED daemon
  /\ IF ~Waiting(d, c) THEN UNCHANGED client
     ELSE IF client[c].pc = "sent"
       THEN client' = [client EXCEPT ![c] =
              IF thread[d][c].pc = "ok" THEN [@ EXCEPT !.pc = "idle", !.result = "ok"]
                                        ELSE [Idle EXCEPT !.result = "failed"]]
       ELSE client' = [client EXCEPT ![c].pc = "check", ![c].conn = None]
  /\ UNCHANGED <<files, store, bounds, disturbed>>

ThreadStep(d, c) ==
  \/ Dispatch(d, c)
  \/ Launch(d, c) \/ StopJob(d, c) \/ ForgetOne(d, c) \/ ForgetEntity(d, c)
  \/ RememberResult(d, c) \/ Answer(d, c)

\* A job ends of itself.
JobEnds(j) ==
  /\ store.job[j] \in {"active", "asked"}
  /\ store' = UpdateJob(store, j, "ended")
  /\ UNCHANGED <<files, daemon, client, thread, bounds, disturbed>>

-----------------------------------------------------------------------------
Next ==
  \/ \E d \in Daemon : DaemonStep(d) \/ Stop(d) \/ Kill(d)
  \/ \E c \in Client : Begin(c) \/ BeginRestart(c) \/ ClientStep(c) \/ Timeout(c)
  \/ \E d \in Daemon, c \in Client : ThreadStep(d, c)
  \/ \E j \in Job : JobEnds(j)

Spec == Init /\ [][Next]_vars

-----------------------------------------------------------------------------
(* Properties. *)

\* One daemon at a time serves the state directory, and clients find it: whoever is
\* between its bind and its unlink owns the lock and the path, whatever daemons
\* started, lost the race, closed or were killed (Daemon.serve, Daemon.close).
ServerIsFound ==
  \A d \in Daemon :
    daemon[d] \in {"bound", "serving", "told", "closing"}
      => lock = d /\ socket.owner = d

\* Clients that start the daemon at the same time neither fail over one another nor
\* wait in vain: a daemon that a client started exits before it serves only if one was
\* stopped or killed, or a client gave up ("Keep the inter-process start lock until
\* this daemon accepts connections"), and who holds the start lock is on its way to a
\* daemon, with a deadline (_start_daemon).
StartsDoNotCollide ==
  /\ \A c \in Client : client[c].result = "exited" => disturbed
  /\ startLock # NoClient => client[startLock].pc \in {"probe", "await"}

\* While an entity is whole a retry of its launch finds it, over crashes, restarts,
\* concurrent retries and an old daemon that lingers: a second one is created only
\* after a job of the first was forgotten, which purges the key of its launch
\* (create_launch, forget_job).  The protocol promises more: RetryReturnsOriginal.
RelaunchNeedsForget ==
  [][store'.generation # store.generation
       => store.generation = 0 \/ \E j \in Job : store.job[j] = "forgotten"]_vars

\* What the table answers with is there: the key of a launch never outlives any job
\* of its entity, which would make every retry of it fail (forget_job).
ReplayResolves ==
  "launch" \in store.remembered => \A j \in Job : Exists(store, store.generation, j)

\* A success is one, replayed or not: of what a client was told is forgotten nothing
\* is left, and of what it was told is stopped nothing runs unasked, whatever call
\* crashed halfway and was retried (_stop, _forget, remember_idempotency).
AnswersTrue ==
  \A c \in Client :
    LET request == client[c].request IN
    client[c].result = "ok" /\ request.generation = store.generation =>
      /\ request.op = "forget" =>
           \A j \in Job : request.key \in {j, "forget"} => store.job[j] = "forgotten"
      /\ request.op = "stop" => \A j \in Job : store.job[j] # "active"

\* `om restart` succeeds only with an answer of another daemon than the one that it
\* shut down (_restart: "Swap the daemon onto the code currently on disk").
RestartIsFresh ==
  \A c \in Client :
    client[c].restart /\ client[c].result = "ok" => client[c].conn # client[c].old

-----------------------------------------------------------------------------
(* What the repository says of the program and the program does not do. *)

\* "Retrying the same logical launch returns the original entity"
\* (protocol.md:89-90): a retry creates another one only if nothing is left of it.
RetryReturnsOriginal ==
  [][store'.generation # store.generation
       => \A j \in Job : ~Exists(store, store.generation, j)]_vars

=============================================================================
