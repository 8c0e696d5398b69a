------------------------------ MODULE Sessions ------------------------------
(***************************************************************************)
(* Which harness session owns which job: the registry of live sessions,    *)
(* how a client finds the session it runs under, and `om orphans`.         *)
(*                                                                         *)
(* Sessions at different pids meet nowhere in this code, so there is one   *)
(* pid here, which is given to one harness process after another.          *)
(***************************************************************************)
EXTENDS Naturals

CONSTANTS
  Starts,     \* bound: harness processes that are started
  MaxSweeps,  \* bound: runs of `om orphans --stop`
  Launch      \* calls of clients that launch a job each

ASSUME SessionAssumption == {Starts, MaxSweeps} \subseteq Nat

\* A session by its number, which is also the start identity of its process.
Session == 1 .. Starts
None == 0

VARIABLES
  process,    \* the session whose process has the pid
  started,
  registry,   \* the files under sessions/ that are whole
  hook,       \* the status line hook, which registers a session
  client,     \* of each launch, the process that asks the broker for it
  job,        \* the jobs table: whether a job is active, and its owner
  sweep, sweeps,
  overtaken,  \* history: a registration read the identity of another process
  known,      \* history: the ids that were registered by now
  failed      \* history: the ids that have no record since a registration failed

vars ==
  <<process, started, registry, hook, client, job, sweep, sweeps, overtaken, known, failed>>

-----------------------------------------------------------------------------
\* The id that the harness gave to a session, and the one made up for it.
Named(n) == <<"id", n>>
Anonymous(n) == <<"proc", n>>
SessionId == {Named(n) : n \in Session} \cup {Anonymous(n) : n \in Session}
NoId == <<"none", None>>

\* Each file is named after its id.
Record == [id : SessionId, identity : {None} \cup Session]

\* What registers a session, and what it read of the process.
Writer(pcs) == [pc : {"off", "called", "writing"} \cup pcs,
                session : {None} \cup Session, identity : {None} \cup Session]
NoWriter == [pc |-> "off", session |-> None, identity |-> None]

Job == [state : {"none", "active", "stopped"},
        owner : SessionId \cup {NoId}, by : {None} \cup Session]
NoJob == [state |-> "none", owner |-> NoId, by |-> None]

\* A run of `om orphans --stop` knows the live ids, and then the jobs it will stop.
\* blind (history): the ids without a record, for being written, unknown or failed, when
\* it looked.
Sweep == [pc : {"off", "looked", "listed"}, live : SUBSET SessionId,
          blind : SUBSET SessionId, orphaned : SUBSET Launch]
NoSweep == [pc |-> "off", live |-> {}, blind |-> {}, orphaned |-> {}]

TypeOK ==
  /\ process \in {None} \cup Session /\ started \in 0 .. Starts
  /\ registry \subseteq Record
  /\ \A r, s \in registry : r.id = s.id => r = s
  /\ hook \in Writer({})
  /\ client \in [Launch -> Writer({"asking"})]
  /\ job \in [Launch -> Job]
  /\ sweep \in Sweep /\ sweeps \in 0 .. MaxSweeps
  /\ overtaken \in BOOLEAN /\ known \subseteq SessionId /\ failed \subseteq SessionId

Init ==
  /\ process = None /\ started = 0
  /\ registry = {} /\ hook = NoWriter
  /\ client = [l \in Launch |-> NoWriter]
  /\ job = [l \in Launch |-> NoJob]
  /\ sweep = NoSweep /\ sweeps = 0
  /\ overtaken = FALSE /\ known = {} /\ failed = {}

-----------------------------------------------------------------------------
(* Processes. *)

\* The pid is given out again when it is free.
SessionStarts ==
  /\ process = None /\ started < Starts
  /\ started' = started + 1
  /\ process' = started + 1
  /\ UNCHANGED <<registry, hook, client, job, sweep, sweeps, overtaken, known, failed>>

SessionEnds ==
  /\ process # None
  /\ process' = None
  /\ UNCHANGED <<started, registry, hook, client, job, sweep, sweeps, overtaken, known, failed>>

-----------------------------------------------------------------------------
(* The registry. *)

\* Mutation: a session is as live as its pid.
IsLiveByPid(r) == process # None

\* is_live: the same process, or no identity to tell it by.
IsLive(r) == process # None /\ r.identity \in {None, process}

LiveIds == {r.id : r \in {s \in registry : IsLive(s)}}

\* Of several live records of a pid the last in the order of the file names counts.
\* ("proc-..." sorts after the ids of the harnesses, which are UUIDs.)
Last(ids) ==
  LET made == {id \in ids : id[1] = "proc"}
  IN CHOOSE id \in IF made = {} THEN ids ELSE made : TRUE

\* owning_session, for a client of session n; a client whose harness ended has no
\* ancestors any more.
OwningSession(n) == IF process # n \/ LiveIds = {} THEN NoId ELSE Last(LiveIds)

\* register(), with write_private: the identity is read and the file truncated; a file
\* that cannot be parsed is as good as none to every reader, until the record is
\* written.
Truncate(n, id) ==
  /\ registry' = {r \in registry : r.id # id}
  /\ overtaken' = (overtaken \/ process # n)

\* Mutation: a record is added to those that the id has.
WriteRecordAgain(id, identity) ==
  /\ registry' = registry \cup {[id |-> id, identity |-> identity]}
  /\ known' = known \cup {id}
  /\ failed' = failed \ {id}

\* Mutation: a session replaces whatever else is registered.
WriteRecordAlone(id, identity) ==
  /\ registry' = {[id |-> id, identity |-> identity]}
  /\ known' = known \cup {id}
  /\ failed' = failed \ {id}

WriteRecord(id, identity) ==
  /\ registry' = {r \in registry : r.id # id} \cup {[id |-> id, identity |-> identity]}
  /\ known' = known \cup {id}
  /\ failed' = failed \ {id}

\* An OSError, before the file is truncated or after, or the end of the process that
\* registers: the record of an earlier registration stays, or there is none.
RegistrationFails(id) == failed' = failed \cup ({id} \ {r.id : r \in registry})

\* The status line runs the hook on every render, in a process of its own.
HookCalled ==
  /\ hook.pc = "off" /\ process # None
  /\ hook' = [NoWriter EXCEPT !.pc = "called", !.session = process]
  /\ UNCHANGED <<process, started, registry, client, job, sweep, sweeps>>
  /\ UNCHANGED <<overtaken, known, failed>>

HookRegisters ==
  /\ hook.pc = "called"
  /\ hook' = [hook EXCEPT !.pc = "writing", !.identity = process]
  /\ Truncate(hook.session, Named(hook.session))
  /\ UNCHANGED <<process, started, client, job, sweep, sweeps, known, failed>>

HookWrites ==
  /\ hook.pc = "writing"
  /\ WriteRecord(Named(hook.session), hook.identity)
  /\ hook' = NoWriter
  /\ UNCHANGED <<process, started, client, job, sweep, sweeps, overtaken>>

HookFails ==
  /\ hook.pc # "off"
  /\ RegistrationFails(Named(hook.session))
  /\ hook' = NoWriter
  /\ UNCHANGED <<process, started, registry, client, job, sweep, sweeps, overtaken, known>>

-----------------------------------------------------------------------------
(* Clients: threads of an MCP server, or `om`; they may outlive the harness. *)

\* The broker runs a job for the owner that it is told.
RunFor(l, n, owner) ==
  job' = [job EXCEPT ![l] = [state |-> "active", owner |-> owner, by |-> n]]

LaunchBegins(l) ==
  /\ client[l].pc = "off" /\ job[l] = NoJob /\ process # None
  /\ client' = [client EXCEPT ![l].pc = "called", ![l].session = process]
  /\ UNCHANGED <<process, started, registry, hook, job, sweep, sweeps, overtaken, known, failed>>

\* caller_session: a registered session, or the harness process itself, which will be
\* registered, or none.  (The looks at the files, at the ancestors and at the identity
\* are one here: if the harness ends in between there is no identity, and no owner.)
CallerSession(l) ==
  LET n == client[l].session
      owner == OwningSession(n)
  IN
  /\ client[l].pc = "called"
  /\ IF owner = NoId /\ process = n
       THEN client' = [client EXCEPT ![l].pc = "asking"] /\ UNCHANGED job
       ELSE client' = [client EXCEPT ![l] = NoWriter] /\ RunFor(l, n, owner)
  /\ UNCHANGED <<process, started, registry, hook, sweep, sweeps, overtaken, known, failed>>

\* The id was made from one look at the process, its record takes another.
AnonymousRegisters(l) ==
  LET n == client[l].session IN
  /\ client[l].pc = "asking"
  /\ client' = [client EXCEPT ![l].pc = "writing", ![l].identity = process]
  /\ Truncate(n, Anonymous(n))
  /\ UNCHANGED <<process, started, hook, job, sweep, sweeps, known, failed>>

AnonymousWrites(l) ==
  LET n == client[l].session IN
  /\ client[l].pc = "writing"
  /\ WriteRecord(Anonymous(n), client[l].identity)
  /\ client' = [client EXCEPT ![l] = NoWriter]
  /\ RunFor(l, n, Anonymous(n))
  /\ UNCHANGED <<process, started, hook, sweep, sweeps, overtaken>>

\* caller_session, "except OSError: pass": the job has the id for its owner all the same.
AnonymousFails(l) ==
  LET n == client[l].session IN
  /\ client[l].pc \in {"asking", "writing"}
  /\ RegistrationFails(Anonymous(n))
  /\ client' = [client EXCEPT ![l] = NoWriter]
  /\ RunFor(l, n, Anonymous(n))
  /\ UNCHANGED <<process, started, registry, hook, sweep, sweeps, overtaken, known>>

\* A client that is killed launches nothing, and may leave a file without a record.
ClientDies(l) ==
  /\ client[l].pc # "off"
  /\ IF client[l].pc = "writing"
       THEN RegistrationFails(Anonymous(client[l].session))
       ELSE UNCHANGED failed
  /\ client' = [client EXCEPT ![l] = NoWriter]
  /\ UNCHANGED <<process, started, registry, hook, job, sweep, sweeps, overtaken, known>>

-----------------------------------------------------------------------------
(* `om orphans --stop`: the live sessions, then the active jobs, then one   *)
(* stop after another.                                                      *)

\* The ids whose file is being written.
BeingWritten ==
  {Named(n) : n \in {m \in Session : hook.pc = "writing" /\ hook.session = m}}
  \cup {Anonymous(client[l].session) : l \in {k \in Launch : client[k].pc = "writing"}}

\* Mutation: one session for each pid, as owning_session has it.
OrphansLookByPid ==
  /\ sweep.pc = "off" /\ sweeps < MaxSweeps
  /\ sweeps' = sweeps + 1
  /\ sweep' = [NoSweep EXCEPT !.pc = "looked", !.live = {OwningSession(process)} \ {NoId},
                              !.blind = BeingWritten \cup failed \cup (SessionId \ known)]
  /\ UNCHANGED <<process, started, registry, hook, client, job, overtaken, known, failed>>

OrphansLook ==
  /\ sweep.pc = "off" /\ sweeps < MaxSweeps
  /\ sweeps' = sweeps + 1
  /\ sweep' = [NoSweep EXCEPT !.pc = "looked", !.live = LiveIds,
                              !.blind = BeingWritten \cup failed \cup (SessionId \ known)]
  /\ UNCHANGED <<process, started, registry, hook, client, job, overtaken, known, failed>>

OrphansList ==
  /\ sweep.pc = "looked"
  /\ sweep' = [sweep EXCEPT !.pc = "listed", !.live = {}, !.orphaned =
                 {l \in Launch : /\ job[l].state = "active"
                                 /\ job[l].owner \notin sweep.live \cup {NoId}}]
  /\ UNCHANGED <<process, started, registry, hook, client, job, sweeps, overtaken, known, failed>>

OrphansStop ==
  /\ sweep.pc = "listed"
  /\ IF sweep.orphaned = {}
       THEN sweep' = NoSweep /\ UNCHANGED job
       ELSE \E l \in sweep.orphaned :
              /\ sweep' = [sweep EXCEPT !.orphaned = @ \ {l}]
              /\ job' = [job EXCEPT ![l].state = "stopped"]
  /\ UNCHANGED <<process, started, registry, hook, client, sweeps, overtaken, known, failed>>

-----------------------------------------------------------------------------
Next ==
  \/ SessionStarts \/ SessionEnds
  \/ HookCalled \/ HookRegisters \/ HookWrites \/ HookFails
  \/ \E l \in Launch : \/ LaunchBegins(l) \/ CallerSession(l)
                       \/ AnonymousRegisters(l) \/ AnonymousWrites(l)
                       \/ AnonymousFails(l) \/ ClientDies(l)
  \/ OrphansLook \/ OrphansList \/ OrphansStop

Spec == Init /\ [][Next]_vars

-----------------------------------------------------------------------------
(* Properties. *)

\* "claiming a stranger's process is the one mistake this module must not make": a
\* job is owned by the session that launched it or by none, whatever files dead
\* sessions left for the next process with their pid; unless a session ended in the
\* middle of a registration (is_live, caller_session).
NoStrangerClaimed ==
  overtaken \/ \A l \in Launch :
    job[l].owner \in {NoId, Named(job[l].by), Anonymous(job[l].by)}

\* While a session lives, the owner that its jobs name is registered and taken for
\* live, whichever of its two ids that is, however often the session is registered
\* again and whatever became of the sessions before it.  It is not while that very file
\* is being written, nor from a registration that failed and left no record until the
\* next one that succeeds: caller_session passes over the error and names the owner
\* (caller_session, register).
OwnersAreLive ==
  \A l \in Launch :
    job[l].owner # NoId /\ process = job[l].by /\ ~overtaken
      => job[l].owner \in LiveIds \cup BeingWritten \cup failed

\* `om orphans --stop` stops a job of a session that lives only if, when it looked, the
\* session was being registered, or not yet registered, or its registration had failed
\* (_orphans).
StopsOrphans ==
  [][\A l \in Launch :
       job[l].state = "active" /\ job'[l].state = "stopped" /\ ~overtaken
         => process # job[l].by \/ job[l].owner \in sweep.blind]_vars

=============================================================================
