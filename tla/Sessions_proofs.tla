--------------------------- MODULE Sessions_proofs ---------------------------
(***************************************************************************)
(* Proofs about Sessions.tla, for any number of sessions, launches and     *)
(* runs of `om orphans`.                                                   *)
(*                                                                         *)
(* A session that is not the newest one is dead for good, so what an id    *)
(* stands for is settled by its number.  Unless a registration was         *)
(* overtaken, each record names the process it was read of; a known id of  *)
(* the session that lives is live, or being written, or its registration   *)
(* failed; and what a run of `om orphans` did not see it was blind to.     *)
(***************************************************************************)
EXTENDS Sessions, TLAPS

\* The two ids of a session.
Ids(n) == {Named(n), Anonymous(n)}

\* Sessions that were started.
Begun == 1 .. started

\* Only what runs or may still come is another session than a dead one.
WriterInv ==
  /\ process \in {None, started}
  /\ hook.pc # "off" => hook.session \in Begun
  /\ \A l \in Launch : client[l].pc # "off" => client[l].session \in Begun

\* Who launches has no job yet, and an owner is an id that was registered, or should
\* have been.
JobInv ==
  /\ \A id \in known \cup failed : \E n \in Begun : id \in Ids(n)
  /\ \A r \in registry : r.id \in known
  /\ \A l \in Launch :
       /\ client[l].pc # "off" => job[l].owner = NoId
       /\ job[l].owner # NoId => job[l].owner \in known \cup failed /\ job[l].by \in Begun

\* What was read of a process was read of that of the session.
IdentityInv ==
  /\ hook.pc = "writing" => hook.identity = hook.session
  /\ \A l \in Launch : client[l].pc = "writing" => client[l].identity = client[l].session
  /\ \A r \in registry : r.identity \in Begun /\ r.id \in Ids(r.identity)
  /\ \A l \in Launch : job[l].owner # NoId => job[l].owner \in Ids(job[l].by)

\* The ids of the session that lives are found.
LiveInv ==
  \A id \in known :
    process # None /\ id \in Ids(process) => id \in LiveIds \cup BeingWritten \cup failed

\* A run of `om orphans` saw the ids of the session that lives, or was blind to them;
\* and it was blind to those of sessions to come.
SweepInv ==
  /\ sweep.pc = "looked" =>
       \A n \in Session : n = process \/ n > started =>
         Ids(n) \subseteq sweep.live \cup sweep.blind
  /\ sweep.pc = "listed" =>
       \A l \in sweep.orphaned :
         /\ job[l].owner # NoId
         /\ job[l].by = process => job[l].owner \in sweep.blind

IInv == WriterInv /\ JobInv /\ (~overtaken => IdentityInv /\ LiveInv /\ SweepInv)

-----------------------------------------------------------------------------
(* Ids and records.                                                        *)

LEMMA IdsApart ==
  /\ \A n : NoId \notin Ids(n)
  /\ \A m, n, id : id \in Ids(m) /\ id \in Ids(n) => m = n
BY DEF Ids, Named, Anonymous, NoId

LEMMA IdTypes ==
  /\ \A n \in Session : Ids(n) \subseteq SessionId
  /\ \A id \in SessionId : \E n \in Session : id \in Ids(n)
  /\ NoId \notin SessionId
BY DEF Ids, SessionId, Named, Anonymous, NoId

LEMMA BegunTypes ==
  ASSUME started \in 0 .. Starts
  PROVE  /\ Begun \subseteq Session
         /\ None \notin Session
         /\ \A n \in Begun : n # started + 1 /\ ~(n > started)
BY SessionAssumption DEF Begun, Session, None

\* The last of some ids is one of them.
LEMMA LastIsOne ==
  ASSUME NEW ids, ids # {}
  PROVE  Last(ids) \in ids
<1> DEFINE made == {id \in ids : id[1] = "proc"}
           choice == IF made = {} THEN ids ELSE made
<1>1. choice # {} /\ choice \subseteq ids
  OBVIOUS
<1>2. (CHOOSE id \in choice : TRUE) \in choice
  BY <1>1
<1>3. QED
  BY <1>1, <1>2 DEF Last

\* An owner that a client finds is a live id at its own process.
LEMMA OwnerIsLive ==
  ASSUME NEW n, OwningSession(n) # NoId
  PROVE  process = n /\ OwningSession(n) \in LiveIds
BY LastIsOne DEF OwningSession

LEMMA LiveRecord ==
  \A id : id \in LiveIds <=> \E r \in registry : r.id = id /\ IsLive(r)
BY DEF LiveIds

\* A record that is written replaces the one with its id.
LEMMA RecordWritten ==
  ASSUME TypeOK, NEW id \in SessionId, NEW identity \in {None} \cup Session,
         WriteRecord(id, identity)
  PROVE  /\ registry' \subseteq Record
         /\ \A r, s \in registry' : r.id = s.id => r = s
         /\ known' = known \cup {id} /\ known' \subseteq SessionId
        /\ failed' = failed \ {id} /\ failed' \subseteq SessionId
<1> DEFINE new == [id |-> id, identity |-> identity]
<1>1. new \in Record /\ new.id = id
  BY DEF Record
<1>2. registry' = {r \in registry : r.id # id} \cup {new}
  BY DEF WriteRecord
<1>3. registry \subseteq Record /\ \A r, s \in registry : r.id = s.id => r = s
  BY DEF TypeOK
<1>4. \A r \in registry' : r = new \/ (r \in registry /\ r.id # id)
  BY <1>2
<1>5. \A r, s \in registry' : r.id = s.id => r = s
  BY <1>1, <1>3, <1>4
<1>6. QED
  BY <1>1, <1>3, <1>4, <1>5 DEF WriteRecord, TypeOK

-----------------------------------------------------------------------------
(* Types, and who is under way.                                            *)

Writers == Writer({"asking"})

LEMMA WritingIds ==
  ASSUME TypeOK, WriterInv
  PROVE  /\ BeingWritten \subseteq SessionId
         /\ hook.pc # "off" => Named(hook.session) \in SessionId
         /\ \A l \in Launch : client[l].pc # "off" => Anonymous(client[l].session) \in SessionId
<1>1. Begun \subseteq Session
  BY BegunTypes DEF TypeOK
<1>2. \A n \in Session : Named(n) \in SessionId /\ Anonymous(n) \in SessionId
  BY DEF SessionId
<1>3. QED
  BY <1>1, <1>2 DEF WriterInv, BeingWritten

\* The process that has the pid is that of a session that was started.
LEMMA LivesBegun ==
  ASSUME WriterInv, started \in 0 .. Starts, process # None
  PROVE  process \in Begun
BY SessionAssumption DEF WriterInv, Begun, None

LEMMA TypeInit == Init => TypeOK /\ WriterInv
<1> SUFFICES ASSUME Init
             PROVE  TypeOK /\ WriterInv
  OBVIOUS
<1>1. /\ NoWriter \in Writer({}) /\ NoWriter \in Writers /\ NoWriter.pc = "off"
      /\ NoJob \in Job
      /\ NoSweep \in Sweep
  BY DEF Writers, Writer, NoWriter, Job, NoJob, Sweep, NoSweep
<1>2. 0 \in 0 .. Starts /\ 0 \in 0 .. MaxSweeps
  BY SessionAssumption
<1>3. WriterInv
  BY <1>1 DEF Init, WriterInv
<1>4. TypeOK
  BY <1>1, <1>2 DEF Init, TypeOK, Writers
<1>5. QED
  BY <1>3, <1>4

LEMMA TypeNext == TypeOK /\ WriterInv /\ [Next]_vars => TypeOK' /\ WriterInv'
<1> SUFFICES ASSUME TypeOK, WriterInv, [Next]_vars
             PROVE  TypeOK' /\ WriterInv'
  OBVIOUS
<1>0. /\ process \in {None} \cup Session /\ started \in 0 .. Starts
      /\ hook \in Writer({}) /\ client \in [Launch -> Writers]
      /\ job \in [Launch -> Job]
      /\ sweep \in Sweep /\ sweeps \in 0 .. MaxSweeps
      /\ Begun \subseteq Session /\ None \notin Session
  BY BegunTypes DEF TypeOK, Writers
<1>1. CASE SessionStarts
  <2>1. started' \in 0 .. Starts /\ process' \in Session /\ process' = started'
        /\ Begun \subseteq Begun'
    BY <1>0, <1>1, SessionAssumption DEF SessionStarts, Session, Begun
  <2>2. TypeOK'
    BY <1>1, <2>1 DEF SessionStarts, TypeOK
  <2>3. WriterInv'
    BY <1>1, <2>1 DEF SessionStarts, WriterInv
  <2>4. QED
    BY <2>2, <2>3
<1>2. CASE SessionEnds
  BY <1>2 DEF SessionEnds, TypeOK, WriterInv, Begun
<1>3. CASE HookCalled
  <2>1. hook' \in Writer({}) /\ hook'.session = process
    BY <1>0, <1>3 DEF HookCalled, NoWriter, Writer
  <2>2. process \in Begun
    BY <1>0, <1>3, LivesBegun DEF HookCalled
  <2>3. QED
    BY <1>3, <2>1, <2>2 DEF HookCalled, TypeOK, WriterInv, Begun
<1>4. CASE HookRegisters
  <2>1. hook' \in Writer({}) /\ hook'.session = hook.session /\ hook.session \in Begun
    BY <1>0, <1>4 DEF HookRegisters, Writer, WriterInv
  <2>2. registry' \subseteq registry /\ overtaken' \in BOOLEAN
    BY <1>4 DEF HookRegisters, Truncate, TypeOK
  <2>3. QED
    BY <1>4, <2>1, <2>2 DEF HookRegisters, TypeOK, WriterInv, Begun
<1>5. CASE HookWrites
  <2>1. hook.identity \in {None} \cup Session /\ Named(hook.session) \in SessionId
    BY <1>0, <1>5, WritingIds DEF HookWrites, Writer
  <2>2. hook' \in Writer({}) /\ hook'.pc = "off"
    BY <1>5 DEF HookWrites, NoWriter, Writer
  <2>3. /\ registry' \subseteq Record
        /\ \A r, s \in registry' : r.id = s.id => r = s
        /\ known' \subseteq SessionId /\ failed' \subseteq SessionId
    BY <1>5, <2>1, RecordWritten DEF HookWrites
  <2>4. QED
    BY <1>5, <2>2, <2>3 DEF HookWrites, TypeOK, WriterInv, Begun
<1>51. CASE HookFails
  <2>1. hook' \in Writer({}) /\ hook'.pc = "off"
    BY <1>51 DEF HookFails, NoWriter, Writer
  <2>2. failed' \subseteq SessionId
    BY <1>51, WritingIds DEF HookFails, RegistrationFails, TypeOK
  <2>3. QED
    BY <1>51, <2>1, <2>2 DEF HookFails, TypeOK, WriterInv, Begun
<1>6. ASSUME NEW l \in Launch, LaunchBegins(l)
      PROVE  TypeOK' /\ WriterInv'
  <2>1. [client[l] EXCEPT !.pc = "called", !.session = process] \in Writers
    BY <1>0 DEF Writers, Writer
  <2>2. /\ client' \in [Launch -> Writers]
        /\ client'[l].session = process
        /\ \A k \in Launch : k # l => client'[k] = client[k]
    BY <1>0, <1>6, <2>1 DEF LaunchBegins, Writers, Writer
  <2>3. process \in Begun
    BY <1>0, <1>6, LivesBegun DEF LaunchBegins
  <2>4. QED
    BY <1>6, <2>2, <2>3 DEF LaunchBegins, TypeOK, WriterInv, Writers, Begun
<1>7. ASSUME NEW l \in Launch, NEW owner \in SessionId \cup {NoId},
             RunFor(l, client[l].session, owner)
      PROVE  job' \in [Launch -> Job]
  BY <1>0, <1>7 DEF RunFor, Job, Writers, Writer
<1>8. NoWriter \in Writers /\ NoWriter.pc = "off"
  BY DEF Writers, Writer, NoWriter
<1>9. ASSUME NEW l \in Launch, CallerSession(l)
      PROVE  TypeOK' /\ WriterInv'
  <2> DEFINE owner == OwningSession(client[l].session)
  <2>1. owner \in SessionId \cup {NoId}
    BY <1>0, OwnerIsLive, LiveRecord DEF TypeOK, Record
  <2>2. [client[l] EXCEPT !.pc = "asking"] \in Writers
    BY <1>0 DEF Writers, Writer
  <2>3. /\ client' \in [Launch -> Writers]
        /\ \A k \in Launch : client'[k].pc # "off" =>
             client[k].pc # "off" /\ client'[k].session = client[k].session
    BY <1>0, <1>8, <1>9, <2>2 DEF CallerSession, Writers, Writer
  <2>4. job' \in [Launch -> Job]
    BY <1>0, <1>7, <1>9, <2>1 DEF CallerSession
  <2>5. QED
    BY <1>9, <2>3, <2>4 DEF CallerSession, TypeOK, WriterInv, Writers, Begun
<1>10. ASSUME NEW l \in Launch, AnonymousRegisters(l)
       PROVE  TypeOK' /\ WriterInv'
  <2>1. [client[l] EXCEPT !.pc = "writing", !.identity = process] \in Writers
    BY <1>0 DEF Writers, Writer
  <2>2. /\ client' \in [Launch -> Writers]
        /\ \A k \in Launch : client'[k].pc # "off" =>
             client[k].pc # "off" /\ client'[k].session = client[k].session
    BY <1>0, <1>10, <2>1 DEF AnonymousRegisters, Writers, Writer
  <2>3. registry' \subseteq registry /\ overtaken' \in BOOLEAN
    BY <1>10 DEF AnonymousRegisters, Truncate, TypeOK
  <2>4. QED
    BY <1>10, <2>2, <2>3 DEF AnonymousRegisters, TypeOK, WriterInv, Writers, Begun
<1>11. ASSUME NEW l \in Launch, AnonymousWrites(l)
       PROVE  TypeOK' /\ WriterInv'
  <2>1. Anonymous(client[l].session) \in SessionId
    BY <1>11, WritingIds DEF AnonymousWrites
  <2>2. client[l].identity \in {None} \cup Session
    BY <1>0 DEF Writers, Writer
  <2>3. /\ registry' \subseteq Record
        /\ \A r, s \in registry' : r.id = s.id => r = s
        /\ known' \subseteq SessionId /\ failed' \subseteq SessionId
    BY <1>11, <2>1, <2>2, RecordWritten DEF AnonymousWrites
  <2>4. job' \in [Launch -> Job]
    BY <1>7, <1>11, <2>1 DEF AnonymousWrites
  <2>5. /\ client' \in [Launch -> Writers]
        /\ \A k \in Launch : client'[k].pc # "off" => client'[k] = client[k]
    BY <1>0, <1>8, <1>11 DEF AnonymousWrites
  <2>6. QED
    BY <1>11, <2>3, <2>4, <2>5 DEF AnonymousWrites, TypeOK, WriterInv, Writers, Begun
<1>111. ASSUME NEW l \in Launch, AnonymousFails(l) \/ ClientDies(l)
        PROVE  TypeOK' /\ WriterInv'
  <2>1. client[l].pc # "off" /\ Anonymous(client[l].session) \in SessionId
    BY <1>111, WritingIds DEF AnonymousFails, ClientDies
  <2>2. failed' \subseteq SessionId
    BY <1>111, <2>1 DEF AnonymousFails, ClientDies, RegistrationFails, TypeOK
  <2>3. job' \in [Launch -> Job]
    BY <1>0, <1>7, <1>111, <2>1 DEF AnonymousFails, ClientDies
  <2>4. /\ client' \in [Launch -> Writers]
        /\ \A k \in Launch : client'[k].pc # "off" => client'[k] = client[k]
    BY <1>0, <1>8, <1>111 DEF AnonymousFails, ClientDies
  <2>5. UNCHANGED <<process, started, registry, hook, sweep, sweeps, overtaken, known>>
    BY <1>111 DEF AnonymousFails, ClientDies
  <2>6. QED
    BY <2>2, <2>3, <2>4, <2>5 DEF TypeOK, WriterInv, Writers, Begun
<1>12. CASE OrphansLook
  <2>1. /\ LiveIds \subseteq SessionId
        /\ BeingWritten \cup failed \cup (SessionId \ known) \subseteq SessionId
    BY LiveRecord, WritingIds DEF TypeOK, Record
  <2>2. sweep' \in Sweep
    BY <1>12, <2>1 DEF OrphansLook, NoSweep, Sweep
  <2>3. sweeps' \in 0 .. MaxSweeps
    BY <1>0, <1>12, SessionAssumption DEF OrphansLook
  <2>4. QED
    BY <1>12, <2>2, <2>3 DEF OrphansLook, TypeOK, WriterInv, Begun
<1>13. CASE OrphansList
  <2>1. sweep' \in Sweep
    BY <1>0, <1>13 DEF OrphansList, Sweep
  <2>2. QED
    BY <1>13, <2>1 DEF OrphansList, TypeOK, WriterInv, Begun
<1>14. CASE OrphansStop
  <2>1. NoSweep \in Sweep
    BY DEF NoSweep, Sweep
  <2>2. sweep' \in Sweep
    BY <1>0, <1>14, <2>1 DEF OrphansStop, Sweep
  <2>3. job' \in [Launch -> Job]
    BY <1>0, <1>14 DEF OrphansStop, Job
  <2>4. QED
    BY <1>14, <2>2, <2>3 DEF OrphansStop, TypeOK, WriterInv, Begun
<1>15. CASE UNCHANGED vars
  BY <1>15 DEF vars, TypeOK, WriterInv, Begun
<1>16. QED
  BY <1>1, <1>2, <1>3, <1>4, <1>5, <1>51, <1>6, <1>9, <1>10, <1>11, <1>111, <1>12, <1>13, <1>14,
     <1>15
  DEF Next

\* The variables keep their types, and no id has two records, whatever registers,
\* launches and sweeps at the same time (register, write_private).
THEOREM TypeCorrect == Spec => []TypeOK
<1>1. QED
  BY TypeInit, TypeNext, PTL DEF Spec

-----------------------------------------------------------------------------
(* What a step does to the jobs, the clients and the registry.             *)

LEMMA BegunGrows ==
  ASSUME TypeOK, [Next]_vars
  PROVE  Begun \subseteq Begun' /\ known \subseteq known' /\ (overtaken => overtaken')
<1>1. CASE SessionStarts
  BY <1>1 DEF SessionStarts, TypeOK, Begun
<1>2. ~SessionStarts => started' = started
  BY DEF Next, SessionEnds, HookCalled, HookRegisters, HookWrites, HookFails, LaunchBegins,
         CallerSession, AnonymousRegisters, AnonymousWrites, AnonymousFails, ClientDies,
         OrphansLook, OrphansList, OrphansStop, vars
<1>3. known \subseteq known'
  BY DEF Next, SessionStarts, SessionEnds, HookCalled, HookRegisters, HookWrites, HookFails,
         WriteRecord, LaunchBegins, CallerSession, AnonymousRegisters, AnonymousWrites,
         AnonymousFails, ClientDies, OrphansLook, OrphansList, OrphansStop, vars
<1>4. overtaken => overtaken'
  BY DEF Next, SessionStarts, SessionEnds, HookCalled, HookRegisters, Truncate, HookWrites,
         HookFails, LaunchBegins, CallerSession, AnonymousRegisters, AnonymousWrites,
         AnonymousFails, ClientDies, OrphansLook, OrphansList, OrphansStop, vars
<1>5. QED
  BY <1>1, <1>2, <1>3, <1>4 DEF Begun

\* Which actions are whose.
ClientAction(l) ==
  \/ LaunchBegins(l) \/ CallerSession(l)
  \/ AnonymousRegisters(l) \/ AnonymousWrites(l) \/ AnonymousFails(l) \/ ClientDies(l)

LEMMA OthersLeaveClients ==
  ASSUME [Next]_vars, \A l \in Launch : ~ClientAction(l)
  PROVE  client' = client
BY DEF Next, ClientAction, SessionStarts, SessionEnds, HookCalled, HookRegisters, HookWrites,
       HookFails, OrphansLook, OrphansList, OrphansStop, vars

LEMMA ClientOwnMoves ==
  ASSUME TypeOK, NEW l \in Launch, ClientAction(l), NEW k \in Launch, k # l
  PROVE  client'[k] = client[k] /\ job'[k] = job[k]
BY DEF TypeOK, ClientAction, LaunchBegins, CallerSession, AnonymousRegisters, AnonymousWrites,
       AnonymousFails, ClientDies, RunFor

\* What its action makes of a client and of its job.
LEMMA ClientMoves ==
  ASSUME TypeOK, NEW l \in Launch, ClientAction(l)
  PROVE  \/ /\ LaunchBegins(l) /\ job[l] = NoJob /\ job' = job
            /\ client'[l].pc = "called" /\ client'[l].session = process
         \/ /\ CallerSession(l) /\ client[l].pc = "called" /\ client'[l].pc = "asking"
            /\ client'[l].session = client[l].session /\ job' = job
            /\ process = client[l].session
         \/ /\ CallerSession(l) /\ client[l].pc = "called" /\ client'[l].pc = "off"
            /\ job'[l].owner = OwningSession(client[l].session)
            /\ job'[l].by = client[l].session
         \/ /\ AnonymousRegisters(l) /\ client[l].pc = "asking" /\ client'[l].pc = "writing"
            /\ client'[l].session = client[l].session /\ client'[l].identity = process
            /\ job' = job
         \/ /\ AnonymousWrites(l) /\ client[l].pc = "writing" /\ client'[l].pc = "off"
            /\ job'[l].owner = Anonymous(client[l].session)
            /\ job'[l].by = client[l].session
         \/ /\ AnonymousFails(l) /\ client[l].pc # "off" /\ client'[l].pc = "off"
            /\ job'[l].owner = Anonymous(client[l].session)
            /\ job'[l].by = client[l].session
         \/ /\ ClientDies(l) /\ client[l].pc # "off" /\ client'[l].pc = "off" /\ job' = job
<1>1. client \in [Launch -> Writers] /\ job \in [Launch -> Job]
  BY DEF TypeOK, Writers
<1>2. client[l] \in Writers
  BY <1>1
<1>3. ASSUME NEW owner, RunFor(l, client[l].session, owner)
      PROVE  job'[l].owner = owner /\ job'[l].by = client[l].session
  BY <1>1, <1>3 DEF RunFor
<1>4. ASSUME client' = [client EXCEPT ![l] = NoWriter]
      PROVE  client'[l].pc = "off"
  BY <1>1, <1>4 DEF NoWriter
<1>5. CASE LaunchBegins(l)
  <2>1. client'[l] = [client[l] EXCEPT !.pc = "called", !.session = process]
    BY <1>1, <1>5 DEF LaunchBegins
  <2>2. QED
    BY <1>2, <1>5, <2>1 DEF LaunchBegins, Writers, Writer
<1>6. CASE CallerSession(l)
  <2>1. \/ /\ client'[l] = [client[l] EXCEPT !.pc = "asking"] /\ job' = job
           /\ process = client[l].session
        \/ /\ client' = [client EXCEPT ![l] = NoWriter]
           /\ RunFor(l, client[l].session, OwningSession(client[l].session))
    BY <1>1, <1>6 DEF CallerSession
  <2>2. client[l].pc = "called"
    BY <1>6 DEF CallerSession
  <2>3. QED
    BY <1>2, <1>3, <1>4, <1>6, <2>1, <2>2 DEF Writers, Writer
<1>7. CASE AnonymousRegisters(l)
  <2>1. client'[l] = [client[l] EXCEPT !.pc = "writing", !.identity = process]
    BY <1>1, <1>7 DEF AnonymousRegisters
  <2>2. QED
    BY <1>2, <1>7, <2>1 DEF AnonymousRegisters, Writers, Writer
<1>8. CASE AnonymousWrites(l)
  BY <1>3, <1>4, <1>8 DEF AnonymousWrites
<1>9. CASE AnonymousFails(l)
  BY <1>3, <1>4, <1>9 DEF AnonymousFails
<1>10. CASE ClientDies(l)
  BY <1>4, <1>10 DEF ClientDies
<1>11. QED
  BY <1>5, <1>6, <1>7, <1>8, <1>9, <1>10 DEF ClientAction

\* Without a client's action no job has another owner.
LEMMA OwnersStay ==
  ASSUME TypeOK, [Next]_vars, \A l \in Launch : ~ClientAction(l), NEW k \in Launch
  PROVE  job'[k].owner = job[k].owner /\ job'[k].by = job[k].by
<1>1. job \in [Launch -> Job]
  BY DEF TypeOK
<1>2. CASE OrphansStop
  <2>1. \/ job' = job
        \/ \E l \in Launch : job' = [job EXCEPT ![l].state = "stopped"]
    BY <1>2 DEF OrphansStop, TypeOK, Sweep
  <2>2. QED
    BY <1>1, <2>1 DEF Job
<1>3. CASE ~OrphansStop
  BY <1>3 DEF Next, ClientAction, SessionStarts, SessionEnds, HookCalled, HookRegisters,
              HookWrites, HookFails, OrphansLook, OrphansList, vars
<1>4. QED
  BY <1>2, <1>3

\* Where a record comes from.
LEMMA RecordMoves ==
  ASSUME [Next]_vars, NEW r \in registry'
  PROVE  \/ r \in registry
         \/ /\ HookWrites
            /\ r = [id |-> Named(hook.session), identity |-> hook.identity]
         \/ \E l \in Launch :
              /\ AnonymousWrites(l)
              /\ r = [id |-> Anonymous(client[l].session), identity |-> client[l].identity]
BY DEF Next, SessionStarts, SessionEnds, HookCalled, HookRegisters, Truncate, HookWrites,
       HookFails, WriteRecord, LaunchBegins, CallerSession, AnonymousRegisters,
       AnonymousWrites, AnonymousFails, ClientDies, OrphansLook, OrphansList, OrphansStop, vars

LEMMA KnownMoves ==
  ASSUME [Next]_vars, NEW id \in known'
  PROVE  \/ id \in known
         \/ HookWrites /\ id = Named(hook.session)
         \/ \E l \in Launch : AnonymousWrites(l) /\ id = Anonymous(client[l].session)
BY DEF Next, SessionStarts, SessionEnds, HookCalled, HookRegisters, HookWrites, HookFails,
       WriteRecord, LaunchBegins, CallerSession, AnonymousRegisters, AnonymousWrites,
       AnonymousFails, ClientDies, OrphansLook, OrphansList, OrphansStop, vars

\* Where a failure is noted, and that a record, or a known id, takes its place.
LEMMA FailedMoves ==
  ASSUME [Next]_vars
  PROVE  /\ \A id \in failed' :
              \/ id \in failed
              \/ hook.pc # "off" /\ id = Named(hook.session)
              \/ \E l \in Launch : client[l].pc # "off" /\ id = Anonymous(client[l].session)
         /\ \A id \in failed : id \in failed' \/ id \in known'
<1>1. CASE HookWrites
  BY <1>1 DEF HookWrites, WriteRecord
<1>2. CASE HookFails
  BY <1>2 DEF HookFails, RegistrationFails
<1>3. ASSUME NEW l \in Launch, AnonymousWrites(l)
      PROVE  \A id : id \in failed' => id \in failed
  BY <1>3 DEF AnonymousWrites, WriteRecord
<1>4. ASSUME NEW l \in Launch, AnonymousWrites(l)
      PROVE  \A id \in failed : id \in failed' \/ id \in known'
  BY <1>4 DEF AnonymousWrites, WriteRecord
<1>5. ASSUME NEW l \in Launch, AnonymousFails(l) \/ ClientDies(l)
      PROVE  /\ client[l].pc # "off"
             /\ \A id \in failed' : id \in failed \/ id = Anonymous(client[l].session)
             /\ \A id \in failed : id \in failed'
  BY <1>5 DEF AnonymousFails, ClientDies, RegistrationFails
<1>6. ASSUME ~HookWrites, ~HookFails,
             \A l \in Launch : ~AnonymousWrites(l) /\ ~AnonymousFails(l) /\ ~ClientDies(l)
      PROVE  failed' = failed
  BY <1>6 DEF Next, SessionStarts, SessionEnds, HookCalled, HookRegisters, LaunchBegins,
              CallerSession, AnonymousRegisters, OrphansLook, OrphansList, OrphansStop, vars
<1>7. QED
  BY <1>1, <1>2, <1>3, <1>4, <1>5, <1>6

-----------------------------------------------------------------------------
(* Owners are known.                                                       *)

LEMMA JobInit == Init => JobInv
BY DEF Init, JobInv, NoWriter, NoJob

LEMMA JobNext == TypeOK /\ WriterInv /\ JobInv /\ [Next]_vars => JobInv'
<1> SUFFICES ASSUME TypeOK, WriterInv, JobInv, [Next]_vars
             PROVE  JobInv'
  OBVIOUS
<1>0. Begun \subseteq Begun' /\ known \subseteq known'
  BY BegunGrows
<1>1. ASSUME NEW id \in known' \cup failed'
      PROVE  \E n \in Begun' : id \in Ids(n)
  <2>1. \/ id \in known \cup failed
        \/ hook.pc # "off" /\ id = Named(hook.session)
        \/ \E l \in Launch : client[l].pc # "off" /\ id = Anonymous(client[l].session)
    BY <1>1, KnownMoves, FailedMoves DEF HookWrites, AnonymousWrites
  <2>2. QED
    BY <1>0, <2>1 DEF JobInv, WriterInv, Ids
<1>2. ASSUME NEW r \in registry'
      PROVE  r.id \in known'
  BY <1>0, <1>2, RecordMoves DEF JobInv, HookWrites, AnonymousWrites, WriteRecord
<1>3. ASSUME NEW l \in Launch
      PROVE  /\ client'[l].pc # "off" => job'[l].owner = NoId
             /\ job'[l].owner # NoId =>
                  job'[l].owner \in known' \cup failed' /\ job'[l].by \in Begun'
  <2>1. CASE ClientAction(l)
    <3>1. NoJob.owner = NoId
      BY DEF NoJob
    <3>2. OwningSession(client[l].session) # NoId =>
            OwningSession(client[l].session) \in known
      BY OwnerIsLive, LiveRecord DEF JobInv
    <3>3. /\ AnonymousWrites(l) => Anonymous(client[l].session) \in known'
          /\ AnonymousFails(l) => Anonymous(client[l].session) \in known' \cup failed'
      <4>1. AnonymousWrites(l) => Anonymous(client[l].session) \in known'
        BY DEF AnonymousWrites, WriteRecord
      <4>2. AnonymousFails(l) => Anonymous(client[l].session) \in known \cup failed'
        BY DEF AnonymousFails, RegistrationFails, JobInv
      <4>3. QED
        BY <1>0, <4>1, <4>2
    <3>4. client[l].pc # "off" => client[l].session \in Begun'
      BY <1>0 DEF WriterInv
    <3>5. client[l].pc # "off" => job[l].owner = NoId
      BY DEF JobInv
    <3>6. job[l].owner # NoId => job[l].owner \in known' \cup failed' /\ job[l].by \in Begun'
      BY <1>0, FailedMoves DEF JobInv
    <3>7. QED
      BY <1>0, <2>1, <3>1, <3>2, <3>3, <3>4, <3>5, <3>6, ClientMoves
  <2>2. ASSUME NEW k \in Launch, k # l, ClientAction(k)
        PROVE  client'[l] = client[l] /\ job'[l] = job[l]
    BY <2>2, ClientOwnMoves
  <2>3. ASSUME \A k \in Launch : ~ClientAction(k)
        PROVE  /\ client' = client
               /\ job'[l].owner = job[l].owner /\ job'[l].by = job[l].by
    BY <2>3, OthersLeaveClients, OwnersStay
  <2>4. QED
    BY <1>0, <2>1, <2>2, <2>3, FailedMoves DEF JobInv
<1>4. QED
  BY <1>1, <1>2, <1>3 DEF JobInv

-----------------------------------------------------------------------------
(* Unless a registration was overtaken, a record names its own process.    *)

LEMMA IdentityInit == Init => IdentityInv
BY DEF Init, IdentityInv, NoWriter, NoJob

LEMMA IdentityNext ==
  ASSUME TypeOK, WriterInv, JobInv, IdentityInv, [Next]_vars, ~overtaken'
  PROVE  IdentityInv'
<1>0. /\ Begun \subseteq Begun'
      /\ hook \in Writer({})
      /\ None \notin Begun
      /\ \A n : Named(n) \in Ids(n) /\ Anonymous(n) \in Ids(n)
  BY BegunGrows, BegunTypes DEF TypeOK, Ids
<1>1. hook'.pc = "writing" => hook'.identity = hook'.session
  <2>1. CASE HookRegisters
    <3>1. process = hook.session
      BY <2>1 DEF HookRegisters, Truncate
    <3>2. hook'.identity = process /\ hook'.session = hook.session
      BY <1>0, <2>1 DEF HookRegisters, Writer
    <3>3. QED
      BY <3>1, <3>2
  <2>2. CASE HookCalled \/ HookWrites \/ HookFails
    <3>1. HookCalled => hook'.pc = "called"
      BY DEF HookCalled, NoWriter
    <3>2. HookWrites \/ HookFails => hook'.pc = "off"
      BY DEF HookWrites, HookFails, NoWriter
    <3>3. QED
      BY <2>2, <3>1, <3>2
  <2>3. CASE hook' = hook
    BY <2>3 DEF IdentityInv
  <2>4. QED
    BY <2>1, <2>2, <2>3 DEF Next, SessionStarts, SessionEnds, LaunchBegins, CallerSession,
       AnonymousRegisters, AnonymousWrites, AnonymousFails, ClientDies, OrphansLook,
       OrphansList, OrphansStop, vars
<1>2. ASSUME NEW l \in Launch
      PROVE  client'[l].pc = "writing" => client'[l].identity = client'[l].session
  <2>1. CASE ClientAction(l)
    <3>1. AnonymousRegisters(l) => process = client[l].session
      BY DEF AnonymousRegisters, Truncate
    <3>2. QED
      BY <2>1, <3>1, ClientMoves
  <2>2. ASSUME ~ClientAction(l)
        PROVE  client'[l] = client[l]
    BY <2>2, ClientOwnMoves, OthersLeaveClients
  <2>3. QED
    BY <2>1, <2>2 DEF IdentityInv
<1>3. ASSUME NEW r \in registry'
      PROVE  r.identity \in Begun' /\ r.id \in Ids(r.identity)
  <2>1. CASE r \in registry
    BY <1>0, <2>1 DEF IdentityInv
  <2>2. CASE HookWrites /\ r = [id |-> Named(hook.session), identity |-> hook.identity]
    BY <1>0, <2>2 DEF HookWrites, IdentityInv, WriterInv
  <2>3. ASSUME NEW l \in Launch, AnonymousWrites(l),
               r = [id |-> Anonymous(client[l].session), identity |-> client[l].identity]
        PROVE  r.identity \in Begun' /\ r.id \in Ids(r.identity)
    BY <1>0, <2>3 DEF AnonymousWrites, IdentityInv, WriterInv
  <2>4. QED
    BY <2>1, <2>2, <2>3, RecordMoves
<1>4. ASSUME NEW l \in Launch, job'[l].owner # NoId
      PROVE  job'[l].owner \in Ids(job'[l].by)
  <2>1. CASE ClientAction(l)
    <3>1. OwningSession(client[l].session) # NoId =>
            OwningSession(client[l].session) \in Ids(client[l].session)
      <4>1. ASSUME OwningSession(client[l].session) # NoId
            PROVE  OwningSession(client[l].session) \in Ids(client[l].session)
        <5>1. /\ process = client[l].session
              /\ OwningSession(client[l].session) \in LiveIds
          BY <4>1, OwnerIsLive
        <5>2. PICK r \in registry : r.id = OwningSession(client[l].session) /\ IsLive(r)
          BY <5>1, LiveRecord
        <5>3. r.identity = process /\ r.id \in Ids(r.identity)
          BY <1>0, <5>2 DEF IsLive, IdentityInv
        <5>4. QED
          BY <5>1, <5>2, <5>3
      <4>2. QED
        BY <4>1
    <3>2. QED
      BY <1>0, <1>4, <2>1, <3>1, ClientMoves DEF IdentityInv
  <2>2. ASSUME ~ClientAction(l)
        PROVE  job'[l].owner = job[l].owner /\ job'[l].by = job[l].by
    BY <2>2, ClientOwnMoves, OwnersStay
  <2>3. QED
    BY <1>4, <2>1, <2>2 DEF IdentityInv
<1>5. QED
  BY <1>1, <1>2, <1>3, <1>4 DEF IdentityInv

\* A job is owned by the session that launched it or by none, whatever files dead
\* sessions left for the next process with their pid, unless a session ended in the
\* middle of a registration (is_live, caller_session); for any number of sessions and
\* launches.
THEOREM NoStrangers == Spec => []NoStrangerClaimed
<1>1. (~overtaken => IdentityInv) => NoStrangerClaimed
  BY DEF IdentityInv, NoStrangerClaimed, Ids
<1>2. Init => (~overtaken => IdentityInv)
  BY IdentityInit
<1>3. TypeOK /\ WriterInv /\ JobInv /\ (~overtaken => IdentityInv) /\ [Next]_vars
        => (~overtaken => IdentityInv)'
  BY IdentityNext, BegunGrows
<1>4. QED
  BY <1>1, <1>2, <1>3, TypeInit, TypeNext, JobInit, JobNext, PTL DEF Spec

-----------------------------------------------------------------------------
(* The ids of the session that lives are found.                            *)

LEMMA BeingWrittenIs ==
  ASSUME TypeOK, WriterInv, NEW id
  PROVE  id \in BeingWritten <=>
           \/ hook.pc = "writing" /\ id = Named(hook.session)
           \/ \E l \in Launch : client[l].pc = "writing" /\ id = Anonymous(client[l].session)
<1>1. hook.pc # "off" => hook.session \in Session
  BY BegunTypes DEF WriterInv, TypeOK
<1>2. QED
  BY <1>1 DEF BeingWritten

LEMMA BeingWrittenIsNext ==
  ASSUME TypeOK', WriterInv', NEW id
  PROVE  id \in BeingWritten' <=>
           \/ hook'.pc = "writing" /\ id = Named(hook'.session)
           \/ \E l \in Launch : client'[l].pc = "writing" /\ id = Anonymous(client'[l].session)
<1>1. \A n \in Begun' : n \in Session
  BY SessionAssumption DEF TypeOK, Begun, Session
<1>2. hook'.pc # "off" => hook'.session \in Session
  BY <1>1 DEF WriterInv
<1>3. QED
  BY <1>2 DEF BeingWritten

\* A registration that begins hides its own id only, and this one is being written.
LEMMA TruncateKeepsLive ==
  ASSUME NEW n, NEW id, Truncate(n, id), UNCHANGED process
  PROVE  \A i \in LiveIds : i # id => i \in LiveIds'
BY DEF Truncate, LiveIds, IsLive

\* One that ends hides none, and its own id is live if its process is.
LEMMA WriteKeepsLive ==
  ASSUME NEW id, NEW identity, WriteRecord(id, identity), UNCHANGED process
  PROVE  /\ \A i \in LiveIds : i # id => i \in LiveIds'
         /\ process # None /\ identity = process => id \in LiveIds'
         /\ \A i \in failed : i # id => i \in failed'
<1> DEFINE new == [id |-> id, identity |-> identity]
<1>1. registry' = {r \in registry : r.id # id} \cup {new} /\ new.id = id
      /\ new.identity = identity
  BY DEF WriteRecord
<1>2. ASSUME NEW r \in registry, r.id # id, IsLive(r)
      PROVE  r.id \in LiveIds'
  BY <1>1, <1>2 DEF LiveIds, IsLive
<1>3. ASSUME process # None, identity = process
      PROVE  id \in LiveIds'
  BY <1>1, <1>3 DEF LiveIds, IsLive
<1>4. QED
  BY <1>2, <1>3, LiveRecord DEF WriteRecord

\* One that fails leaves the record that is there, or is noted.
LEMMA FailureIsNoted ==
  ASSUME IdentityInv, NEW id, RegistrationFails(id), UNCHANGED <<process, registry>>,
         None \notin Begun
  PROVE  /\ \A i \in LiveIds : i \in LiveIds'
         /\ \A i \in failed : i \in failed'
         /\ process # None /\ id \in Ids(process) => id \in LiveIds' \/ id \in failed'
<1>1. LiveIds' = LiveIds
  BY DEF LiveIds, IsLive
<1>2. ASSUME process # None, id \in Ids(process), id \notin failed'
      PROVE  id \in LiveIds
  <2>1. PICK r \in registry : r.id = id
    BY <1>2 DEF RegistrationFails
  <2>2. r.identity = process
    BY <1>2, <2>1, IdsApart DEF IdentityInv
  <2>3. QED
    BY <1>2, <2>1, <2>2 DEF LiveIds, IsLive
<1>3. QED
  BY <1>1, <1>2 DEF RegistrationFails

LEMMA LiveInit == Init => LiveInv
BY DEF Init, LiveInv

LEMMA LiveNext ==
  ASSUME TypeOK, WriterInv, JobInv, IdentityInv, LiveInv, [Next]_vars, ~overtaken'
  PROVE  LiveInv'
<1> SUFFICES ASSUME NEW id \in known', process' # None, id \in Ids(process')
             PROVE  id \in LiveIds' \/ id \in BeingWritten' \/ id \in failed'
  BY DEF LiveInv
<1>0. /\ TypeOK' /\ WriterInv'
      /\ started \in 0 .. Starts /\ None \notin Begun
      /\ hook \in Writer({})
      /\ \A n : Named(n) \in Ids(n) /\ Anonymous(n) \in Ids(n)
  BY TypeNext, BegunTypes DEF TypeOK, Ids
<1>1. ASSUME id \in known, process' = process
      PROVE  id \in LiveIds \/ id \in BeingWritten \/ id \in failed
  BY <1>1 DEF LiveInv
<1>2. CASE SessionStarts
  <2>1. id \in known /\ process' = started + 1
    BY <1>2 DEF SessionStarts
  <2>2. PICK n \in Begun : id \in Ids(n)
    BY <2>1 DEF JobInv
  <2>3. n # started + 1
    BY <1>0, BegunTypes
  <2>4. QED
    BY <2>1, <2>2, <2>3, IdsApart
<1>3. ~SessionEnds
  BY DEF SessionEnds
<1>4. CASE UNCHANGED <<process, registry, known, failed>> /\ BeingWritten' = BeingWritten
  <2>1. LiveIds' = LiveIds
    BY <1>4 DEF LiveIds, IsLive
  <2>2. QED
    BY <1>1, <1>4, <2>1
<1>5. CASE HookRegisters
  <2>1. /\ Truncate(hook.session, Named(hook.session))
        /\ UNCHANGED <<process, known, client, failed>>
        /\ hook'.pc = "writing" /\ hook'.session = hook.session /\ hook.pc = "called"
    BY <1>0, <1>5 DEF HookRegisters, Writer
  <2>2. Named(hook.session) \in BeingWritten'
    BY <1>0, <2>1, BeingWrittenIsNext
  <2>3. \A i \in BeingWritten : i \in BeingWritten'
    BY <1>0, <2>1, BeingWrittenIs, BeingWrittenIsNext
  <2>4. \A i \in LiveIds : i # Named(hook.session) => i \in LiveIds'
    BY <2>1, TruncateKeepsLive
  <2>5. QED
    BY <1>1, <2>1, <2>2, <2>3, <2>4
<1>6. CASE HookWrites
  <2>1. /\ WriteRecord(Named(hook.session), hook.identity)
        /\ UNCHANGED <<process, client>>
        /\ hook.pc = "writing" /\ hook.identity = hook.session
    BY <1>6 DEF HookWrites, IdentityInv
  <2>2. /\ \A i \in LiveIds : i # Named(hook.session) => i \in LiveIds'
        /\ \A i \in failed : i # Named(hook.session) => i \in failed'
        /\ process # None /\ hook.identity = process => Named(hook.session) \in LiveIds'
    BY <2>1, WriteKeepsLive
  <2>3. \A i \in BeingWritten : i # Named(hook.session) => i \in BeingWritten'
    BY <1>0, <2>1, BeingWrittenIs, BeingWrittenIsNext
  <2>4. CASE id = Named(hook.session)
    <3>1. process = hook.session
      BY <1>0, <2>1, <2>4, IdsApart
    <3>2. QED
      BY <2>1, <2>2, <2>4, <3>1
  <2>5. CASE id # Named(hook.session)
    BY <1>1, <2>1, <2>2, <2>3, <2>5 DEF WriteRecord
  <2>6. QED
    BY <2>4, <2>5
<1>7. ASSUME NEW l \in Launch, AnonymousRegisters(l)
      PROVE  id \in LiveIds' \/ id \in BeingWritten' \/ id \in failed'
  <2> DEFINE own == Anonymous(client[l].session)
  <2>1. /\ Truncate(client[l].session, own) /\ UNCHANGED <<process, known, hook, failed>>
        /\ client'[l].pc = "writing" /\ client'[l].session = client[l].session
        /\ \A k \in Launch : k # l => client'[k] = client[k]
    <3>1. /\ client[l] \in Writers
          /\ client'[l] = [client[l] EXCEPT !.pc = "writing", !.identity = process]
      BY <1>7 DEF AnonymousRegisters, TypeOK, Writers
    <3>2. client'[l].pc = "writing" /\ client'[l].session = client[l].session
      BY <3>1 DEF Writers, Writer
    <3>3. \A k \in Launch : k # l => client'[k] = client[k]
      BY <1>7, ClientOwnMoves DEF ClientAction
    <3>4. QED
      BY <1>7, <3>2, <3>3 DEF AnonymousRegisters
  <2>2. own \in BeingWritten'
    BY <1>0, <2>1, BeingWrittenIsNext
  <2>3. \A i \in BeingWritten : i \in BeingWritten'
    BY <1>0, <2>1, BeingWrittenIs, BeingWrittenIsNext
  <2>4. \A i \in LiveIds : i # own => i \in LiveIds'
    BY <2>1, TruncateKeepsLive
  <2>5. QED
    BY <1>1, <2>1, <2>2, <2>3, <2>4
<1>8. ASSUME NEW l \in Launch, AnonymousWrites(l)
      PROVE  id \in LiveIds' \/ id \in BeingWritten' \/ id \in failed'
  <2> DEFINE own == Anonymous(client[l].session)
  <2>1. /\ WriteRecord(own, client[l].identity)
        /\ UNCHANGED <<process, hook>>
        /\ client[l].pc = "writing" /\ client[l].identity = client[l].session
        /\ \A k \in Launch : k # l => client'[k] = client[k]
    BY <1>8, ClientOwnMoves DEF ClientAction, AnonymousWrites, IdentityInv
  <2>2. /\ \A i \in LiveIds : i # own => i \in LiveIds'
        /\ \A i \in failed : i # own => i \in failed'
        /\ process # None /\ client[l].identity = process => own \in LiveIds'
    BY <2>1, WriteKeepsLive
  <2>3. \A i \in BeingWritten : i # own => i \in BeingWritten'
    BY <1>0, <2>1, BeingWrittenIs, BeingWrittenIsNext
  <2>4. CASE id = own
    <3>1. process = client[l].session
      BY <1>0, <2>1, <2>4, IdsApart
    <3>2. QED
      BY <2>1, <2>2, <2>4, <3>1
  <2>5. CASE id # own
    BY <1>1, <2>1, <2>2, <2>3, <2>5 DEF WriteRecord
  <2>6. QED
    BY <2>4, <2>5
<1>81. CASE HookFails
  <2>1. /\ RegistrationFails(Named(hook.session)) /\ UNCHANGED <<process, registry, known, client>>
        /\ hook.pc # "off"
    BY <1>81 DEF HookFails
  <2>2. \A i \in BeingWritten : i # Named(hook.session) => i \in BeingWritten'
    BY <1>0, <2>1, BeingWrittenIs, BeingWrittenIsNext
  <2>3. /\ \A i \in LiveIds : i \in LiveIds'
        /\ \A i \in failed : i \in failed'
        /\ Named(hook.session) \in Ids(process) =>
             Named(hook.session) \in LiveIds' \/ Named(hook.session) \in failed'
    BY <1>0, <2>1, FailureIsNoted
  <2>4. QED
    BY <1>1, <2>1, <2>2, <2>3
<1>82. ASSUME NEW l \in Launch, AnonymousFails(l) \/ ClientDies(l)
       PROVE  id \in LiveIds' \/ id \in BeingWritten' \/ id \in failed'
  <2> DEFINE own == Anonymous(client[l].session)
  <2>1. /\ UNCHANGED <<process, registry, known, hook>>
        /\ \A k \in Launch : k # l => client'[k] = client[k]
    BY <1>82, ClientOwnMoves DEF ClientAction, AnonymousFails, ClientDies
  <2>2. CASE RegistrationFails(own)
    <3>1. \A i \in BeingWritten : i # own => i \in BeingWritten'
      BY <1>0, <2>1, BeingWrittenIs, BeingWrittenIsNext
    <3>2. /\ \A i \in LiveIds : i \in LiveIds'
          /\ \A i \in failed : i \in failed'
          /\ own \in Ids(process) => own \in LiveIds' \/ own \in failed'
      BY <1>0, <2>1, <2>2, FailureIsNoted
    <3>3. QED
      BY <1>1, <2>1, <3>1, <3>2
  <2>3. CASE client[l].pc # "writing" /\ failed' = failed
    <3>1. \A i \in BeingWritten : i \in BeingWritten'
      BY <1>0, <2>1, <2>3, BeingWrittenIs, BeingWrittenIsNext
    <3>2. LiveIds' = LiveIds
      BY <2>1 DEF LiveIds, IsLive
    <3>3. QED
      BY <1>1, <2>1, <2>3, <3>1, <3>2
  <2>4. QED
    BY <1>82, <2>2, <2>3 DEF AnonymousFails, ClientDies
<1>9. CASE HookCalled
  <2>1. /\ hook.pc = "off" /\ hook'.pc = "called"
        /\ UNCHANGED <<process, registry, known, client, failed>>
    BY <1>9 DEF HookCalled, NoWriter
  <2>2. BeingWritten' = BeingWritten
    BY <2>1 DEF BeingWritten
  <2>3. QED
    BY <1>4, <2>1, <2>2
<1>10. ASSUME NEW l \in Launch, LaunchBegins(l) \/ CallerSession(l)
       PROVE  id \in LiveIds' \/ id \in BeingWritten' \/ id \in failed'
  <2>1. /\ UNCHANGED <<process, registry, known, hook, failed>>
        /\ client[l].pc # "writing" /\ client'[l].pc # "writing"
        /\ \A k \in Launch : k # l => client'[k] = client[k]
    BY <1>10, ClientMoves, ClientOwnMoves
    DEF ClientAction, AnonymousRegisters, LaunchBegins, CallerSession, AnonymousWrites
  <2>2. \A i \in BeingWritten : i \in BeingWritten'
    BY <1>0, <2>1, BeingWrittenIs, BeingWrittenIsNext
  <2>3. LiveIds' = LiveIds
    BY <2>1 DEF LiveIds, IsLive
  <2>4. QED
    BY <1>1, <2>1, <2>2, <2>3
<1>11. CASE OrphansLook \/ OrphansList \/ OrphansStop \/ UNCHANGED vars
  <2>1. UNCHANGED <<process, registry, known, hook, client, failed>>
    BY <1>11 DEF OrphansLook, OrphansList, OrphansStop, vars
  <2>2. BeingWritten' = BeingWritten
    BY <2>1 DEF BeingWritten
  <2>3. QED
    BY <1>4, <2>1, <2>2
<1>12. QED
  BY <1>2, <1>3, <1>5, <1>6, <1>7, <1>8, <1>81, <1>82, <1>9, <1>10, <1>11 DEF Next

\* While a session lives, the owner that its jobs name is registered and taken for
\* live, whichever of its two ids that is and however often it is registered again,
\* except while that very file is being written, or from a registration that failed,
\* which caller_session passes over, to the next that succeeds (caller_session,
\* register); for any number of sessions, launches and failures.
THEOREM OwnersLive == Spec => []OwnersAreLive
<1>1. TypeOK /\ WriterInv /\ JobInv /\ (~overtaken => IdentityInv /\ LiveInv) => OwnersAreLive
  <2>1. ASSUME TypeOK, JobInv, IdentityInv, LiveInv, NEW l \in Launch,
               job[l].owner # NoId, process = job[l].by
        PROVE  job[l].owner \in LiveIds \cup BeingWritten \cup failed
    <3>1. /\ job[l].owner \in known \cup failed
          /\ job[l].by \in Begun /\ job[l].owner \in Ids(job[l].by)
      BY <2>1 DEF JobInv, IdentityInv
    <3>2. process # None
      BY <2>1, <3>1, BegunTypes DEF TypeOK
    <3>3. QED
      BY <2>1, <3>1, <3>2 DEF LiveInv
  <2>2. QED
    BY <2>1 DEF OwnersAreLive
<1>2. Init => (~overtaken => IdentityInv /\ LiveInv)
  BY IdentityInit, LiveInit
<1>3. TypeOK /\ WriterInv /\ JobInv /\ (~overtaken => IdentityInv /\ LiveInv) /\ [Next]_vars
        => (~overtaken => IdentityInv /\ LiveInv)'
  BY IdentityNext, LiveNext, BegunGrows
<1>4. QED
  BY <1>1, <1>2, <1>3, TypeInit, TypeNext, JobInit, JobNext, PTL DEF Spec

-----------------------------------------------------------------------------
(* What a run of `om orphans` stops.                                       *)

LEMMA SweepInit == Init => SweepInv
BY DEF Init, SweepInv, NoSweep

\* Where a live session is, or one to come.
Coming == {n \in Session : n = process \/ n > started}

LEMMA ComingShrinks ==
  ASSUME TypeOK, [Next]_vars
  PROVE  Coming' \subseteq Coming
<1>1. CASE SessionStarts
  BY <1>1 DEF SessionStarts, Coming, TypeOK, Session
<1>2. CASE SessionEnds
  BY <1>2 DEF SessionEnds, Coming, None, Session
<1>3. ~SessionStarts /\ ~SessionEnds => UNCHANGED <<process, started>>
  BY DEF Next, HookCalled, HookRegisters, HookWrites, HookFails, LaunchBegins, CallerSession,
         AnonymousRegisters, AnonymousWrites, AnonymousFails, ClientDies, OrphansLook,
         OrphansList, OrphansStop, vars
<1>4. QED
  BY <1>1, <1>2, <1>3 DEF Coming

LEMMA SweepNext ==
  ASSUME TypeOK, WriterInv, JobInv, IdentityInv, LiveInv, SweepInv, [Next]_vars
  PROVE  SweepInv'
<1>0. /\ started \in 0 .. Starts
      /\ sweep \in Sweep
      /\ \A n \in Begun : n \in Session /\ ~(n > started) /\ n # None
      /\ Coming' \subseteq Coming
      /\ None \notin Session
  BY BegunTypes, ComingShrinks DEF TypeOK
<1>1. ASSUME sweep'.pc = "looked"
      PROVE  \A n \in Coming' : Ids(n) \subseteq sweep'.live \cup sweep'.blind
  <2>1. CASE OrphansLook
    <3>1. sweep'.live = LiveIds /\ sweep'.blind = BeingWritten \cup failed \cup (SessionId \ known)
      BY <2>1 DEF OrphansLook, NoSweep
    <3>2. ASSUME NEW n \in Coming, NEW id \in Ids(n), id \in known
          PROVE  id \in LiveIds \cup BeingWritten \cup failed
      <4>1. PICK m \in Begun : id \in Ids(m)
        BY <3>2 DEF JobInv
      <4>2. m = n
        BY <3>2, <4>1, IdsApart
      <4>3. process = n /\ process # None
        BY <1>0, <4>1, <4>2 DEF Coming
      <4>4. QED
        BY <3>2, <4>3 DEF LiveInv
    <3>3. \A n \in Coming : Ids(n) \subseteq SessionId
      BY IdTypes DEF Coming
    <3>4. QED
      BY <1>0, <3>1, <3>2, <3>3
  <2>2. CASE sweep' = sweep
    BY <1>0, <1>1, <2>2 DEF SweepInv, Coming
  <2>3. CASE OrphansList
    BY <1>0, <1>1, <2>3 DEF OrphansList, Sweep
  <2>4. CASE OrphansStop
    <3>1. sweep.pc = "listed" /\ (sweep' = NoSweep \/ sweep'.pc = sweep.pc)
      BY <1>0, <2>4 DEF OrphansStop, Sweep
    <3>2. QED
      BY <1>1, <3>1 DEF NoSweep
  <2>5. QED
    BY <2>1, <2>2, <2>3, <2>4 DEF Next, SessionStarts, SessionEnds, HookCalled, HookRegisters,
       HookWrites, HookFails, LaunchBegins, CallerSession, AnonymousRegisters, AnonymousWrites,
       AnonymousFails, ClientDies, vars
<1>2. ASSUME sweep'.pc = "listed", NEW l \in sweep'.orphaned
      PROVE  /\ job'[l].owner # NoId
             /\ job'[l].by = process' => job'[l].owner \in sweep'.blind
  <2>1. CASE OrphansList
    <3>1. /\ sweep.pc = "looked" /\ UNCHANGED <<job, process>>
          /\ sweep'.blind = sweep.blind
          /\ l \in Launch /\ job[l].owner \notin sweep.live /\ job[l].owner # NoId
      BY <1>0, <1>2, <2>1 DEF OrphansList, Sweep
    <3>2. job[l].by \in Begun /\ job[l].owner \in Ids(job[l].by)
      BY <3>1 DEF JobInv, IdentityInv
    <3>3. job[l].by = process => Ids(job[l].by) \subseteq sweep.live \cup sweep.blind
      BY <1>0, <3>1, <3>2 DEF SweepInv
    <3>4. QED
      BY <3>1, <3>2, <3>3
  <2>2. ASSUME sweep.pc = "listed", sweep'.blind = sweep.blind, l \in sweep.orphaned
        PROVE  /\ job'[l].owner # NoId
               /\ job'[l].by = process' => job'[l].owner \in sweep'.blind
    <3>1. l \in Launch /\ job[l].owner # NoId
      BY <1>0, <2>2 DEF SweepInv, Sweep
    <3>2. job'[l].owner = job[l].owner /\ job'[l].by = job[l].by
      <4>1. CASE ClientAction(l)
        <5>1. client[l].pc = "off" /\ job[l] # NoJob
          BY <3>1 DEF JobInv, NoJob
        <5>2. QED
          BY <3>1, <4>1, <5>1, ClientMoves
      <4>2. CASE ~ClientAction(l)
        BY <3>1, <4>2, ClientOwnMoves, OwnersStay
      <4>3. QED
        BY <4>1, <4>2
    <3>3. job[l].by \in Begun /\ (job[l].by = process => job[l].owner \in sweep.blind)
      BY <2>2, <3>1 DEF JobInv, SweepInv
    <3>4. job[l].by \in Coming' => job[l].by \in Coming
      BY <1>0
    <3>5. job[l].by = process' => job[l].by = process
      BY <1>0, <3>3, <3>4 DEF Coming
    <3>6. QED
      BY <2>2, <3>1, <3>2, <3>3, <3>5
  <2>3. CASE sweep' = sweep
    BY <1>2, <2>2, <2>3
  <2>4. CASE OrphansStop
    <3>1. sweep' # NoSweep
      BY <1>2 DEF NoSweep
    <3>2. /\ sweep.pc = "listed" /\ sweep'.blind = sweep.blind
          /\ sweep'.orphaned \subseteq sweep.orphaned
      BY <1>0, <2>4, <3>1 DEF OrphansStop, Sweep
    <3>3. QED
      BY <1>2, <2>2, <3>2
  <2>5. ~OrphansLook
    BY <1>2 DEF OrphansLook, NoSweep
  <2>6. QED
    BY <2>1, <2>3, <2>4, <2>5 DEF Next, SessionStarts, SessionEnds, HookCalled, HookRegisters,
       HookWrites, HookFails, LaunchBegins, CallerSession, AnonymousRegisters, AnonymousWrites,
       AnonymousFails, ClientDies, vars
<1>3. QED
  BY <1>1, <1>2 DEF SweepInv, Coming

LEMMA IInvInit == Init => TypeOK /\ IInv
BY TypeInit, JobInit, IdentityInit, LiveInit, SweepInit DEF IInv

LEMMA IInvNext == TypeOK /\ IInv /\ [Next]_vars => TypeOK' /\ IInv'
BY TypeNext, JobNext, IdentityNext, LiveNext, SweepNext, BegunGrows DEF IInv

\* `om orphans --stop` stops a job of a session that lives only if the session was
\* being registered, or not yet registered, or its registration had failed, when it
\* looked, however processes,
\* registrations and launches come in between (_orphans); for any number of them.
THEOREM OnlyOrphansStopped == Spec => StopsOrphans
<1>1. ASSUME TypeOK, IInv, [Next]_vars, NEW l \in Launch, job[l].state = "active",
             job'[l].state = "stopped", ~overtaken, process = job[l].by
      PROVE  job[l].owner \in sweep.blind
  <2>1. job \in [Launch -> Job] /\ sweep \in Sweep
    BY <1>1 DEF TypeOK
  <2>2. job'[l] # job[l]
    BY <1>1
  <2>3. ~ClientAction(l)
    BY <1>1, <2>1 DEF ClientAction, LaunchBegins, CallerSession, AnonymousRegisters,
                      AnonymousWrites, AnonymousFails, ClientDies, RunFor
  <2>4. \A k \in Launch : ~ClientAction(k)
    BY <1>1, <2>2, <2>3, ClientOwnMoves
  <2>5. OrphansStop
    BY <1>1, <2>2, <2>4 DEF Next, ClientAction, SessionStarts, SessionEnds, HookCalled,
       HookRegisters, HookWrites, HookFails, OrphansLook, OrphansList, vars
  <2>6. sweep.pc = "listed" /\ l \in sweep.orphaned
    BY <2>1, <2>2, <2>5 DEF OrphansStop
  <2>7. QED
    BY <1>1, <2>6 DEF IInv, SweepInv
<1>2. TypeOK /\ IInv /\ [Next]_vars =>
        [\A l \in Launch :
           job[l].state = "active" /\ job'[l].state = "stopped" /\ ~overtaken
             => process # job[l].by \/ job[l].owner \in sweep.blind]_vars
  BY <1>1
<1>3. QED
  BY <1>2, IInvInit, IInvNext, PTL DEF Spec, StopsOrphans

=============================================================================
