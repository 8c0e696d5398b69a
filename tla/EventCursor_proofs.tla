-------------------------- MODULE EventCursor_proofs --------------------------
(***************************************************************************)
(* Proofs about EventCursor.tla, for any number of jobs, of threads of the *)
(* broker and of events, and for any page limit.                           *)
(*                                                                         *)
(* The last row of the ledger is never deleted, so the latest cursor is    *)
(* its length; a page is the beginning of the rows after a cursor.  What   *)
(* an await read stays true of the rows up to there; and as long as nobody *)
(* committed since it read the generation, all of it is current.           *)
(***************************************************************************)
EXTENDS EventCursor, FiniteSetTheorems, SequenceTheorems, WellFoundedInduction, TLAPS

LastIsKept == ledger # <<>> => ledger[Len(ledger)] # Deleted

\* The events that the answer would carry are those up to its cursor.
PageInv ==
  /\ w.pc = "latest" => w.page = {}
  /\ w.pc = "decide" /\ w.page # {} =>
       \A c \in EventsAfter(w.cursor) : c <= w.latest => c \in w.page

\* A job that was seen to have ended does not end again, and no event of its end is
\* after an empty page.
EndInv ==
  w.pc \in {"events", "latest", "decide"} =>
    /\ \A j \in w.ended : jobState[j] \in {"ended", "forgotten"}
    /\ (w.pc # "events" /\ w.page = {}) =>
         \A c \in EventsAfter(w.cursor) : ledger[c].ends => ledger[c].subject \notin w.ended

\* Nothing was committed since the await read the generation.
Reading == {"jobs", "events", "latest", "decide", "wait"}
Fresh ==
  /\ ~dropped
  /\ \A t \in Writers : ~due[t]
  /\ w.pc \in Reading => w.gen = generation

FreshInv ==
  /\ w.pc \in Reading => w.gen <= generation
  /\ Fresh =>
       /\ w.pc \in {"events", "latest", "decide"} =>
            w.jobs = TargetJobs /\ w.ended = TargetJobs \cap EndedJobs
       /\ w.pc \in {"latest", "decide"} /\ w.page = {} => EventsAfter(w.cursor) = {}
       /\ w.pc \in {"wait", "asleep"} => ~HoldsNow

\* A caller that follows has the cursor of the latest message.
TakenIn == client.follows /\ w.pc # "idle" => client.latest.cursor = client.cursor

IInv == LastIsKept /\ PageInv /\ EndInv /\ FreshInv /\ TakenIn /\ ProgressLosesNothing

-----------------------------------------------------------------------------
(* The rows after a cursor, and a page of them.                            *)

LEMMA LeastNatural ==
  ASSUME NEW S \in SUBSET Nat, S # {}
  PROVE  \E m \in S : \A n \in S : m <= n
<1>1. PICK m \in S : \A n \in S : ~(<<n, m>> \in OpToRel(<, Nat))
  BY NatLessThanWellFounded, WFMin
<1>2. \A n \in S : ~(n < m)
  BY <1>1 DEF OpToRel
<1>3. QED
  BY <1>2

LEMMA GreatestNatural ==
  ASSUME NEW S \in SUBSET Nat, S # {}, NEW b \in Nat, \A n \in S : n <= b
  PROVE  \E m \in S : \A n \in S : n <= m
<1> DEFINE T == {b - n : n \in S}
<1>1. T \in SUBSET Nat
  OBVIOUS
<1>2. T # {}
  <2>1. PICK n \in S : TRUE
    OBVIOUS
  <2>2. b - n \in T
    BY <2>1
  <2>3. QED
    BY <2>2
<1>3. PICK d \in T : \A e \in T : d <= e
  BY <1>1, <1>2, LeastNatural
<1>4. PICK m \in S : d = b - m
  OBVIOUS
<1>5. \A n \in S : b - m <= b - n
  BY <1>3, <1>4
<1>6. QED
  BY <1>5

\* The cursors after n of the rows of l that concern g.
Seen(l, g, n) ==
  {c \in 1 .. Len(l) : /\ c > n
                       /\ IF g = "group" THEN l[c].subject \in Jobs \cup {"group"}
                                         ELSE l[c].subject = g}

LEMMA AfterIs ==
  /\ \A n : EventsAfter(n) = Seen(ledger, target, n)
  /\ EventsAfter(w.cursor)' = Seen(ledger', target', w'.cursor)
  /\ EventsAfter(client.base)' = Seen(ledger', target', client'.base)
BY DEF EventsAfter, Seen, Concerns, Cursors

LEMMA PageIsPrefix ==
  ASSUME TypeOK, NEW n \in Nat
  PROVE  /\ EventsSince(n) \subseteq EventsAfter(n)
         /\ EventsAfter(n) \subseteq Cursors
         /\ \A d \in EventsSince(n), c \in EventsAfter(n) : c <= d => c \in EventsSince(n)
         /\ EventsSince(n) = {} => EventsAfter(n) = {}
<1> DEFINE all == EventsAfter(n)
           upTo(c) == {d \in all : d <= c}
<1>1. /\ Len(ledger) \in Nat
      /\ all \subseteq Cursors /\ all \subseteq Nat
  BY DEF TypeOK, EventsAfter, Cursors
<1>2. IsFiniteSet(all)
  <2>1. 1 \in Int /\ Len(ledger) \in Int
    BY <1>1
  <2>2. IsFiniteSet(Cursors)
    BY <2>1, FS_Interval DEF Cursors
  <2>3. all \in SUBSET Cursors
    BY <1>1
  <2>4. QED
    BY <2>2, <2>3, FS_Subset
<1>3. ASSUME NEW c \in all
      PROVE  IsFiniteSet(upTo(c)) /\ Cardinality(upTo(c)) \in Nat
  <2>1. upTo(c) \in SUBSET all
    OBVIOUS
  <2>2. QED
    BY <1>2, <2>1, FS_Subset, FS_CardinalityType
<1>4. EventsSince(n) = {c \in all : Cardinality(upTo(c)) <= PageLimit}
  BY DEF EventsSince
<1>5. ASSUME NEW d \in EventsSince(n), NEW c \in all, c <= d
      PROVE  c \in EventsSince(n)
  <2>1. d \in all /\ Cardinality(upTo(d)) <= PageLimit
    BY <1>4
  <2>2. upTo(c) \in SUBSET upTo(d)
    BY <1>1, <1>5, <2>1
  <2>3. Cardinality(upTo(c)) <= Cardinality(upTo(d))
    BY <1>3, <2>1, <2>2, FS_Subset
  <2>4. PageLimit \in Nat
    BY PageLimitAssumption
  <2>5. Cardinality(upTo(c)) \in Nat /\ Cardinality(upTo(d)) \in Nat
    BY <1>3, <2>1
  <2> HIDE DEF upTo
  <2>6. Cardinality(upTo(c)) <= PageLimit
    BY <2>1, <2>3, <2>4, <2>5
  <2>7. QED
    BY <1>4, <2>6
<1>6. ASSUME all # {}
      PROVE  EventsSince(n) # {}
  <2>1. PICK m \in all : \A c \in all : m <= c
    BY <1>1, <1>6, LeastNatural
  <2>2. upTo(m) = {m}
    BY <1>1, <2>1
  <2>3. Cardinality(upTo(m)) = 1
    BY <2>2, FS_Singleton
  <2>4. m \in EventsSince(n)
    BY <1>4, <2>3, PageLimitAssumption
  <2>5. QED
    BY <2>4
<1>7. QED
  BY <1>1, <1>4, <1>5, <1>6

LEMMA LastIsGreatest ==
  ASSUME TypeOK, NEW n \in Nat, EventsSince(n) # {}
  PROVE  /\ LastOf(EventsSince(n)) \in EventsSince(n)
         /\ \A c \in EventsSince(n) : c <= LastOf(EventsSince(n))
<1> DEFINE page == EventsSince(n)
<1>1. page \in SUBSET Nat /\ Len(ledger) \in Nat /\ \A c \in page : c <= Len(ledger)
  BY PageIsPrefix DEF TypeOK, Cursors
<1>2. \E m \in page : \A c \in page : c <= m
  BY <1>1, GreatestNatural
<1>3. QED
  BY <1>2 DEF LastOf

\* The latest cursor is the length of the ledger.
LEMMA LatestIsLength ==
  ASSUME TypeOK, LastIsKept
  PROVE  LatestCursor = Len(ledger)
<1>1. Len(ledger) \in Nat /\ (Len(ledger) > 0 => ledger # <<>>)
  BY DEF TypeOK
<1>2. IsLatest(Len(ledger))
  BY <1>1 DEF IsLatest, LastIsKept, Cursors
<1>3. ASSUME NEW n \in 0 .. Len(ledger), IsLatest(n)
      PROVE  n = Len(ledger)
  <2>1. CASE n < Len(ledger)
    <3>1. Len(ledger) \in Cursors /\ Len(ledger) > n /\ ledger # <<>>
      BY <1>1, <2>1 DEF Cursors
    <3>2. QED
      BY <1>3, <3>1 DEF IsLatest, LastIsKept
  <2>2. QED
    BY <1>1, <2>1
<1>4. QED
  BY <1>1, <1>2, <1>3 DEF LatestCursor

-----------------------------------------------------------------------------
(* What a transaction does to the ledger.                                  *)

\* Rows are added, the last of which stays; others may be deleted; and the ends that
\* are reported are those of the given jobs.
Grows(ends) ==
  /\ ledger' \in Seq(Event)
  /\ Len(ledger) < Len(ledger')
  /\ \A c \in Cursors : ledger'[c] \in {ledger[c], Deleted}
  /\ ledger'[Len(ledger')] # Deleted
  /\ \A c \in 1 .. Len(ledger') :
       c > Len(ledger) /\ ledger'[c].ends => ledger'[c].subject \in ends

LEMMA EventTypes ==
  /\ \A subject \in Subjects :
       Of(subject) \in Event /\ ~Of(subject).ends /\ Of(subject).subject = subject
  /\ \A j \in Jobs : EndOf(j) \in Event /\ EndOf(j).subject = j
  /\ Jobs \cup {"group", "elsewhere"} \subseteq Subjects
  /\ Deleted \in Event /\ Deleted.subject = "deleted" /\ ~Deleted.ends
  /\ \A event \in Event : event.subject # "deleted" => event # Deleted
  /\ "deleted" \notin Jobs
BY SubjectsAssumption DEF Of, EndOf, Deleted, Event, Subjects

LEMMA Extend ==
  ASSUME TypeOK, NEW rows \in Seq(Event), Len(rows) = Len(ledger),
         \A c \in Cursors : rows[c] \in {ledger[c], Deleted},
         NEW events \in Seq(Event), events # <<>>,
         events[Len(events)].subject # "deleted",
         NEW ends, \A n \in 1 .. Len(events) : events[n].ends => events[n].subject \in ends,
         ledger' = rows \o events
  PROVE  Grows(ends)
<1>1. /\ ledger' \in Seq(Event)
      /\ Len(ledger') = Len(rows) + Len(events)
      /\ \A c \in 1 .. Len(ledger') :
           ledger'[c] = IF c <= Len(rows) THEN rows[c] ELSE events[c - Len(rows)]
  <2>1. /\ rows \o events \in Seq(Event)
        /\ Len(rows \o events) = Len(rows) + Len(events)
        /\ \A i \in 1 .. Len(rows) + Len(events) : (rows \o events)[i] =
             IF i <= Len(rows) THEN rows[i] ELSE events[i - Len(rows)]
    BY ConcatProperties
  <2>2. QED
    BY <2>1
<1>2. Len(rows) \in Nat /\ Len(events) \in Nat /\ Len(events) > 0
  OBVIOUS
<1>3. \A c \in Cursors : ledger'[c] = rows[c]
  BY <1>1, <1>2 DEF Cursors
<1>4. ledger'[Len(ledger')] = events[Len(events)] /\ events[Len(events)] \in Event
  BY <1>1, <1>2
<1>5. ledger'[Len(ledger')] # Deleted
  BY <1>4, EventTypes
<1>6. ASSUME NEW c \in 1 .. Len(ledger'), c > Len(ledger), ledger'[c].ends
      PROVE  ledger'[c].subject \in ends
  <2>1. c - Len(rows) \in 1 .. Len(events) /\ ledger'[c] = events[c - Len(rows)]
    BY <1>1, <1>2, <1>6
  <2>2. QED
    BY <1>6, <2>1
<1>7. Len(ledger) < Len(ledger')
  BY <1>1, <1>2
<1>8. QED
  BY <1>1, <1>3, <1>5, <1>6, <1>7 DEF Grows

Running == {j \in Jobs : jobState[j] = "active"}
Over == {"ended", "forgotten"}

\* A transaction, and what the jobs table says of jobs that are over.
Committed(t) ==
  /\ Grows(Running)
  /\ jobState' \in [Jobs -> JobStates]
  /\ \A j \in Jobs : jobState[j] \in Over => jobState'[j] \in Over
  /\ due' = [due EXCEPT ![t] = TRUE]
  /\ UNCHANGED <<generation, closing, dropped, target, w, client>>

LEMMA OneRow ==
  ASSUME TypeOK, NEW event \in Event, event.subject # "deleted",
         event.ends => event.subject \in Running,
         ledger' = Append(ledger, event)
  PROVE  Grows(Running)
<1>1. /\ ledger \in Seq(Event) /\ Append(ledger, event) = ledger \o <<event>>
      /\ <<event>> \in Seq(Event)
  BY AppendIsConcat DEF TypeOK
<1>2. /\ <<event>> # <<>> /\ Len(<<event>>) = 1
      /\ \A n \in 1 .. Len(<<event>>) : <<event>>[n] = event
  OBVIOUS
<1>3. QED
  BY <1>1, <1>2, Extend

LEMMA WithoutRows ==
  ASSUME TypeOK, NEW subjects
  PROVE  /\ Without(subjects) \in Seq(Event)
         /\ Len(Without(subjects)) = Len(ledger)
         /\ \A c \in Cursors : Without(subjects)[c] \in {ledger[c], Deleted}
<1>1. Len(ledger) \in Nat /\ \A c \in 1 .. Len(ledger) : ledger[c] \in Event
  BY DEF TypeOK
<1>2. Without(subjects) = [c \in 1 .. Len(ledger) |->
        IF ledger[c].subject \in subjects THEN Deleted ELSE ledger[c]]
  BY DEF Without, Cursors
<1>3. QED
  BY <1>1, <1>2, EventTypes DEF Cursors

LEMMA LaunchCommits ==
  ASSUME TypeOK, NEW t \in Writers, NEW S \in SUBSET Jobs, Launch(t, S)
  PROVE  Committed(t)
<1> DEFINE group == IF NoJobYet THEN <<Of("group")>> ELSE <<>>
           rows(order) == [n \in DOMAIN order |-> Of(order[n])]
<1>1. PICK order \in Orders(S) : Commit(t, ledger \o (group \o rows(order)))
  BY DEF Launch
<1>2. IsFiniteSet(S) /\ Cardinality(S) \in Nat /\ Cardinality(S) # 0
  BY JobsAssumption, FS_Subset, FS_CardinalityType, FS_EmptySet DEF Launch
<1>3. /\ DOMAIN order = 1 .. Cardinality(S)
      /\ \A n \in 1 .. Cardinality(S) : order[n] \in Jobs
  BY <1>1 DEF Orders
<1>4. \A n \in 1 .. Cardinality(S) : /\ Of(order[n]) \in Event
                                     /\ ~Of(order[n]).ends
                                     /\ Of(order[n]).subject # "deleted"
  BY <1>3, EventTypes
<1>5. /\ rows(order) \in Seq(Event) /\ Len(rows(order)) = Cardinality(S)
      /\ \A n \in 1 .. Cardinality(S) : rows(order)[n] = Of(order[n])
  BY <1>2, <1>3, <1>4
<1>6. /\ group \in Seq(Event) /\ Len(group) \in Nat
      /\ \A n \in 1 .. Len(group) : group[n] = Of("group")
  BY EventTypes
<1> DEFINE events == group \o rows(order)
<1>7. /\ events \in Seq(Event)
      /\ Len(events) = Len(group) + Cardinality(S)
      /\ \A n \in 1 .. Len(group) + Cardinality(S) :
           events[n] = IF n <= Len(group) THEN group[n] ELSE rows(order)[n - Len(group)]
  BY <1>5, <1>6, ConcatProperties
<1> HIDE DEF group, rows, events
<1>8. ASSUME NEW n \in 1 .. Len(events)
      PROVE  ~events[n].ends
  <2>1. CASE n <= Len(group)
    <3>1. n \in 1 .. Len(group)
      BY <1>6, <1>7, <2>1
    <3>2. events[n] = Of("group")
      BY <1>2, <1>6, <1>7, <2>1, <3>1
    <3>3. QED
      BY <3>2, EventTypes
  <2>2. CASE ~(n <= Len(group))
    <3>1. n - Len(group) \in 1 .. Cardinality(S)
      BY <1>2, <1>6, <1>7, <2>2
    <3>2. events[n] = Of(order[n - Len(group)])
      BY <1>2, <1>5, <1>6, <1>7, <2>2, <3>1
    <3>3. QED
      BY <1>4, <3>1, <3>2
  <2>3. QED
    BY <2>1, <2>2
<1>9. events[Len(events)].subject # "deleted" /\ events # <<>>
  <2>1. Len(events) \in 1 .. Len(events) /\ ~(Len(events) <= Len(group))
        /\ Len(events) - Len(group) = Cardinality(S)
        /\ Cardinality(S) \in 1 .. Cardinality(S)
    BY <1>2, <1>6, <1>7
  <2>2. events[Len(events)] = Of(order[Cardinality(S)])
    BY <1>2, <1>5, <1>7, <2>1
  <2>3. QED
    BY <1>4, <1>7, <2>1, <2>2
<1>10. ledger' = ledger \o events /\ ledger \in Seq(Event)
  BY <1>1 DEF Commit, TypeOK, events
<1>11. Grows(Running)
  BY <1>7, <1>8, <1>9, <1>10, Extend
<1>12. /\ jobState' \in [Jobs -> JobStates]
       /\ \A j \in Jobs : jobState[j] \in Over => jobState'[j] \in Over
  BY DEF Launch, TypeOK, JobStates, Over
<1>13. QED
  BY <1>1, <1>11, <1>12 DEF Commit, Committed

LEMMA CommitMoves ==
  ASSUME TypeOK, NEW t \in Writers, WriterStep(t)
  PROVE  Committed(t) \/ Notify(t) \/ NotifyDropped(t) \/ Close(t)
<1>1. ASSUME NEW j \in Jobs, Change(t, j)
      PROVE  Committed(t)
  <2>1. Grows(Running)
    BY <1>1, EventTypes, OneRow DEF Change, Commit
  <2>2. QED
    BY <1>1, <2>1 DEF Change, Commit, Committed, TypeOK
<1>2. ASSUME NEW j \in Jobs, End(t, j)
      PROVE  Committed(t)
  <2>1. Grows(Running)
    BY <1>2, EventTypes, OneRow DEF End, Commit, Running
  <2>2. /\ jobState' \in [Jobs -> JobStates]
        /\ \A i \in Jobs : jobState[i] \in Over => jobState'[i] \in Over
    BY <1>2 DEF End, TypeOK, JobStates, Over
  <2>3. QED
    BY <1>2, <2>1, <2>2 DEF End, Commit, Committed
<1>3. CASE Elsewhere(t)
  <2>1. Grows(Running)
    BY <1>3, EventTypes, OneRow DEF Elsewhere, Commit
  <2>2. QED
    BY <1>3, <2>1 DEF Elsewhere, Commit, Committed, TypeOK
<1>4. ASSUME NEW j \in Jobs, ForgetJob(t, j)
      PROVE  Committed(t)
  <2>1. PICK events \in {<<Of("group")>> \o <<>>, <<Of("group")>> \o <<Of("elsewhere")>>} :
          Commit(t, Without({j}) \o events)
    BY <1>4 DEF ForgetJob
  <2>2. /\ Of("group") \in Event /\ Of("elsewhere") \in Event
        /\ ~Of("group").ends /\ ~Of("elsewhere").ends
        /\ Of("group").subject = "group" /\ Of("elsewhere").subject = "elsewhere"
    BY EventTypes
  <2>3. events = <<Of("group")>> \/ events = <<Of("group"), Of("elsewhere")>>
    BY <2>1
  <2>4. /\ events \in Seq(Event) /\ events # <<>>
        /\ events[Len(events)].subject # "deleted"
        /\ \A n \in 1 .. Len(events) : ~events[n].ends
    <3>1. CASE events = <<Of("group")>>
      <4>1. Len(events) = 1 /\ events[1] = Of("group") /\ events \in Seq(Event)
        BY <2>2, <3>1
      <4>2. QED
        BY <2>2, <3>1, <4>1
    <3>2. CASE events = <<Of("group"), Of("elsewhere")>>
      <4>1. /\ Len(events) = 2 /\ events[1] = Of("group") /\ events[2] = Of("elsewhere")
            /\ events \in Seq(Event)
        BY <2>2, <3>2
      <4>2. \A n \in 1 .. Len(events) : n = 1 \/ n = 2
        BY <4>1
      <4>3. QED
        BY <2>2, <3>2, <4>1, <4>2
    <3>3. QED
      BY <2>3, <3>1, <3>2
  <2>5. Grows(Running)
    BY <2>1, <2>4, WithoutRows, Extend DEF Commit
  <2>6. /\ jobState' \in [Jobs -> JobStates]
        /\ \A i \in Jobs : jobState[i] \in Over => jobState'[i] \in Over
    BY <1>4 DEF ForgetJob, TypeOK, JobStates, Over
  <2>7. QED
    BY <2>1, <2>5, <2>6 DEF Commit, Committed
<1>5. CASE ForgetGroup(t)
  <2> DEFINE rows == Without(Jobs \cup {"group"})
  <2>1. /\ Of("elsewhere") \in Event /\ ~Of("elsewhere").ends
        /\ Of("elsewhere").subject = "elsewhere"
    BY EventTypes
  <2>2. rows \in Seq(Event) /\ Len(rows) = Len(ledger)
        /\ \A c \in Cursors : rows[c] \in {ledger[c], Deleted}
    BY WithoutRows
  <2>3. ledger' = Append(rows, Of("elsewhere"))
    BY <1>5 DEF ForgetGroup, Commit
  <2> DEFINE events == <<Of("elsewhere")>>
  <2>4. /\ events \in Seq(Event) /\ events # <<>>
        /\ events[Len(events)].subject # "deleted"
        /\ \A n \in 1 .. Len(events) : ~events[n].ends
    BY <2>1
  <2>5. ledger' = rows \o events
    BY <2>1, <2>2, <2>3, AppendIsConcat
  <2>6. Grows(Running)
    BY <2>2, <2>4, <2>5, Extend
  <2>7. /\ jobState' \in [Jobs -> JobStates]
        /\ \A i \in Jobs : jobState[i] \in Over => jobState'[i] \in Over
    BY <1>5 DEF ForgetGroup, TypeOK, JobStates, Over
  <2>8. QED
    BY <1>5, <2>6, <2>7 DEF ForgetGroup, Commit, Committed
<1>6. QED
  BY <1>1, <1>2, <1>3, <1>4, <1>5, LaunchCommits DEF WriterStep

-----------------------------------------------------------------------------
(* Types, and the last row.                                                *)

\* No step of an await or of its client touches the store.
AwaitAction ==
  \/ AwaitStep
  \/ \E condition \in Conditions, resume \in BOOLEAN : Begin(condition, resume)
  \/ Cancel \/ Lose

LEMMA AwaitLeaves == AwaitAction => Unchanged
BY DEF AwaitAction, AwaitStep, ReadNow, CheckClosing, ReadGeneration, ReadJobs, ReadEvents,
       ReadLatest, Respond, Progress, Wait, Poll, Heartbeat, Begin, Cancel, Lose

TypeInv == TypeOK /\ LastIsKept

LEMMA TypeInit == Init => TypeInv
<1> SUFFICES ASSUME Init
             PROVE  TypeInv
  OBVIOUS
<1>1. ledger \in Seq(Event) /\ Len(ledger) = 0
  BY DEF Init
<1>2. w \in Await /\ w.page = {} /\ w.cursor = 0 /\ w.latest = 0
  BY DEF Init, NoAwait, Await, Pcs, Conditions
<1>3. /\ client \in Client /\ client.got = {} /\ client.cursor = 0 /\ client.base = 0
      /\ client.latest.events = {} /\ client.latest.cursor = 0
  <2>1. PICK follows \in BOOLEAN :
          client = [follows |-> follows, cursor |-> 0, latest |-> NothingNew(0),
                    base |-> 0, got |-> {}]
    BY FollowsAssumption DEF Init
  <2>2. NothingNew(0) \in Message /\ NothingNew(0).events = {} /\ NothingNew(0).cursor = 0
    BY DEF NothingNew, Message
  <2>3. QED
    BY <2>1, <2>2 DEF Client
<1>4. 0 \in 0 .. Len(ledger) /\ ledger = <<>>
  BY <1>1 DEF Init
<1>5. /\ jobState \in [Jobs -> JobStates] /\ generation \in Nat
      /\ due \in [Writers -> BOOLEAN]
  BY DEF Init, JobStates
<1>6. TypeOK
  BY <1>1, <1>2, <1>3, <1>4, <1>5 DEF Init, TypeOK
<1>7. QED
  BY <1>4, <1>6 DEF TypeInv, LastIsKept

\* What a writer does to the types.
LEMMA WriterType ==
  ASSUME TypeInv, NEW t \in Writers, WriterStep(t)
  PROVE  TypeInv'
<1>0. /\ TypeOK /\ LastIsKept
      /\ ledger \in Seq(Event) /\ Len(ledger) \in Nat
      /\ due \in [Writers -> BOOLEAN] /\ generation \in Nat
      /\ w \in Await
  BY DEF TypeInv, TypeOK
<1>1. CASE Committed(t)
  <2>1. /\ ledger' \in Seq(Event) /\ Len(ledger') \in Nat /\ Len(ledger) < Len(ledger')
        /\ ledger'[Len(ledger')] # Deleted
    BY <1>1 DEF Committed, Grows
  <2>2. Cursors \subseteq Cursors' /\ 0 .. Len(ledger) \subseteq 0 .. Len(ledger')
    BY <1>0, <2>1 DEF Cursors
  <2>3. due' \in [Writers -> BOOLEAN]
    BY <1>0, <1>1 DEF Committed
  <2>4. QED
    BY <1>0, <1>1, <2>1, <2>2, <2>3 DEF Committed, TypeInv, TypeOK, LastIsKept
<1>2. CASE Notify(t)
  <2>1. /\ w' \in Await /\ w'.page = w.page /\ w'.cursor = w.cursor /\ w'.latest = w.latest
    BY <1>0, <1>2 DEF Notify, Woken, Await, Pcs
  <2>2. QED
    BY <1>0, <1>2, <2>1 DEF Notify, storeVars, TypeInv, TypeOK, LastIsKept, Cursors
<1>3. CASE NotifyDropped(t)
  BY <1>0, <1>3 DEF NotifyDropped, storeVars, TypeInv, TypeOK, LastIsKept, Cursors
<1>4. CASE Close(t)
  BY <1>0, <1>4 DEF Close, storeVars, TypeInv, TypeOK, LastIsKept, Cursors
<1>5. QED
  BY <1>0, <1>1, <1>2, <1>3, <1>4, CommitMoves

\* What an await may hold: cursors of the ledger.
Held(v) ==
  v \in Await /\ v.page \subseteq Cursors /\ {v.cursor, v.latest} \subseteq 0 .. Len(ledger)

LEMMA NoAwaitHeld ==
  ASSUME TypeInv
  PROVE  /\ Held(NoAwait)
         /\ NoAwait.pc = "idle" /\ NoAwait.page = {} /\ NoAwait.cursor = 0 /\ NoAwait.ended = {}
<1>1. /\ NoAwait.pc = "idle" /\ NoAwait.page = {} /\ NoAwait.cursor = 0 /\ NoAwait.ended = {}
      /\ NoAwait.latest = 0
  BY DEF NoAwait
<1>2. NoAwait \in Await
  BY DEF NoAwait, Await, Pcs, Conditions
<1>3. 0 \in 0 .. Len(ledger)
  BY DEF TypeInv, TypeOK
<1>4. QED
  BY <1>1, <1>2, <1>3 DEF Held

\* What each step of an await leaves alone, and what it reads.
LEMMA Fields ==
  ASSUME w \in Await, generation \in Nat, LatestCursor \in Nat
  PROVE  /\ ReadNow =>
              /\ w' \in Await
              /\ w'.pc = "loop" /\ w'.cursor = LatestCursor /\ w'.page = w.page
              /\ w'.latest = w.latest
         /\ ReadGeneration =>
              /\ w' \in Await
              /\ w'.pc = "jobs" /\ w'.gen = generation /\ w'.cursor = w.cursor
              /\ w'.page = w.page /\ w'.latest = w.latest
         /\ ReadLatest =>
              /\ w' \in Await
              /\ w'.pc = "decide" /\ w'.latest = LatestCursor /\ w'.cursor = w.cursor
              /\ w'.page = w.page /\ w'.gen = w.gen /\ w'.jobs = w.jobs /\ w'.ended = w.ended
         /\ Wait =>
              /\ w' \in Await
              /\ w'.pc \in {"asleep", "awake"}
              /\ w'.pc = "asleep" => generation = w.gen
              /\ w'.cursor = w.cursor /\ w'.page = w.page /\ w'.latest = w.latest
              /\ w'.condition = w.condition
         /\ Poll =>
              /\ w' \in Await
              /\ w'.pc = "awake" /\ w'.cursor = w.cursor /\ w'.page = w.page
              /\ w'.latest = w.latest
         /\ \A late \in BOOLEAN : Heartbeat(late) =>
              /\ w' \in Await
              /\ w'.pc = "loop" /\ w'.cursor = w.cursor /\ w'.page = w.page
              /\ w'.latest = w.latest
<1>0. /\ ReadNow => w.pc = "now"
      /\ ReadGeneration => w.pc = "generation"
      /\ ReadLatest => w.pc = "latest"
      /\ Wait => w.pc = "wait"
      /\ Poll => w.pc = "asleep"
      /\ \A late \in BOOLEAN : Heartbeat(late) => w.pc = "awake"
  BY DEF ReadNow, ReadGeneration, ReadLatest, Wait, Poll, Heartbeat
<1>1. CASE ReadNow
  <2>1. w' = [w EXCEPT !.pc = "loop", !.cursor = LatestCursor]
    BY <1>1 DEF ReadNow
  <2>2. w' \in Await
    BY <2>1 DEF Await, Pcs
  <2>3. /\ w'.pc = "loop" /\ w'.cursor = LatestCursor /\ w'.page = w.page
        /\ w'.latest = w.latest
    BY <2>1 DEF Await
  <2>4. QED
    BY <1>0, <1>1, <2>2, <2>3
<1>2. CASE ReadGeneration
  <2>1. w' = [w EXCEPT !.pc = "jobs", !.gen = generation]
    BY <1>2 DEF ReadGeneration
  <2>2. /\ w' \in Await
        /\ w'.pc = "jobs" /\ w'.gen = generation /\ w'.cursor = w.cursor
        /\ w'.page = w.page /\ w'.latest = w.latest
    BY <2>1 DEF Await, Pcs
  <2>3. QED
    BY <1>0, <1>2, <2>2
<1>3. CASE ReadLatest
  <2>1. w' = [w EXCEPT !.pc = "decide", !.latest = LatestCursor]
    BY <1>3 DEF ReadLatest
  <2>2. w' \in Await
    BY <2>1 DEF Await, Pcs
  <2>3. /\ w'.pc = "decide" /\ w'.latest = LatestCursor /\ w'.cursor = w.cursor
        /\ w'.page = w.page /\ w'.gen = w.gen /\ w'.jobs = w.jobs /\ w'.ended = w.ended
    BY <2>1 DEF Await
  <2>4. QED
    BY <1>0, <1>3, <2>2, <2>3
<1>4. CASE Wait
  <2>1. PICK pc \in {"asleep", "awake"} :
          w' = [w EXCEPT !.pc = pc, !.gen = 0] /\ (pc = "asleep" => generation = w.gen)
    BY <1>4 DEF Wait
  <2>2. w' \in Await
    BY <2>1 DEF Await, Pcs
  <2>3. /\ w'.pc = pc /\ w'.cursor = w.cursor /\ w'.page = w.page /\ w'.latest = w.latest
        /\ w'.condition = w.condition
    BY <2>1 DEF Await
  <2>4. QED
    BY <1>0, <1>4, <2>1, <2>2, <2>3
<1>5. CASE Poll
  <2>1. w' = [w EXCEPT !.pc = "awake"]
    BY <1>5 DEF Poll
  <2>2. /\ w' \in Await
        /\ w'.pc = "awake" /\ w'.cursor = w.cursor /\ w'.page = w.page
        /\ w'.latest = w.latest
    BY <2>1 DEF Await, Pcs
  <2>3. QED
    BY <1>0, <1>5, <2>2
<1>6. ASSUME NEW late \in BOOLEAN, Heartbeat(late)
      PROVE  /\ w' \in Await
             /\ w'.pc = "loop" /\ w'.cursor = w.cursor /\ w'.page = w.page
             /\ w'.latest = w.latest
  <2>1. w' = [w EXCEPT !.pc = "loop"]
    BY <1>6 DEF Heartbeat
  <2>2. QED
    BY <2>1 DEF Await, Pcs
<1>7. QED
  BY <1>0, <1>1, <1>2, <1>3, <1>4, <1>5, <1>6

LEMMA ReadJobsFields ==
  ASSUME w \in Await, ReadJobs, w' # NoAwait
  PROVE  /\ w' \in Await /\ UNCHANGED client
         /\ w'.pc = "events" /\ w'.jobs = TargetJobs /\ w'.ended = TargetJobs \cap EndedJobs
         /\ w'.cursor = w.cursor /\ w'.gen = w.gen /\ w'.page = w.page /\ w'.latest = w.latest
<1>1. PICK jobs \in SUBSET Jobs, ended \in SUBSET Jobs :
        /\ jobs = TargetJobs /\ ended = TargetJobs \cap EndedJobs
        /\ w' = [w EXCEPT !.pc = "events", !.jobs = jobs, !.ended = ended]
        /\ UNCHANGED client
  BY DEF ReadJobs, TargetJobs
<1>2. w' \in Await
  BY <1>1 DEF Await, Pcs
<1>3. /\ w'.pc = "events" /\ w'.jobs = jobs /\ w'.ended = ended
      /\ w'.cursor = w.cursor /\ w'.gen = w.gen /\ w'.page = w.page /\ w'.latest = w.latest
  BY <1>1 DEF Await
<1>4. QED
  BY <1>1, <1>2, <1>3

LEMMA ReadEventsFields ==
  ASSUME TypeOK, ReadEvents
  PROVE  LET page == EventsSince(w.cursor) IN
         /\ w' \in Await
         /\ page \subseteq Cursors
         /\ w'.page = page /\ w'.cursor = w.cursor /\ w'.gen = w.gen
         /\ w'.jobs = w.jobs /\ w'.ended = w.ended
         /\ page = {} => w'.pc = "latest" /\ w'.latest = 0
         /\ page # {} => /\ w'.pc = "decide" /\ w'.latest = LastOf(page)
                         /\ LastOf(page) \in page
<1> DEFINE page == EventsSince(w.cursor)
<1>1. w \in Await /\ w.cursor \in Nat /\ \A c \in Cursors : c \in Nat
  BY DEF TypeOK, Await, Cursors
<1>2. page \subseteq Cursors /\ (page # {} => LastOf(page) \in page)
  BY <1>1, PageIsPrefix, LastIsGreatest
<1>3. PICK rows \in SUBSET Nat : rows = page
  BY <1>1, <1>2
<1>4. PICK pc \in {"latest", "decide"}, latest \in Nat :
        /\ w' = [w EXCEPT !.page = rows, !.pc = pc, !.latest = latest]
        /\ page = {} => pc = "latest" /\ latest = 0
        /\ page # {} => pc = "decide" /\ latest = LastOf(page)
  <2>1. CASE page = {}
    BY <1>3, <2>1 DEF ReadEvents
  <2>2. CASE page # {}
    <3>1. LastOf(page) \in Nat
      BY <1>1, <1>2, <2>2
    <3>2. w' = [w EXCEPT !.page = rows, !.pc = "decide", !.latest = LastOf(page)]
      BY <1>3, <2>2 DEF ReadEvents
    <3>3. QED
      BY <2>2, <3>1, <3>2
  <2>3. QED
    BY <2>1, <2>2
<1>5. w' \in Await
  BY <1>1, <1>4 DEF Await, Pcs
<1>6. /\ w'.page = rows /\ w'.pc = pc /\ w'.latest = latest /\ w'.cursor = w.cursor
      /\ w'.gen = w.gen /\ w'.jobs = w.jobs /\ w'.ended = w.ended
  BY <1>1, <1>4 DEF Await
<1>7. QED
  BY <1>2, <1>3, <1>4, <1>5, <1>6

LEMMA ProgressFields ==
  ASSUME w \in Await, Progress
  PROVE  /\ w' \in Await
         /\ w'.pc = "wait" /\ w'.latest = 0 /\ w'.page = w.page /\ w'.gen = w.gen
         /\ w'.condition = w.condition
         /\ w'.cursor = IF w.page = {} THEN w.cursor ELSE w.latest
<1>1. PICK cursor \in Nat :
        /\ cursor = IF w.page = {} THEN w.cursor ELSE w.latest
        /\ w' = [w EXCEPT !.pc = "wait", !.jobs = {}, !.ended = {}, !.latest = 0,
                          !.cursor = cursor]
  BY DEF Progress, Await
<1>2. w' \in Await
  BY <1>1 DEF Await, Pcs
<1>3. /\ w'.pc = "wait" /\ w'.latest = 0 /\ w'.page = w.page /\ w'.gen = w.gen
      /\ w'.condition = w.condition /\ w'.cursor = cursor
  BY <1>1 DEF Await
<1>4. QED
  BY <1>1, <1>2, <1>3

\* What a step does to the caller: whether it follows is its own; its history goes on.
LEMMA ReturnedFields ==
  ASSUME client \in Client
  PROVE  /\ Returned \in Client
         /\ Returned.follows = client.follows /\ Returned.cursor = client.cursor
         /\ Returned.base = client.base /\ Returned.got = client.got
         /\ Returned.latest.cursor = 0 /\ Returned.latest.events = {}
BY DEF Returned, Client, NothingNew, Message

LEMMA ToldFields ==
  ASSUME client \in Client, NEW message \in Message
  PROVE  /\ Told(message) \in Client
         /\ Told(message).follows = client.follows /\ Told(message).base = client.base
         /\ Told(message).latest = message
         /\ Told(message).cursor = IF client.follows THEN message.cursor ELSE client.cursor
         /\ Told(message).got = IF client.follows THEN client.got \cup message.events
                                                  ELSE client.got
<1>1. message.cursor \in Nat /\ message.events \in SUBSET Nat
  BY DEF Message
<1>2. CASE client.follows
  <2>1. Told(message) = [client EXCEPT !.latest = message, !.cursor = message.cursor,
                                       !.got = client.got \cup message.events]
    BY <1>2 DEF Told
  <2>2. QED
    BY <1>1, <1>2, <2>1 DEF Client
<1>3. CASE ~client.follows
  <2>1. Told(message) = [client EXCEPT !.latest = message]
    BY <1>3 DEF Told
  <2>2. QED
    BY <1>3, <2>1 DEF Client
<1>4. QED
  BY <1>2, <1>3

LEMMA NothingNewFields ==
  ASSUME NEW n \in Nat
  PROVE  /\ NothingNew(n) \in Message
         /\ NothingNew(n).cursor = n /\ NothingNew(n).events = {}
BY DEF NothingNew, Message

\* A message about a page, or one without news, or none.
LEMMA TellFields ==
  ASSUME w \in Await, client \in Client
  PROVE  /\ Progress => \/ /\ w.page = {}
                            /\ client' = client
                         \/ \E message \in Message :
                              /\ client' = Told(message) /\ w.page # {}
                              /\ message.cursor = w.latest /\ message.events = w.page
         /\ \A late \in BOOLEAN : Heartbeat(late) =>
              \/ client' = client
              \/ \E message \in Message :
                   /\ client' = Told(message)
                   /\ message.cursor = w.cursor /\ message.events = {}
<1>1. /\ w.latest \in Nat /\ w.page \in SUBSET Nat /\ w.cursor \in Nat
      /\ [cursor |-> w.latest, events |-> w.page] \in Message
  BY DEF Await, Message
<1>2. Progress => \/ w.page = {} /\ client' = client
                  \/ w.page # {} /\ client' = Told([cursor |-> w.latest, events |-> w.page])
  BY DEF Progress
<1>3. \A late \in BOOLEAN : Heartbeat(late) =>
        client' = client \/ client' = Told(NothingNew(w.cursor))
  BY DEF Heartbeat
<1>4. QED
  BY <1>1, <1>2, <1>3, NothingNewFields

LEMMA RespondFields ==
  ASSUME w \in Await, client \in Client, Respond
  PROVE  /\ w' = NoAwait
         /\ client' \in Client
         /\ client'.follows = client.follows
         /\ client'.cursor = w.latest
         /\ client'.base = IF w.page = {} THEN w.latest ELSE client.base
         /\ client'.got = IF w.page = {} THEN {} ELSE client.got \cup w.page
         /\ client'.latest.cursor = 0 /\ client'.latest.events = {}
<1>1. w.page \in SUBSET Nat /\ w.latest \in Nat
  BY DEF Await
<1> DEFINE r == Returned
<1>2. /\ r \in Client /\ r.follows = client.follows /\ r.base = client.base
      /\ r.got = client.got /\ r.latest.cursor = 0 /\ r.latest.events = {}
  BY ReturnedFields
<1>3. /\ w' = NoAwait
      /\ \/ w.page = {} /\ client' = [r EXCEPT !.cursor = w.latest, !.base = w.latest, !.got = {}]
         \/ w.page # {} /\ client' = [r EXCEPT !.cursor = w.latest, !.got = r.got \cup w.page]
  BY DEF Respond
<1> HIDE DEF r
<1>4. CASE w.page = {}
  BY <1>1, <1>2, <1>3, <1>4 DEF Client
<1>5. CASE w.page # {}
  BY <1>1, <1>2, <1>3, <1>5 DEF Client
<1>6. QED
  BY <1>4, <1>5

\* The caller is given what it cancels with, or nothing.
LEMMA EndFields ==
  ASSUME client \in Client
  PROVE  /\ Cancel => /\ client' \in Client
                      /\ client'.follows = client.follows /\ client'.base = client.base
                      /\ client'.cursor = client.latest.cursor
                      /\ client'.got = client.got \cup client.latest.events
                      /\ client'.latest.cursor = 0 /\ client'.latest.events = {}
         /\ Lose => client' = Returned
<1> DEFINE r == Returned
<1>1. /\ client.latest.cursor \in Nat /\ client.latest.events \in SUBSET Nat
      /\ r \in Client /\ r.follows = client.follows /\ r.base = client.base
      /\ r.got = client.got /\ r.latest.cursor = 0 /\ r.latest.events = {}
  BY ReturnedFields DEF Client, Message
<1>2. Cancel => client' = [r EXCEPT !.cursor = client.latest.cursor,
                                    !.got = r.got \cup client.latest.events]
  BY DEF Cancel
<1> HIDE DEF r
<1>3. QED
  BY <1>1, <1>2 DEF Client, Lose

\* A call, or the next turn of its loop.
LEMMA StartFields ==
  ASSUME w \in Await, client \in Client
  PROVE  /\ CheckClosing => \/ w' = NoAwait
                            \/ /\ w' \in Await
                               /\ w'.pc = "generation" /\ w'.cursor = w.cursor
                               /\ w'.page = {} /\ w'.latest = 0
         /\ \A condition \in Conditions, resume \in BOOLEAN : Begin(condition, resume) =>
              /\ w' \in Await
              /\ w'.pc \in {"loop", "now"} /\ w'.page = {} /\ w'.latest = 0
              /\ w'.cursor \in {client.cursor, 0}
<1>1. ASSUME CheckClosing
      PROVE  \/ w' = NoAwait
             \/ /\ w' \in Await
                /\ w'.pc = "generation" /\ w'.cursor = w.cursor
                /\ w'.page = {} /\ w'.latest = 0
  <2>1. \/ w' = NoAwait
        \/ w' = [NoAwait EXCEPT !.pc = "generation", !.condition = w.condition,
                                !.cursor = w.cursor]
    BY <1>1 DEF CheckClosing
  <2>2. w.condition \in Conditions /\ w.cursor \in Nat /\ "generation" \in Pcs
    BY DEF Await, Pcs
  <2>3. ASSUME w' = [NoAwait EXCEPT !.pc = "generation", !.condition = w.condition,
                                    !.cursor = w.cursor]
        PROVE  /\ w' \in Await
               /\ w'.pc = "generation" /\ w'.cursor = w.cursor
               /\ w'.page = {} /\ w'.latest = 0
    BY <2>2, <2>3 DEF NoAwait, Await
  <2>4. QED
    BY <2>1, <2>3
<1>2. ASSUME NEW condition \in Conditions, NEW resume \in BOOLEAN, Begin(condition, resume)
      PROVE  /\ w' \in Await
             /\ w'.pc \in {"loop", "now"} /\ w'.page = {} /\ w'.latest = 0
             /\ w'.cursor \in {client.cursor, 0}
  <2>1. PICK pc \in {"loop", "now"}, cursor \in {client.cursor, 0} :
          w' = [NoAwait EXCEPT !.condition = condition, !.pc = pc, !.cursor = cursor]
    BY <1>2 DEF Begin
  <2>2. cursor \in Nat
    BY DEF Client
  <2>3. QED
    BY <2>1, <2>2 DEF NoAwait, Await, Pcs
<1>3. QED
  BY <1>1, <1>2

LEMMA AwaitType ==
  ASSUME TypeInv, AwaitAction
  PROVE  TypeInv'
<1>0. /\ TypeOK /\ LastIsKept /\ Len(ledger) \in Nat
      /\ w \in Await /\ client \in Client /\ generation \in Nat
      /\ w.page \subseteq Cursors /\ client.got \subseteq Cursors
      /\ w.cursor \in 0 .. Len(ledger) /\ w.latest \in 0 .. Len(ledger)
      /\ client.cursor \in 0 .. Len(ledger) /\ client.base \in 0 .. Len(ledger)
      /\ client.latest.events \subseteq Cursors /\ client.latest.cursor \in 0 .. Len(ledger)
      /\ LatestCursor = Len(ledger)
      /\ Unchanged
  BY AwaitLeaves, LatestIsLength DEF TypeInv, TypeOK
<1>1. /\ Held(w) /\ Held(NoAwait)
      /\ 0 \in 0 .. Len(ledger) /\ Len(ledger) \in 0 .. Len(ledger)
      /\ LatestCursor \in Nat
      /\ \A c \in Cursors : c \in 0 .. Len(ledger)
  BY <1>0, NoAwaitHeld DEF Held, Cursors
<1>2. ASSUME Held(w'),
             client' \in Client, client'.got \subseteq Cursors,
             client'.latest.events \subseteq Cursors, client'.latest.cursor \in 0 .. Len(ledger),
             client'.cursor \in 0 .. Len(ledger), client'.base \in 0 .. Len(ledger)
      PROVE  TypeInv'
  BY <1>0, <1>2 DEF Held, Unchanged, storeVars, notifyVars, TypeInv, TypeOK, LastIsKept, Cursors
<1>3. ASSUME Held(w'), client' \in {client, Returned}
      PROVE  TypeInv'
  BY <1>0, <1>1, <1>2, <1>3, ReturnedFields
<1>31. ASSUME Held(w'), NEW message \in Message, client' = Told(message),
              message.cursor \in 0 .. Len(ledger), message.events \subseteq Cursors
       PROVE  TypeInv'
  BY <1>0, <1>2, <1>31, ToldFields
<1>4. ASSUME NEW condition \in Conditions, NEW resume \in BOOLEAN, Begin(condition, resume)
      PROVE  TypeInv'
  <2>1. Held(w')
    BY <1>0, <1>1, <1>4, StartFields DEF Held
  <2>2. client' = [client EXCEPT !.latest = NothingNew(client.cursor)]
    BY <1>4 DEF Begin
  <2>3. /\ client' \in Client /\ client'.got = client.got /\ client'.cursor = client.cursor
        /\ client'.base = client.base /\ client'.latest = NothingNew(client.cursor)
    BY <1>0, <2>2, NothingNewFields DEF Client
  <2>4. client'.latest.events = {} /\ client'.latest.cursor = client.cursor
    BY <1>0, <2>3, NothingNewFields
  <2>5. QED
    BY <1>0, <1>2, <2>1, <2>3, <2>4
<1>5. CASE ReadNow
  <2>1. Held(w')
    BY <1>0, <1>1, <1>5, Fields DEF Held
  <2>2. client' \in Client /\ client'.got = {} /\ client'.base = Len(ledger)
        /\ client'.cursor = client.cursor /\ client'.latest = client.latest
    BY <1>0, <1>5 DEF ReadNow, Client
  <2>3. QED
    BY <1>0, <1>1, <1>2, <2>1, <2>2
<1>6. CASE CheckClosing
  <2>1. Held(w')
    BY <1>0, <1>1, <1>6, StartFields DEF Held
  <2>2. QED
    BY <1>3, <1>6, <2>1 DEF CheckClosing
<1>7. CASE ReadGeneration \/ ReadLatest \/ Wait \/ Poll
  <2>1. Held(w')
    BY <1>0, <1>1, <1>7, Fields DEF Held
  <2>2. QED
    BY <1>3, <1>7, <2>1 DEF ReadGeneration, ReadLatest, Wait, Poll
<1>8. CASE ReadJobs
  <2>1. Held(w')
    BY <1>0, <1>1, <1>8, ReadJobsFields DEF Held
  <2>2. QED
    BY <1>3, <1>8, <2>1 DEF ReadJobs
<1>9. CASE ReadEvents
  <2>1. Held(w')
    BY <1>0, <1>1, <1>9, ReadEventsFields DEF Held
  <2>2. QED
    BY <1>3, <1>9, <2>1 DEF ReadEvents
<1>10. CASE Respond
  BY <1>0, <1>1, <1>2, <1>10, RespondFields
<1>11. CASE Progress
  <2>1. Held(w')
    BY <1>0, <1>1, <1>11, ProgressFields DEF Held
  <2>2. QED
    BY <1>0, <1>3, <1>31, <1>11, <2>1, TellFields
<1>12. ASSUME NEW late \in BOOLEAN, Heartbeat(late)
       PROVE  TypeInv'
  <2>1. Held(w')
    BY <1>0, <1>1, <1>12, Fields DEF Held
  <2>2. QED
    BY <1>0, <1>3, <1>31, <1>12, <2>1, TellFields
<1>13. CASE Cancel \/ Lose
  <2>1. Held(w')
    BY <1>1, <1>13 DEF Cancel, Lose
  <2>2. QED
    BY <1>0, <1>1, <1>2, <1>3, <1>13, <2>1, EndFields
<1>14. QED
  BY <1>4, <1>5, <1>6, <1>7, <1>8, <1>9, <1>10, <1>11, <1>12, <1>13
  DEF AwaitAction, AwaitStep

LEMMA NextIs ==
  Next <=> AwaitAction \/ \E t \in Writers : WriterStep(t)
BY DEF Next, ClientStep, AwaitAction

LEMMA TypeNext == TypeInv /\ [Next]_vars => TypeInv'
<1>1. TypeInv /\ UNCHANGED vars => TypeInv'
  BY DEF vars, storeVars, notifyVars, TypeInv, TypeOK, LastIsKept, Cursors
<1>2. QED
  BY <1>1, NextIs, WriterType, AwaitType

\* The variables keep their types, and no cursor that anybody holds is ahead of the
\* ledger, whatever is committed and forgotten meanwhile (latest_cursor, events_since).
THEOREM TypeCorrect == Spec => []TypeOK
<1>1. TypeInv => TypeOK
  BY DEF TypeInv
<1>2. QED
  BY <1>1, TypeInit, TypeNext, PTL DEF Spec

-----------------------------------------------------------------------------
(* What an await read, and what is committed since.                        *)

\* Which step of an await leads where.
LEMMA Reads ==
  ASSUME TypeInv, AwaitAction
  PROVE  /\ w'.pc = "jobs" => ReadGeneration
         /\ w'.pc = "events" => ReadJobs /\ w' # NoAwait
         /\ w'.pc = "latest" => ReadEvents
         /\ w'.pc = "decide" => ReadEvents \/ ReadLatest
         /\ w'.pc = "wait" => Progress
         /\ w'.pc = "asleep" => Wait
<1>0. /\ TypeOK /\ w \in Await /\ client \in Client /\ generation \in Nat
      /\ LatestCursor \in Nat
      /\ NoAwait.pc = "idle"
  BY LatestIsLength, NoAwaitHeld DEF TypeInv, TypeOK
<1>1. /\ ReadNow => w'.pc = "loop"
      /\ CheckClosing => w'.pc \in {"idle", "generation"}
      /\ ReadGeneration => w'.pc = "jobs"
      /\ ReadJobs => w'.pc \in {"idle", "events"}
      /\ ReadEvents => w'.pc \in {"latest", "decide"}
      /\ ReadLatest => w'.pc = "decide"
  BY <1>0, Fields, StartFields, ReadJobsFields, ReadEventsFields
<1>2. /\ Respond => w'.pc = "idle"
      /\ Progress => w'.pc = "wait"
      /\ Wait => w'.pc \in {"asleep", "awake"}
      /\ Poll => w'.pc = "awake"
      /\ \A late \in BOOLEAN : Heartbeat(late) => w'.pc = "loop"
      /\ \A condition \in Conditions, resume \in BOOLEAN : Begin(condition, resume) =>
           w'.pc \in {"loop", "now"}
      /\ Cancel \/ Lose => w'.pc = "idle"
  BY <1>0, Fields, StartFields, ProgressFields, RespondFields DEF Cancel, Lose
<1>3. QED
  BY <1>0, <1>1, <1>2 DEF AwaitAction, AwaitStep

\* A writer leaves an await what it has read, and may wake it.
LEMMA WriterLeaves ==
  ASSUME TypeInv, NEW t \in Writers, WriterStep(t)
  PROVE  /\ UNCHANGED <<client, target>>
         /\ w'.page = w.page /\ w'.cursor = w.cursor /\ w'.latest = w.latest
         /\ w'.jobs = w.jobs /\ w'.ended = w.ended /\ w'.gen = w.gen
         /\ w'.condition = w.condition
         /\ w'.pc = w.pc \/ w'.pc = "awake"
         /\ \/ UNCHANGED storeVars
            \/ Committed(t)
<1>0. TypeOK /\ w \in Await
  BY DEF TypeInv, TypeOK
<1>1. CASE w' = w
  BY <1>0, <1>1, CommitMoves DEF Committed, Notify, NotifyDropped, Close
<1>2. CASE Notify(t)
  <2>1. PICK pc \in {w.pc, "awake"} : w' = [w EXCEPT !.pc = pc]
    BY <1>2 DEF Notify, Woken
  <2>2. /\ w'.page = w.page /\ w'.cursor = w.cursor /\ w'.latest = w.latest
        /\ w'.jobs = w.jobs /\ w'.ended = w.ended /\ w'.gen = w.gen
        /\ w'.condition = w.condition /\ w'.pc = pc
    BY <1>0, <2>1 DEF Await
  <2>3. QED
    BY <1>2, <2>2 DEF Notify
<1>3. QED
  BY <1>0, <1>1, <1>2, CommitMoves DEF Committed, NotifyDropped, Close

\* Of the old rows that an await sees after a step, none is new to it.
LEMMA OldRows ==
  ASSUME TypeInv, UNCHANGED storeVars \/ Grows(Running), UNCHANGED target, NEW n \in Nat,
         NEW c \in Seen(ledger', target', n)
  PROVE  \/ c \in Seen(ledger, target, n) /\ ledger'[c] = ledger[c]
         \/ /\ c > Len(ledger)
            /\ ledger'[c].ends => ledger'[c].subject \in Running
<1>0. Len(ledger) \in Nat /\ target \in Jobs \cup {"group"} /\ ledger \in Seq(Event)
  BY TargetsAssumption DEF TypeInv, TypeOK
<1>1. CASE UNCHANGED storeVars
  BY <1>1 DEF storeVars
<1>2. CASE Grows(Running)
  <2>1. c \in 1 .. Len(ledger') /\ c > n /\ ledger' \in Seq(Event) /\ c \in Nat
    BY <1>2 DEF Seen, Grows
  <2>2. CASE c > Len(ledger)
    BY <1>2, <2>1, <2>2 DEF Grows
  <2>3. CASE ~(c > Len(ledger))
    <3>1. c \in 1 .. Len(ledger) /\ ledger'[c] \in {ledger[c], Deleted}
      BY <1>0, <1>2, <2>1, <2>3 DEF Grows, Cursors
    <3>2. ledger'[c] # Deleted
      BY <1>0, EventTypes, SubjectsAssumption DEF Seen
    <3>3. QED
      BY <3>1, <3>2 DEF Seen
  <2>4. QED
    BY <2>2, <2>3
<1>3. QED
  BY <1>1, <1>2

LEMMA PageInit == Init => PageInv
BY DEF Init, PageInv, NoAwait

LEMMA PageNext == TypeInv /\ PageInv /\ [Next]_vars => PageInv'
<1> SUFFICES ASSUME TypeInv, PageInv, [Next]_vars
             PROVE  PageInv'
  OBVIOUS
<1>0. /\ TypeOK /\ w \in Await /\ w.cursor \in Nat /\ LatestCursor \in Nat
      /\ generation \in Nat /\ Len(ledger) \in Nat /\ w.latest \in 0 .. Len(ledger)
  BY LatestIsLength DEF TypeInv, TypeOK, Await
<1>1. CASE AwaitAction
  <2>1. UNCHANGED <<ledger, target>>
    BY <1>1, AwaitLeaves DEF Unchanged, storeVars
  <2>2. CASE ReadEvents
    <3>1. /\ w'.page = EventsSince(w.cursor) /\ w'.cursor = w.cursor
          /\ w'.pc = "latest" => w'.page = {}
          /\ w'.page # {} => w'.latest = LastOf(EventsSince(w.cursor))
      BY <1>0, <2>2, ReadEventsFields
    <3>2. ASSUME w'.page # {}, NEW c \in EventsAfter(w.cursor), c <= w'.latest
          PROVE  c \in w'.page
      BY <1>0, <3>1, <3>2, PageIsPrefix, LastIsGreatest
    <3>3. EventsAfter(w.cursor)' = EventsAfter(w.cursor)
      BY <2>1, <3>1, AfterIs
    <3>4. QED
      BY <3>1, <3>2, <3>3 DEF PageInv
  <2>3. CASE ReadLatest
    <3>1. w.pc = "latest" /\ w'.pc = "decide" /\ w'.page = w.page
      BY <1>0, <2>3, Fields DEF ReadLatest
    <3>2. QED
      BY <3>1 DEF PageInv
  <2>4. QED
    BY <1>1, <2>2, <2>3, Reads DEF PageInv
<1>2. ASSUME NEW t \in Writers, WriterStep(t)
      PROVE  PageInv'
  <2>1. /\ w'.page = w.page /\ w'.cursor = w.cursor /\ w'.latest = w.latest
        /\ w'.pc = w.pc \/ w'.pc = "awake"
        /\ UNCHANGED target /\ (UNCHANGED storeVars \/ Grows(Running))
    BY <1>2, WriterLeaves DEF Committed
  <2>2. ASSUME w.pc = "decide", w.page # {}, NEW c \in Seen(ledger', target', w.cursor),
               c <= w.latest
        PROVE  c \in w.page
    <3>1. c \in Nat /\ c \in Int
      BY DEF Seen
    <3>2. ~(c > Len(ledger))
      BY <1>0, <2>2, <3>1
    <3>3. c \in Seen(ledger, target, w.cursor)
      BY <1>0, <2>1, <3>2, OldRows
    <3>4. QED
      BY <2>2, <3>3, AfterIs DEF PageInv
  <2>3. EventsAfter(w.cursor)' = Seen(ledger', target', w.cursor)
    BY <2>1, AfterIs
  <2>4. QED
    BY <2>1, <2>2, <2>3 DEF PageInv
<1>3. CASE UNCHANGED vars
  <2>1. UNCHANGED <<w, ledger, target>>
    BY <1>3 DEF vars, storeVars
  <2>2. EventsAfter(w.cursor)' = EventsAfter(w.cursor)
    BY <2>1, AfterIs
  <2>3. QED
    BY <2>1, <2>2 DEF PageInv
<1>4. QED
  BY <1>1, <1>2, <1>3, NextIs

-----------------------------------------------------------------------------
(* Following by progress.                                                  *)

\* A step after which nobody follows further than before.
LEMMA NoFurther ==
  ASSUME TypeInv, ProgressLosesNothing,
         UNCHANGED <<ledger, target>>, client'.follows = client.follows,
         client'.base = client.base, client.got \subseteq client'.got,
         client.follows => {client'.cursor, w'.cursor} \subseteq {client.cursor, w.cursor, 0}
  PROVE  ProgressLosesNothing'
<1>1. EventsAfter(client.base)' = EventsAfter(client.base)
  BY AfterIs
<1>2. \A c \in EventsAfter(client.base) : c \in Nat /\ ~(c <= 0)
  BY AfterIs DEF Seen
<1>3. QED
  BY <1>1, <1>2 DEF ProgressLosesNothing

LEMMA TakenInit == Init => TakenIn
BY DEF Init, NoAwait, TakenIn

LEMMA TakenNext == TypeInv /\ TakenIn /\ [Next]_vars => TakenIn'
<1> SUFFICES ASSUME TypeInv, TakenIn, [Next]_vars
             PROVE  TakenIn'
  OBVIOUS
<1>0. /\ TypeOK /\ w \in Await /\ client \in Client /\ NoAwait.pc = "idle"
      /\ client.cursor \in Nat /\ w.cursor \in Nat /\ LatestCursor \in Nat
  BY NoAwaitHeld, LatestIsLength DEF TypeInv, TypeOK, Client, Await
<1>1. ASSUME client' = client, w.pc # "idle"
      PROVE  TakenIn'
  BY <1>1 DEF TakenIn
<1>2. ASSUME NEW message \in Message, client' = Told(message)
      PROVE  TakenIn'
  BY <1>0, <1>2, ToldFields DEF TakenIn
<1>3. ASSUME w'.pc = "idle"
      PROVE  TakenIn'
  BY <1>3 DEF TakenIn
<1>4. ASSUME NEW condition \in Conditions, NEW resume \in BOOLEAN, Begin(condition, resume)
      PROVE  TakenIn'
  <2>1. client' = [client EXCEPT !.latest = NothingNew(client.cursor)]
    BY <1>4 DEF Begin
  <2>2. client'.latest = NothingNew(client.cursor) /\ client'.cursor = client.cursor
    BY <1>0, <2>1 DEF Client
  <2>3. QED
    BY <1>0, <2>2, NothingNewFields DEF TakenIn
<1>5. CASE ReadNow
  <2>1. /\ client'.latest = client.latest /\ client'.cursor = client.cursor
        /\ client'.follows = client.follows /\ w.pc # "idle"
    BY <1>0, <1>5 DEF ReadNow, Client
  <2>2. QED
    BY <2>1 DEF TakenIn
<1>6. CASE CheckClosing \/ ReadJobs
  BY <1>0, <1>1, <1>3, <1>6 DEF CheckClosing, ReadJobs
<1>7. CASE ReadGeneration \/ ReadEvents \/ ReadLatest \/ Wait \/ Poll
  BY <1>1, <1>7 DEF ReadGeneration, ReadEvents, ReadLatest, Wait, Poll
<1>8. CASE Respond \/ Cancel \/ Lose
  BY <1>0, <1>3, <1>8 DEF Respond, Cancel, Lose
<1>9. CASE Progress
  BY <1>0, <1>1, <1>2, <1>9, TellFields DEF Progress
<1>10. ASSUME NEW late \in BOOLEAN, Heartbeat(late)
       PROVE  TakenIn'
  BY <1>0, <1>1, <1>2, <1>10, TellFields DEF Heartbeat
<1>11. ASSUME NEW t \in Writers, WriterStep(t)
       PROVE  TakenIn'
  <2>1. client' = client
    BY <1>11, WriterLeaves
  <2>2. w.pc = "idle" => w'.pc = "idle"
    BY <1>0, <1>11, CommitMoves DEF Committed, Notify, Woken, NotifyDropped, Close, Await
  <2>3. QED
    BY <2>1, <2>2 DEF TakenIn
<1>12. CASE UNCHANGED vars
  BY <1>12 DEF vars, TakenIn
<1>13. QED
  BY <1>4, <1>5, <1>6, <1>7, <1>8, <1>9, <1>10, <1>11, <1>12, NextIs DEF AwaitAction, AwaitStep

LEMMA AllIsSent ==
  ASSUME TypeInv, PageInv, ProgressLosesNothing, client.follows,
         w.pc = "decide", w.page # {},
         NEW c \in EventsAfter(client.base), c <= w.latest
  PROVE  c \in client.got \cup w.page
<1>1. c \in Cursors /\ c \in Nat /\ Concerns(ledger[c]) /\ w.cursor \in Nat
  BY DEF EventsAfter, Cursors, TypeInv, TypeOK, Await
<1>2. CASE c <= w.cursor
  BY <1>2 DEF ProgressLosesNothing
<1>3. CASE ~(c <= w.cursor)
  <2>1. c \in EventsAfter(w.cursor)
    BY <1>1, <1>3 DEF EventsAfter
  <2>2. QED
    BY <2>1 DEF PageInv
<1>4. QED
  BY <1>2, <1>3

LEMMA FollowNext ==
  TypeInv /\ PageInv /\ TakenIn /\ ProgressLosesNothing /\ [Next]_vars => ProgressLosesNothing'
<1> SUFFICES ASSUME TypeInv, PageInv, TakenIn, ProgressLosesNothing, [Next]_vars
             PROVE  ProgressLosesNothing'
  OBVIOUS
<1>0. /\ TypeOK /\ w \in Await /\ client \in Client /\ generation \in Nat
      /\ LatestCursor = Len(ledger) /\ Len(ledger) \in Nat /\ LatestCursor \in Nat
      /\ client.base \in Nat
      /\ client.cursor \in 0 .. Len(ledger) /\ w.cursor \in 0 .. Len(ledger)
      /\ w.latest \in Nat
      /\ NoAwait.cursor = 0
  BY LatestIsLength, NoAwaitHeld DEF TypeInv, TypeOK, Client, Await
<1>1. CASE AwaitAction
  <2>0. UNCHANGED <<ledger, target>>
    BY <1>1, AwaitLeaves DEF Unchanged, storeVars
  <2>1. ASSUME NEW condition \in Conditions, NEW resume \in BOOLEAN, Begin(condition, resume)
        PROVE  ProgressLosesNothing'
    <3>1. client' = [client EXCEPT !.latest = NothingNew(client.cursor)]
      BY <2>1 DEF Begin
    <3>2. /\ client'.follows = client.follows /\ client'.cursor = client.cursor
          /\ client'.base = client.base /\ client'.got = client.got
      BY <1>0, <3>1 DEF Client
    <3>3. QED
      BY <1>0, <2>0, <2>1, <3>2, StartFields, NoFurther
  <2>2. CASE ReadNow
    <3>1. client'.base = Len(ledger) /\ client'.cursor = client.cursor
      BY <1>0, <2>2 DEF ReadNow, Client
    <3>2. w'.cursor = Len(ledger)
      BY <1>0, <2>2, Fields
    <3>3. EventsAfter(client.base)' = {}
      BY <1>0, <2>0, <3>1, AfterIs DEF Seen
    <3>4. QED
      BY <3>3 DEF ProgressLosesNothing
  <2>3. CASE CheckClosing
    <3>1. client' \in {client, Returned}
      BY <2>3 DEF CheckClosing
    <3>2. QED
      BY <1>0, <2>0, <2>3, <3>1, ReturnedFields, StartFields, NoFurther
  <2>4. CASE ReadGeneration \/ ReadLatest \/ Wait \/ Poll
    <3>1. w'.cursor = w.cursor
      BY <1>0, <2>4, Fields
    <3>2. QED
      BY <2>0, <2>4, <3>1, NoFurther DEF ReadGeneration, ReadLatest, Wait, Poll
  <2>5. CASE ReadJobs
    <3>1. w'.cursor \in {w.cursor, 0} /\ client' \in {client, Returned}
      BY <1>0, <2>5, ReadJobsFields DEF ReadJobs
    <3>2. QED
      BY <1>0, <2>0, <3>1, ReturnedFields, NoFurther
  <2>6. CASE ReadEvents
    <3>1. w'.cursor = w.cursor
      BY <1>0, <2>6, ReadEventsFields
    <3>2. QED
      BY <2>0, <2>6, <3>1, NoFurther DEF ReadEvents
  <2>7. CASE Respond
    <3>1. /\ client'.cursor = w.latest /\ w'.cursor = 0 /\ w.pc = "decide"
          /\ client'.follows = client.follows
          /\ client'.base = IF w.page = {} THEN w.latest ELSE client.base
          /\ client'.got = IF w.page = {} THEN {} ELSE client.got \cup w.page
      BY <1>0, <2>7, RespondFields DEF Respond
    <3>2. ASSUME client.follows, NEW c \in Seen(ledger, target, client'.base),
                 c <= w.latest \/ c <= 0
          PROVE  c \in client'.got
      <4>1. c \in Nat /\ ~(c <= 0) /\ c > client'.base
        BY DEF Seen
      <4>2. w.page # {}
        BY <1>0, <3>1, <3>2, <4>1
      <4>3. c \in EventsAfter(client.base)
        BY <3>1, <3>2, <4>2, AfterIs
      <4>4. QED
        BY <3>1, <3>2, <4>1, <4>2, <4>3, AllIsSent
    <3>3. QED
      BY <2>0, <3>1, <3>2, AfterIs DEF ProgressLosesNothing
  <2>8. CASE Progress /\ w.page = {}
    <3>1. client' = client
      BY <1>0, <2>8, TellFields
    <3>2. QED
      BY <1>0, <2>0, <2>8, <3>1, ProgressFields, NoFurther
  <2>9. CASE Progress /\ w.page # {}
    <3>1. /\ client'.follows = client.follows /\ client'.base = client.base
          /\ client.follows => /\ client'.cursor = w.latest
                               /\ client'.got = client.got \cup w.page
          /\ w'.cursor = w.latest /\ w.pc = "decide"
      <4>1. PICK message \in Message : /\ client' = Told(message)
                                       /\ message.cursor = w.latest /\ message.events = w.page
        BY <1>0, <2>9, TellFields
      <4>2. QED
        BY <1>0, <2>9, <4>1, ProgressFields, ToldFields DEF Progress
    <3>2. EventsAfter(client.base)' = EventsAfter(client.base)
      BY <2>0, <3>1, AfterIs
    <3>3. QED
      BY <2>9, <3>1, <3>2, AllIsSent DEF ProgressLosesNothing
  <2>10. ASSUME NEW late \in BOOLEAN, Heartbeat(late)
         PROVE  ProgressLosesNothing'
    <3>1. client.got \subseteq client'.got /\ client'.base = client.base
          /\ client'.follows = client.follows
          /\ client'.cursor \in {w.cursor, client.cursor}
      <4>1. CASE client' = client
        BY <4>1
      <4>2. ASSUME NEW message \in Message, client' = Told(message), message.cursor = w.cursor
            PROVE  /\ client.got \subseteq client'.got /\ client'.base = client.base
                   /\ client'.follows = client.follows
                   /\ client'.cursor \in {w.cursor, client.cursor}
        BY <1>0, <4>2, ToldFields
      <4>3. QED
        BY <1>0, <2>10, <4>1, <4>2, TellFields
    <3>2. w'.cursor = w.cursor
      BY <1>0, <2>10, Fields
    <3>3. QED
      BY <2>0, <3>1, <3>2, NoFurther
  <2>11. CASE Cancel \/ Lose
    <3>1. w'.cursor = 0 /\ w.pc # "idle"
      BY <1>0, <2>11 DEF Cancel, Lose
    <3>2. /\ client'.base = client.base /\ client'.follows = client.follows
          /\ client.got \subseteq client'.got
          /\ client'.cursor \in {client.cursor, client.latest.cursor}
      BY <1>0, <2>11, EndFields, ReturnedFields
    <3>3. QED
      BY <2>0, <3>1, <3>2, NoFurther DEF TakenIn
  <2>12. QED
    BY <1>1, <2>1, <2>2, <2>3, <2>4, <2>5, <2>6, <2>7, <2>8, <2>9, <2>10, <2>11
    DEF AwaitAction, AwaitStep
<1>2. ASSUME NEW t \in Writers, WriterStep(t)
      PROVE  ProgressLosesNothing'
  <2>1. /\ client' = client /\ w'.cursor = w.cursor /\ UNCHANGED target
        /\ UNCHANGED storeVars \/ Grows(Running)
    BY <1>2, WriterLeaves DEF Committed
  <2>2. ASSUME NEW c \in Seen(ledger', target', client.base),
               c <= client.cursor \/ c <= w.cursor, client.follows
        PROVE  c \in client.got
    <3>1. c \in Nat
      BY DEF Seen
    <3>2. ~(c > Len(ledger))
      BY <1>0, <2>2, <3>1
    <3>3. c \in EventsAfter(client.base)
      BY <1>0, <2>1, <3>2, OldRows, AfterIs
    <3>4. QED
      BY <2>2, <3>3 DEF ProgressLosesNothing
  <2>3. QED
    BY <2>1, <2>2, AfterIs DEF ProgressLosesNothing
<1>3. CASE UNCHANGED vars
  <2>1. UNCHANGED <<w, client, ledger, target>>
    BY <1>3 DEF vars, storeVars
  <2>2. QED
    BY <2>1, NoFurther
<1>4. QED
  BY <1>1, <1>2, <1>3, NextIs

\* Following by progress loses nothing: however often a caller that takes in the
\* progress messages cancels and resumes, whatever is committed and forgotten in
\* between, and wherever the limit of events_since cuts, every event of the target up
\* to its cursor has been given to it, except before the last cursor that came with an
\* answer without events (await_jobs, DaemonClient.request).  Of callers that do not
\* follow it says nothing: they do lose events (ResumesWithoutLoss).
THEOREM NothingLost == Spec => []ProgressLosesNothing
<1>1. Init => ProgressLosesNothing
  BY AfterIs DEF Init, ProgressLosesNothing, Seen
<1>2. QED
  BY <1>1, TypeInit, TypeNext, PageInit, PageNext, TakenInit, TakenNext, FollowNext, PTL DEF Spec

-----------------------------------------------------------------------------
(* The ends of jobs.                                                       *)

LEMMA EndInit == Init => EndInv
BY DEF Init, EndInv, NoAwait

LEMMA EndNext == TypeInv /\ PageInv /\ EndInv /\ [Next]_vars => EndInv'
<1> SUFFICES ASSUME TypeInv, PageInv, EndInv, [Next]_vars
             PROVE  EndInv'
  OBVIOUS
<1>0. /\ TypeOK /\ w \in Await /\ w.cursor \in Nat /\ LatestCursor \in Nat
      /\ generation \in Nat /\ w.ended \subseteq Jobs /\ Len(ledger) \in Nat
  BY LatestIsLength DEF TypeInv, TypeOK, Await
<1>1. CASE AwaitAction
  <2>0. UNCHANGED <<ledger, jobState, target>>
    BY <1>1, AwaitLeaves DEF Unchanged, storeVars
  <2>1. CASE ReadJobs /\ w' # NoAwait
    <3>1. w'.pc = "events" /\ w'.ended = TargetJobs \cap EndedJobs
      BY <1>0, <2>1, ReadJobsFields
    <3>2. QED
      BY <2>0, <3>1 DEF EndInv, EndedJobs
  <2>2. CASE ReadEvents
    <3>1. /\ w.pc = "events" /\ w'.ended = w.ended /\ w'.cursor = w.cursor
          /\ w'.page = EventsSince(w.cursor)
      BY <1>0, <2>2, ReadEventsFields DEF ReadEvents
    <3>2. w'.page = {} => EventsAfter(w.cursor)' = {}
      BY <1>0, <2>0, <3>1, PageIsPrefix, AfterIs
    <3>3. QED
      BY <2>0, <3>1, <3>2 DEF EndInv
  <2>3. CASE ReadLatest
    <3>1. /\ w.pc = "latest" /\ w'.ended = w.ended /\ w'.cursor = w.cursor
          /\ w'.page = w.page
      BY <1>0, <2>3, Fields DEF ReadLatest
    <3>2. EventsAfter(w.cursor)' = EventsAfter(w.cursor)
      BY <2>0, <3>1, AfterIs
    <3>3. QED
      BY <2>0, <3>1, <3>2 DEF EndInv
  <2>4. QED
    BY <1>1, <2>1, <2>2, <2>3, Reads DEF EndInv
<1>2. ASSUME NEW t \in Writers, WriterStep(t)
      PROVE  EndInv'
  <2>1. /\ w'.page = w.page /\ w'.cursor = w.cursor /\ w'.ended = w.ended
        /\ w'.pc = w.pc \/ w'.pc = "awake"
        /\ UNCHANGED target /\ (UNCHANGED storeVars \/ Grows(Running))
        /\ \A j \in Jobs : jobState[j] \in Over => jobState'[j] \in Over
    BY <1>2, WriterLeaves DEF Committed, storeVars
  <2>2. ASSUME w.pc \in {"events", "latest", "decide"}
        PROVE  \A j \in w.ended : jobState[j] \in Over /\ jobState'[j] \in Over
    BY <1>0, <2>1, <2>2 DEF EndInv, Over
  <2>3. ASSUME w.pc \in {"latest", "decide"}, w.page = {},
               NEW c \in Seen(ledger', target', w.cursor), ledger'[c].ends
        PROVE  ledger'[c].subject \notin w.ended
    <3>1. CASE c \in Seen(ledger, target, w.cursor) /\ ledger'[c] = ledger[c]
      BY <2>3, <3>1, AfterIs DEF EndInv
    <3>2. CASE ledger'[c].subject \in Running
      BY <2>2, <2>3, <3>2 DEF Running, Over
    <3>3. QED
      BY <1>0, <2>1, <2>3, <3>1, <3>2, OldRows
  <2>4. EventsAfter(w.cursor)' = Seen(ledger', target', w.cursor)
    BY <2>1, AfterIs
  <2>5. QED
    BY <2>1, <2>2, <2>3, <2>4 DEF EndInv, Over
<1>3. CASE UNCHANGED vars
  <2>1. UNCHANGED <<w, jobState, ledger, target>>
    BY <1>3 DEF vars, storeVars
  <2>2. EventsAfter(w.cursor)' = EventsAfter(w.cursor)
    BY <2>1, AfterIs
  <2>3. QED
    BY <2>1, <2>2 DEF EndInv
<1>4. QED
  BY <1>1, <1>2, <1>3, NextIs

\* An answer that reports a job as ended leaves no doubt when: the event of its end is
\* not one its cursor passes over without carrying it, whatever is committed between
\* the transactions of an await (await_jobs reads the jobs before the events).
THEOREM EndsAreExplained == Spec => []EndsExplained
<1>1. PageInv /\ EndInv => EndsExplained
  BY DEF PageInv, EndInv, EndsExplained
<1>2. QED
  BY <1>1, TypeInit, TypeNext, PageInit, PageNext, EndInit, EndNext, PTL DEF Spec

-----------------------------------------------------------------------------
(* Wakeups.                                                                *)

LEMMA FreshInit == Init => FreshInv
BY DEF Init, FreshInv, NoAwait, Reading

LEMMA FreshNext == TypeInv /\ PageInv /\ FreshInv /\ [Next]_vars => FreshInv'
<1> SUFFICES ASSUME TypeInv, PageInv, FreshInv, [Next]_vars
             PROVE  FreshInv'
  OBVIOUS
<1>0. /\ TypeOK /\ w \in Await /\ client \in Client /\ w.cursor \in Nat /\ LatestCursor \in Nat
      /\ generation \in Nat /\ w.gen \in Nat
      /\ due \in [Writers -> BOOLEAN]
      /\ w.condition \in Conditions
  BY LatestIsLength DEF TypeInv, TypeOK, Await
<1>1. CASE AwaitAction
  <2>0. /\ UNCHANGED <<ledger, jobState, target, generation, due, dropped>>
        /\ TargetJobs' = TargetJobs /\ EndedJobs' = EndedJobs
    BY <1>1, AwaitLeaves DEF Unchanged, storeVars, notifyVars, TargetJobs, EndedJobs
  <2>1. CASE ReadGeneration
    BY <1>0, <2>0, <2>1, Fields DEF FreshInv, Reading
  <2>2. CASE ReadJobs /\ w' # NoAwait
    <3>1. /\ w.pc = "jobs" /\ w'.pc = "events" /\ w'.gen = w.gen
          /\ w'.jobs = TargetJobs /\ w'.ended = TargetJobs \cap EndedJobs
      BY <1>0, <2>2, ReadJobsFields DEF ReadJobs
    <3>2. QED
      BY <2>0, <3>1 DEF FreshInv, Reading
  <2>3. CASE ReadEvents
    <3>1. /\ w.pc = "events" /\ w'.pc \in {"latest", "decide"} /\ w'.gen = w.gen
          /\ w'.jobs = w.jobs /\ w'.ended = w.ended /\ w'.cursor = w.cursor
          /\ w'.page = EventsSince(w.cursor)
      BY <1>0, <2>3, ReadEventsFields DEF ReadEvents
    <3>2. w'.page = {} => EventsAfter(w.cursor)' = {}
      BY <1>0, <2>0, <3>1, PageIsPrefix, AfterIs
    <3>3. Fresh' => Fresh
      BY <2>0, <3>1 DEF Fresh, Reading
    <3>4. QED
      BY <2>0, <3>1, <3>2, <3>3 DEF FreshInv, Reading
  <2>4. CASE ReadLatest
    <3>1. /\ w.pc = "latest" /\ w'.pc = "decide" /\ w'.gen = w.gen
          /\ w'.jobs = w.jobs /\ w'.ended = w.ended /\ w'.cursor = w.cursor
          /\ w'.page = w.page
      BY <1>0, <2>4, Fields DEF ReadLatest
    <3>2. EventsAfter(w.cursor)' = EventsAfter(w.cursor)
      BY <2>0, <3>1, AfterIs
    <3>3. Fresh' => Fresh
      BY <2>0, <3>1 DEF Fresh, Reading
    <3>4. QED
      BY <2>0, <3>1, <3>2, <3>3 DEF FreshInv, Reading
  <2>5. CASE Progress
    <3>1. /\ w.pc = "decide" /\ w'.pc = "wait" /\ w'.gen = w.gen
          /\ w'.condition = w.condition
          /\ w.page = {} => w'.cursor = w.cursor
          /\ ~SatisfiedNow
      BY <1>0, <2>5, ProgressFields DEF Progress
    <3>2. Fresh' => Fresh
      BY <2>0, <3>1 DEF Fresh, Reading
    <3>3. ASSUME Fresh
          PROVE  ~HoldsNow'
      <4>1. /\ w.jobs = TargetJobs /\ w.ended = TargetJobs \cap EndedJobs
            /\ w.page = {} => EventsAfter(w.cursor) = {}
        BY <3>1, <3>3 DEF FreshInv
      <4>2. w.page = {} => EventsAfter(w.cursor)' = {}
        BY <2>0, <3>1, <4>1, AfterIs
      <4>3. CASE w.condition = "any_change"
        BY <3>1, <4>2, <4>3 DEF SatisfiedNow, HoldsNow, Satisfied
      <4>4. CASE w.condition = "any_terminal"
        BY <2>0, <3>1, <4>1, <4>4 DEF SatisfiedNow, HoldsNow, Satisfied
      <4>5. CASE w.condition = "all_terminal"
        BY <2>0, <3>1, <4>1, <4>5 DEF SatisfiedNow, HoldsNow, Satisfied
      <4>6. QED
        BY <1>0, <4>3, <4>4, <4>5 DEF Conditions
    <3>4. QED
      BY <2>0, <3>1, <3>2, <3>3 DEF FreshInv, Reading
  <2>6. CASE Wait /\ w'.pc = "asleep"
    <3>1. /\ w.pc = "wait" /\ generation = w.gen /\ w'.cursor = w.cursor
          /\ w'.condition = w.condition
      BY <1>0, <2>6, Fields DEF Wait
    <3>2. Fresh' => Fresh
      BY <2>0, <3>1 DEF Fresh
    <3>3. EventsAfter(w.cursor)' = EventsAfter(w.cursor)
      BY <2>0, <3>1, AfterIs
    <3>4. HoldsNow' <=> HoldsNow
      BY <2>0, <3>1, <3>3 DEF HoldsNow
    <3>5. QED
      BY <2>6, <3>1, <3>2, <3>4 DEF FreshInv, Reading
  <2>7. QED
    BY <1>1, <2>1, <2>2, <2>3, <2>4, <2>5, <2>6, Reads DEF FreshInv, Reading
<1>2. ASSUME NEW t \in Writers, WriterStep(t)
      PROVE  FreshInv'
  <2>1. w'.gen = w.gen /\ (w'.pc = w.pc \/ w'.pc = "awake")
    BY <1>2, WriterLeaves
  <2>2. CASE Committed(t) \/ NotifyDropped(t) \/ Close(t)
    <3>1. ~Fresh' /\ generation' = generation
      BY <1>0, <2>2 DEF Committed, NotifyDropped, Close, Fresh
    <3>2. QED
      BY <2>1, <3>1 DEF FreshInv, Reading
  <2>3. CASE Notify(t)
    <3>1. generation' = generation + 1 /\ (w.pc = "asleep" => w'.pc = "awake")
      BY <1>0, <2>3 DEF Notify, Woken, Await
    <3>2. w'.pc \in Reading => w'.pc = w.pc /\ w.gen <= generation
      BY <2>1 DEF FreshInv, Reading
    <3>3. w'.pc \in Reading => w'.gen <= generation' /\ ~Fresh'
      BY <1>0, <2>1, <3>1, <3>2 DEF Fresh
    <3>4. w'.pc # "asleep"
      BY <2>1, <3>1
    <3>5. QED
      BY <3>3, <3>4 DEF FreshInv, Reading
  <2>4. QED
    BY <1>0, <1>2, <2>2, <2>3, CommitMoves
<1>3. CASE UNCHANGED vars
  <2>1. /\ UNCHANGED <<w, ledger, jobState, target, generation, due, dropped>>
        /\ TargetJobs' = TargetJobs /\ EndedJobs' = EndedJobs
    BY <1>3 DEF vars, storeVars, notifyVars, TargetJobs, EndedJobs
  <2>2. EventsAfter(w.cursor)' = EventsAfter(w.cursor) /\ (Fresh' <=> Fresh)
    BY <2>1, AfterIs DEF Fresh
  <2>3. HoldsNow' <=> HoldsNow
    BY <2>1, <2>2 DEF HoldsNow
  <2>4. QED
    BY <2>1, <2>2, <2>3 DEF FreshInv
<1>4. QED
  BY <1>1, <1>2, <1>3, NextIs

\* No wakeup is lost: if nobody failed to notify, an await sleeps although its
\* condition holds only while some thread is about to notify (the generation counter
\* of _notify, read before the snapshot); for any number of threads and jobs.
THEOREM WakeupsKept == Spec => []NoLostWakeup
<1>1. FreshInv => NoLostWakeup
  BY DEF FreshInv, Fresh, Reading, NoLostWakeup
<1>2. QED
  BY <1>1, TypeInit, TypeNext, PageInit, PageNext, FreshInit, FreshNext, PTL DEF Spec

=============================================================================
