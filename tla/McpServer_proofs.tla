-------------------------- MODULE McpServer_proofs --------------------------
(***************************************************************************)
(* Theorems of McpServer, for every number of calls, of ids and of threads *)
(* of the two pools.                                                       *)
(***************************************************************************)
EXTENDS McpServer, TLAPS

LEMMA CallNumbers == \A r \in Call : r \in Nat /\ r # NoCall
BY WorkersAssumption DEF Call, NoCall

-----------------------------------------------------------------------------
(* Type correctness. *)

\* A call that moves on stays a call.
LEMMA MoveType ==
  ASSUME TypeOK, NEW r \in Call, NEW pc \in {"unsent", "queued", "over"} \cup Busy,
         NEW answer \in {"", "result", "cancelled", "dropped"}
  PROVE  /\ [call EXCEPT ![r].pc = pc] \in [Call -> Future]
         /\ [call EXCEPT ![r].pc = pc, ![r].answer = answer] \in [Call -> Future]
         /\ [call EXCEPT ![r].cancelled = TRUE] \in [Call -> Future]
BY DEF TypeOK, Future

LEMMA InitType == Init => TypeOK
<1> SUFFICES ASSUME Init
             PROVE  TypeOK
  OBVIOUS
<1>1. (CHOOSE i \in CallId : TRUE) \in CallId
  BY IdAssumption
<1>2. QED
  BY <1>1 DEF Init, TypeOK, Future

LEMMA NextType == TypeOK /\ [Next]_vars => TypeOK'
<1> SUFFICES ASSUME TypeOK, [Next]_vars
             PROVE  TypeOK'
  OBVIOUS
<1>1. ASSUME NEW r \in Call, Submit(r)
      PROVE  TypeOK'
  <2>1. PICK i \in CallId, tool \in {"run", "await"} :
          call' = [call EXCEPT ![r].pc = "queued", ![r].id = i, ![r].tool = tool]
    BY <1>1 DEF Submit
  <2>2. call' = [call EXCEPT ![r] = [call[r] EXCEPT !.pc = "queued", !.id = i,
                                                    !.tool = tool]]
    BY <2>1 DEF TypeOK
  <2>3. [call[r] EXCEPT !.pc = "queued", !.id = i, !.tool = tool] \in Future
    BY DEF TypeOK, Future
  <2>4. QED
    BY <1>1, <2>2, <2>3 DEF Submit, TypeOK
<1>2. CASE Enter
  BY <1>2 DEF Enter, TypeOK, Future
<1>3. ASSUME NEW i \in CallId, Cancel(i)
      PROVE  TypeOK'
  <2>1. pending[i] \in Call
    BY <1>3 DEF Cancel, TypeOK
  <2>2. QED
    BY <1>3, <2>1, MoveType DEF Cancel, TypeOK
<1>4. CASE EndOfInput
  BY <1>4 DEF EndOfInput, TypeOK, Future
<1>5. CASE Shutdown
  BY <1>5 DEF Shutdown, TypeOK, Future
<1>6. ASSUME NEW r \in Call, Begin(r)
      PROVE  TypeOK'
  BY <1>6, MoveType DEF Begin, To, TypeOK, Busy
<1>7. ASSUME NEW r \in Call, NEW answer \in {"result", "cancelled"},
             Answered(r, answer)
      PROVE  TypeOK'
  BY <1>7, MoveType DEF Answered, TypeOK, Busy
<1>8. ASSUME NEW r \in Call, Forget(r)
      PROVE  TypeOK'
  <2>1. call' \in [Call -> Future]
    BY <1>8, MoveType DEF Forget, To
  <2>2. pending' \in [CallId -> {NoCall} \cup Call]
    BY <1>8 DEF Forget, TypeOK
  <2>3. QED
    BY <1>8, <2>1, <2>2 DEF Forget, TypeOK
<1>9. CASE UNCHANGED vars
  BY <1>9 DEF vars, TypeOK
<1>10. QED
  BY <1>1, <1>2, <1>3, <1>4, <1>5, <1>6, <1>7, <1>8, <1>9
  DEF Next, CallStep, Return, AwaitReturns, SeeCancelled

\* Type correctness: in particular the table of pending calls maps ids to calls
\* and the reader holds at most one call, however calls come and go.
THEOREM TypeCorrect == Spec => []TypeOK
<1>1. QED
  BY InitType, NextType, PTL DEF Spec

-----------------------------------------------------------------------------
(* The inductive invariant: the table follows the calls.                   *)
(*                                                                         *)
(* Between submit and enter a call runs without being in the table; it may *)
(* even be answered there.  So the reader's call takes the place of no     *)
(* other call in flight only because ids in use were excluded when it was  *)
(* submitted, and its callback must wait for it to be entered.             *)

\* The reader's call is none of the table, and not over.
ReaderInv ==
  reader # NoCall => /\ server = "open"
                     /\ call[reader].pc \notin {"unsent", "over"}

\* What is entered is entered under its own id and has not been forgotten.
TableInv ==
  \A i \in CallId :
    pending[i] # NoCall => /\ call[pending[i]].id = i
                           /\ call[pending[i]].pc \notin {"unsent", "over"}
                           /\ pending[i] # reader

\* A call in flight shares its id neither with another nor with the reader's.
OwnIds ==
  \A q, r \in Call :
    q # r /\ InFlight(q) /\ (InFlight(r) \/ r = reader) =>
      call[q].id # call[r].id

EnteredInv == \A r \in Call : InFlight(r) /\ reader # r => pending[call[r].id] = r

\* Every call that is done has its answer.
AnswerInv == \A r \in Call : call[r].pc \in {"done", "over"} => call[r].answer # ""

IInv == TypeOK /\ ReaderInv /\ TableInv /\ OwnIds /\ EnteredInv /\ AnswerInv

\* A thread's step on a call in flight disturbs the table only if it answers it.
LEMMA ThreadStepInv ==
  ASSUME IInv, NEW r \in Call, call[r].pc \in {"queued", "request"},
         \/ call'[r].pc = "request" /\ call'[r].answer = call[r].answer
         \/ call'[r].pc = "done" /\ call'[r].answer # "",
         call'[r].id = call[r].id,
         \A q \in Call : q # r => call'[q] = call[q],
         UNCHANGED <<server, reader, pending>>
  PROVE  ReaderInv' /\ TableInv' /\ OwnIds' /\ EnteredInv' /\ AnswerInv'
<1>1. call \in [Call -> Future] /\ pending \in [CallId -> {NoCall} \cup Call]
        /\ reader \in {NoCall} \cup Call
  BY DEF IInv, TypeOK
<1>2. \A q \in Call : call'[q].id = call[q].id /\ call[q].id \in CallId
  BY <1>1 DEF Future
<1>3. \A q \in Call : InFlight(q)' => InFlight(q)
  BY <1>1 DEF InFlight
<1>4. ReaderInv'
  BY <1>1 DEF IInv, ReaderInv
<1>5. TableInv'
  <2>1. ASSUME NEW i \in CallId, pending[i] # NoCall
        PROVE  /\ call'[pending[i]].id = i
               /\ call'[pending[i]].pc \notin {"unsent", "over"}
               /\ pending[i] # reader
    <3>1. pending[i] \in Call
      BY <1>1, <2>1
    <3>2. QED
      BY <1>2, <2>1, <3>1 DEF IInv, TableInv
  <2>2. QED
    BY <2>1 DEF TableInv
<1>6. OwnIds'
  <2>1. ASSUME NEW q \in Call, NEW p \in Call, q # p, InFlight(q)',
               InFlight(p)' \/ p = reader'
        PROVE  call'[q].id # call'[p].id
    BY <1>2, <1>3, <2>1 DEF IInv, OwnIds
  <2>2. QED
    BY <2>1 DEF OwnIds
<1>7. EnteredInv'
  BY <1>2, <1>3 DEF IInv, EnteredInv, InFlight
<1>8. AnswerInv'
  BY DEF IInv, AnswerInv
<1>9. QED
  BY <1>4, <1>5, <1>6, <1>7, <1>8

\* Setting the event of a call changes nothing the invariant speaks of.
LEMMA CancelledInv ==
  ASSUME IInv, NEW r \in Call,
         \A q \in Call : /\ call'[q].pc = call[q].pc
                         /\ call'[q].id = call[q].id
                         /\ call'[q].answer = call[q].answer,
         UNCHANGED <<reader, pending>>, server' # "open" => reader = NoCall
  PROVE  ReaderInv' /\ TableInv' /\ OwnIds' /\ EnteredInv' /\ AnswerInv'
<1>1. pending \in [CallId -> {NoCall} \cup Call] /\ reader \in {NoCall} \cup Call
  BY DEF IInv, TypeOK
<1>2. \A q \in Call : InFlight(q)' <=> InFlight(q)
  BY DEF InFlight
<1>3. ReaderInv' /\ TableInv'
  BY <1>1 DEF IInv, ReaderInv, TableInv
<1>4. OwnIds' /\ EnteredInv'
  BY <1>1, <1>2 DEF IInv, OwnIds, EnteredInv
<1>5. AnswerInv'
  BY DEF IInv, AnswerInv
<1>6. QED
  BY <1>3, <1>4, <1>5

LEMMA InvInit == Init => IInv
<1> SUFFICES ASSUME Init
             PROVE  IInv
  OBVIOUS
<1>1. TypeOK
  BY InitType
<1>2. \A r \in Call : call[r].pc = "unsent"
  BY DEF Init
<1>3. ReaderInv /\ TableInv
  BY DEF Init, ReaderInv, TableInv
<1>4. OwnIds /\ EnteredInv /\ AnswerInv
  BY <1>2 DEF OwnIds, EnteredInv, AnswerInv, InFlight
<1>5. QED
  BY <1>1, <1>3, <1>4 DEF IInv

LEMMA InvNext == IInv /\ [Next]_vars => IInv'
<1> SUFFICES ASSUME IInv, [Next]_vars
             PROVE  ReaderInv' /\ TableInv' /\ OwnIds' /\ EnteredInv' /\ AnswerInv'
  BY NextType DEF IInv
<1>1. /\ call \in [Call -> Future]
      /\ pending \in [CallId -> {NoCall} \cup Call]
      /\ reader \in {NoCall} \cup Call
  BY DEF IInv, TypeOK
<1>2. ASSUME NEW r \in Call, Submit(r)
      PROVE  ReaderInv' /\ TableInv' /\ OwnIds' /\ EnteredInv' /\ AnswerInv'
  <2>1. PICK i \in CallId, tool \in {"run", "await"} :
          /\ \A q \in Call : InFlight(q) => call[q].id # i
          /\ call' = [call EXCEPT ![r].pc = "queued", ![r].id = i, ![r].tool = tool]
    BY <1>2 DEF Submit
  <2>2. /\ call[r].pc = "unsent"
        /\ reader = NoCall
        /\ reader' = r
        /\ server' = "open"
        /\ pending' = pending
    BY <1>2 DEF Submit
  <2>3. /\ call'[r].pc = "queued"
        /\ call'[r].id = i
        /\ \A q \in Call : q # r => call'[q] = call[q]
    BY <1>1, <2>1 DEF Future
  <2>4. \A q \in Call : q # r => (InFlight(q)' <=> InFlight(q))
    BY <2>3 DEF InFlight
  <2>5. ReaderInv'
    BY <2>2, <2>3 DEF ReaderInv
  <2>6. TableInv'
    BY <1>1, <2>2, <2>3 DEF IInv, TableInv
  <2>7. OwnIds'
    <3>1. ASSUME NEW q \in Call, NEW p \in Call, q # p, InFlight(q)',
                 InFlight(p)' \/ p = reader'
          PROVE  call'[q].id # call'[p].id
      <4>1. CASE q = r
        BY <2>1, <2>2, <2>3, <2>4, <3>1, <4>1
      <4>2. CASE p = r
        BY <2>1, <2>2, <2>3, <2>4, <3>1, <4>2
      <4>3. CASE q # r /\ p # r
        BY <2>2, <2>3, <2>4, <3>1, <4>3 DEF IInv, OwnIds
      <4>4. QED
        BY <4>1, <4>2, <4>3
    <3>2. QED
      BY <3>1 DEF OwnIds
  <2>8. EnteredInv'
    BY <2>2, <2>3, <2>4, CallNumbers DEF IInv, EnteredInv
  <2>9. AnswerInv'
    BY <2>3 DEF IInv, AnswerInv
  <2>10. QED
    BY <2>5, <2>6, <2>7, <2>8, <2>9
<1>3. CASE Enter
  <2> DEFINE i == call[reader].id
  <2>1. /\ reader \in Call
        /\ i \in CallId
        /\ pending' = [pending EXCEPT ![i] = reader]
        /\ reader' = NoCall
        /\ UNCHANGED <<server, call>>
    BY <1>1, <1>3 DEF Enter, Future
  <2>2. ReaderInv'
    BY <2>1 DEF ReaderInv
  <2>3. TableInv'
    BY <1>1, <2>1, CallNumbers DEF IInv, ReaderInv, TableInv
  <2>4. OwnIds'
    BY <2>1, CallNumbers DEF IInv, OwnIds, InFlight
  <2>5. EnteredInv'
    <3>1. ASSUME NEW q \in Call, InFlight(q), q # reader
          PROVE  pending'[call[q].id] = q
      BY <1>1, <2>1, <3>1 DEF IInv, OwnIds, EnteredInv, Future
    <3>2. pending'[call[reader].id] = reader
      BY <1>1, <2>1
    <3>3. QED
      BY <2>1, <3>1, <3>2 DEF EnteredInv, InFlight
  <2>6. AnswerInv'
    BY <2>1 DEF IInv, AnswerInv
  <2>7. QED
    BY <2>2, <2>3, <2>4, <2>5, <2>6
<1>4. ASSUME NEW i \in CallId, Cancel(i)
      PROVE  ReaderInv' /\ TableInv' /\ OwnIds' /\ EnteredInv' /\ AnswerInv'
  <2>1. pending[i] \in Call
    BY <1>1, <1>4 DEF Cancel
  <2>2. \A q \in Call : /\ call'[q].pc = call[q].pc
                        /\ call'[q].id = call[q].id
                        /\ call'[q].answer = call[q].answer
    BY <1>1, <1>4, <2>1 DEF Cancel, Future
  <2>3. QED
    BY <1>4, <2>1, <2>2, CancelledInv DEF Cancel
<1>5. CASE EndOfInput
  <2>1. \A q \in Call : /\ call'[q].pc = call[q].pc
                        /\ call'[q].id = call[q].id
                        /\ call'[q].answer = call[q].answer
    BY <1>1, <1>5 DEF EndOfInput, Future
  <2>3. UNCHANGED <<reader, pending>> /\ reader = NoCall
    BY <1>5 DEF EndOfInput
  <2>4. ReaderInv' /\ TableInv'
    BY <1>1, <2>1, <2>3 DEF IInv, ReaderInv, TableInv
  <2>2. \A q \in Call : InFlight(q)' => InFlight(q)
    BY <2>1 DEF InFlight
  <2>5. OwnIds' /\ EnteredInv'
    <3>1. ASSUME NEW q \in Call, NEW p \in Call, q # p, InFlight(q)',
                 InFlight(p)' \/ p = reader'
          PROVE  call'[q].id # call'[p].id
      BY <2>1, <2>2, <2>3, <3>1 DEF IInv, OwnIds
    <3>2. ASSUME NEW q \in Call, InFlight(q)', reader' # q
          PROVE  pending'[call'[q].id] = q
      BY <2>1, <2>2, <2>3, <3>2 DEF IInv, EnteredInv
    <3>3. QED
      BY <3>1, <3>2 DEF OwnIds, EnteredInv
  <2>7. AnswerInv'
    BY <2>1 DEF IInv, AnswerInv
  <2>6. QED
    BY <2>4, <2>5, <2>7
<1>6. CASE Shutdown
  <2> DEFINE dropped == {r \in Call : call[r].pc = "queued"}
  <2>1. /\ reader = NoCall
        /\ reader' = reader
    BY <1>6 DEF Shutdown, IInv, ReaderInv
  <2>2. \A q \in Call :
          /\ call'[q].id = call[q].id
          /\ q \in dropped => call'[q].pc = "over" /\ call'[q].answer = "dropped"
          /\ q \notin dropped => call'[q] = call[q]
    BY <1>1, <1>6 DEF Shutdown, Future
  <2>3. \A i \in CallId :
          pending'[i] = IF pending[i] \in dropped THEN NoCall ELSE pending[i]
    BY <1>6 DEF Shutdown
  <2>4. \A q \in Call : InFlight(q)' => InFlight(q) /\ q \notin dropped
    BY <2>2 DEF InFlight
  <2>5. ReaderInv'
    BY <2>1 DEF ReaderInv
  <2>6. TableInv'
    BY <1>1, <2>1, <2>2, <2>3 DEF IInv, TableInv
  <2>7. OwnIds'
    BY <2>1, <2>2, <2>4, CallNumbers DEF IInv, OwnIds
  <2>8. EnteredInv'
    <3>1. ASSUME NEW q \in Call, InFlight(q)', reader' # q
          PROVE  pending'[call'[q].id] = q
      <4>1. call[q].id \in CallId /\ pending[call[q].id] = q
        BY <1>1, <2>1, <2>4, <3>1 DEF IInv, EnteredInv, Future
      <4>2. QED
        BY <2>2, <2>3, <2>4, <3>1, <4>1
    <3>2. QED
      BY <3>1 DEF EnteredInv
  <2>9. AnswerInv'
    BY <2>2 DEF IInv, AnswerInv
  <2>10. QED
    BY <2>5, <2>6, <2>7, <2>8, <2>9
<1>7. ASSUME NEW r \in Call, Begin(r)
      PROVE  ReaderInv' /\ TableInv' /\ OwnIds' /\ EnteredInv' /\ AnswerInv'
  <2>1. /\ call[r].pc = "queued"
        /\ call'[r].pc = "request"
        /\ call'[r].answer = call[r].answer
        /\ call'[r].id = call[r].id
        /\ \A q \in Call : q # r => call'[q] = call[q]
    BY <1>1, <1>7 DEF Begin, To, Future
  <2>2. QED
    BY <1>7, <2>1, ThreadStepInv DEF Begin
<1>8. ASSUME NEW r \in Call, NEW answer \in {"result", "cancelled"},
             call[r].pc = "request", Answered(r, answer)
      PROVE  ReaderInv' /\ TableInv' /\ OwnIds' /\ EnteredInv' /\ AnswerInv'
  <2>1. /\ call'[r].pc = "done"
        /\ call'[r].answer = answer
        /\ call'[r].id = call[r].id
        /\ \A q \in Call : q # r => call'[q] = call[q]
    BY <1>1, <1>8 DEF Answered, Future
  <2>2. QED
    BY <1>8, <2>1, ThreadStepInv DEF Answered
<1>9. ASSUME NEW r \in Call, Forget(r)
      PROVE  ReaderInv' /\ TableInv' /\ OwnIds' /\ EnteredInv' /\ AnswerInv'
  <2>1. /\ call'[r].pc = "over"
        /\ call'[r].answer = call[r].answer
        /\ \A q \in Call : /\ call'[q].id = call[q].id
                           /\ call'[q].answer = call[q].answer
                           /\ q # r => call'[q] = call[q]
    BY <1>1, <1>9 DEF Forget, To, Future
  <2>2. \A i \in CallId : /\ pending[i] = r => call[r].id = i
                          /\ pending'[i] = IF pending[i] = r THEN NoCall
                                                             ELSE pending[i]
    BY <1>1, <1>9, CallNumbers DEF Forget, IInv, TableInv
  <2>3. call[r].pc = "done" /\ reader # r /\ UNCHANGED <<server, reader>>
    BY <1>9 DEF Forget
  <2>4. call[r].answer # ""
    BY <2>3 DEF IInv, AnswerInv
  <2>5. \A q \in Call : InFlight(q)' => InFlight(q) /\ q # r
    BY <2>1, <2>4 DEF InFlight
  <2>6. ReaderInv'
    BY <1>1, <2>1, <2>3 DEF IInv, ReaderInv
  <2>7. TableInv'
    BY <1>1, <2>1, <2>2, <2>3 DEF IInv, TableInv
  <2>8. OwnIds'
    BY <2>1, <2>3, <2>5 DEF IInv, OwnIds
  <2>9. EnteredInv'
    <3>1. ASSUME NEW q \in Call, InFlight(q)', reader' # q
          PROVE  pending'[call'[q].id] = q
      <4>1. call[q].id \in CallId /\ pending[call[q].id] = q /\ q # r
        BY <1>1, <2>3, <2>5, <3>1 DEF IInv, EnteredInv, Future
      <4>2. QED
        BY <2>1, <2>2, <4>1
    <3>2. QED
      BY <3>1 DEF EnteredInv
  <2>10. AnswerInv'
    BY <2>1, <2>4 DEF IInv, AnswerInv
  <2>11. QED
    BY <2>6, <2>7, <2>8, <2>9, <2>10
<1>10. CASE UNCHANGED vars
  BY <1>10
  DEF vars, IInv, ReaderInv, TableInv, OwnIds, EnteredInv, AnswerInv, InFlight
<1>11. QED
  BY <1>2, <1>3, <1>4, <1>5, <1>6, <1>7, <1>8, <1>9, <1>10
  DEF Next, CallStep, Return, AwaitReturns, SeeCancelled

\* A cancellation finds its call: with ids that a harness uses again as soon as
\* it has an answer, every call in flight that has been entered stands in the
\* table under its id, and nothing in the table is over; for every number of
\* calls, ids and threads.
THEOREM CancelFindsCall == Spec => []PendingTracksCalls
<1>1. IInv => PendingTracksCalls
  BY DEF IInv, TypeOK, TableInv, EnteredInv, PendingTracksCalls, Pending
<1>2. QED
  BY <1>1, InvInit, InvNext, PTL DEF Spec

=============================================================================
