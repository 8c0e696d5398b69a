------------------------------ MODULE McpServer ------------------------------
(***************************************************************************)
(* The MCP server of a harness: the thread that reads its stdin, the two   *)
(* pools of threads that carry out tool calls, the table of pending calls  *)
(* by which a call is cancelled, and the end of the server.                *)
(***************************************************************************)
EXTENDS Naturals, FiniteSets

CONSTANTS
  Calls,          \* bound: tool calls of the harness
  CallId,         \* JSON-RPC ids, which the harness may use again
  ControlWorkers, \* max_workers of control_executor
  WaitWorkers     \* max_workers of wait_executor

ASSUME WorkersAssumption ==
  Calls \in Nat /\ {ControlWorkers, WaitWorkers} \subseteq Nat \ {0}
ASSUME IdAssumption == CallId # {}

\* The calls in the order in which they are sent.
Call == 1 .. Calls
NoCall == 0

VARIABLES
  server,   \* how far the server is
  reader,   \* the call that the reader has submitted and not entered
  pending,  \* the call that is pending under an id
  call      \* of each call, its future

vars == <<server, reader, pending, call>>

-----------------------------------------------------------------------------
\* A thread is at work in "request" and "done"; a call is "over" when the callback of
\* its future has run.
Busy == {"request", "done"}
Future == [pc : {"unsent", "queued", "over"} \cup Busy,
           id : CallId, tool : {"run", "await"}, cancelled : BOOLEAN,
           answer : {"", "result", "cancelled", "dropped"}]

TypeOK ==
  /\ server \in {"open", "closing", "closed"}
  /\ reader \in {NoCall} \cup Call
  /\ pending \in [CallId -> {NoCall} \cup Call]
  /\ call \in [Call -> Future]

Init ==
  /\ server = "open" /\ reader = NoCall
  /\ pending = [i \in CallId |-> NoCall]
  /\ call = [r \in Call |->
               [pc |-> "unsent", id |-> CHOOSE i \in CallId : TRUE, tool |-> "run",
                cancelled |-> FALSE, answer |-> ""]]

-----------------------------------------------------------------------------
(* The reader of stdin. *)

\* A call whose answer the harness has not seen.
InFlight(r) == call[r].pc # "unsent" /\ call[r].answer = ""

\* tools/call, start_tool_call: the call is submitted to the executor of its tool.  The
\* harness does not use the id of a call in flight.
Submit(r) ==
  /\ server = "open" /\ reader = NoCall
  /\ call[r].pc = "unsent" /\ \A q \in Call : q < r => call[q].pc # "unsent"
  /\ \E i \in CallId, tool \in {"run", "await"} :
       /\ \A q \in Call : InFlight(q) => call[q].id # i
       /\ call' = [call EXCEPT ![r].pc = "queued", ![r].id = i, ![r].tool = tool]
  /\ reader' = r
  /\ UNCHANGED <<server, pending>>

\* start_tool_call goes on: the call is entered, and the callback added to its future.
Enter ==
  /\ reader # NoCall
  /\ pending' = [pending EXCEPT ![call[reader].id] = reader]
  /\ reader' = NoCall
  /\ UNCHANGED <<server, call>>

\* cancel(): of whatever is pending under the id.
Cancel(i) ==
  /\ server = "open" /\ reader = NoCall
  /\ pending[i] # NoCall
  /\ call' = [call EXCEPT ![pending[i]].cancelled = TRUE]
  /\ UNCHANGED <<server, reader, pending>>

Pending == {pending[i] : i \in CallId} \ {NoCall}

\* Mutation: the futures are cancelled, which only helps those that have not begun.
EndOfInputByFuture ==
  /\ server = "open" /\ reader = NoCall
  /\ server' = "closing"
  /\ call' = [r \in Call |-> IF r \in Pending /\ call[r].pc = "queued"
                              THEN [call[r] EXCEPT !.cancelled = TRUE] ELSE call[r]]
  /\ UNCHANGED <<reader, pending>>

\* serve(), at the end of stdin: everything that is pending is cancelled.
EndOfInput ==
  /\ server = "open" /\ reader = NoCall
  /\ server' = "closing"
  /\ call' = [r \in Call |-> IF r \in Pending
                              THEN [call[r] EXCEPT !.cancelled = TRUE] ELSE call[r]]
  /\ UNCHANGED <<reader, pending>>

\* Both executors are shut down: what no thread has begun is dropped, and forgotten.
Shutdown ==
  LET dropped == {r \in Call : call[r].pc = "queued"} IN
  /\ server = "closing"
  /\ server' = "closed"
  /\ call' = [r \in Call |-> IF r \in dropped
                THEN [call[r] EXCEPT !.pc = "over", !.answer = "dropped"] ELSE call[r]]
  /\ pending' = [i \in CallId |-> IF pending[i] \in dropped THEN NoCall ELSE pending[i]]
  /\ UNCHANGED reader

-----------------------------------------------------------------------------
(* The threads of the two pools. *)

To(r, pc) == call' = [call EXCEPT ![r].pc = pc]

\* Mutation: one pool for all calls.
OnePool(r) == Call

Pool(r) == {q \in Call : call[q].tool = call[r].tool}
Workers(r) == IF call[r].tool = "await" THEN WaitWorkers ELSE ControlWorkers

\* A free thread of the pool takes the first call of its queue, and asks the broker.
Begin(r) ==
  /\ call[r].pc = "queued"
  /\ \A q \in Pool(r) : call[q].pc = "queued" => r <= q
  /\ Cardinality({q \in Pool(r) : call[q].pc \in Busy}) < Workers(r)
  /\ To(r, "request")
  /\ UNCHANGED <<server, reader, pending>>

\* respond or respond_error, of which there is one for each call.
Answered(r, answer) ==
  /\ call' = [call EXCEPT ![r].pc = "done", ![r].answer = answer]
  /\ UNCHANGED <<server, reader, pending>>

\* The broker answers; an await when its time comes, if ever.
Return(r) == call[r].pc = "request" /\ call[r].tool = "run" /\ Answered(r, "result")
AwaitReturns(r) ==
  call[r].pc = "request" /\ call[r].tool = "await" /\ Answered(r, "result")

\* DaemonClient.request looks at its event between two reads of the connection.
SeeCancelled(r) ==
  /\ call[r].pc = "request" /\ call[r].cancelled
  /\ Answered(r, "cancelled")

\* Mutation: whatever is pending under the id is forgotten.
ForgetUnseen(r) ==
  /\ call[r].pc = "done" /\ reader # r
  /\ pending' = [pending EXCEPT ![call[r].id] = NoCall]
  /\ To(r, "over")
  /\ UNCHANGED <<server, reader>>

\* _forget_pending, once the reader has added the callback: unless the id belongs to
\* another call by now.
Forget(r) ==
  LET i == call[r].id IN
  /\ call[r].pc = "done" /\ reader # r
  /\ pending' = [pending EXCEPT ![i] = IF @ = r THEN NoCall ELSE @]
  /\ To(r, "over")
  /\ UNCHANGED <<server, reader>>

CallStep(r) == Begin(r) \/ Return(r) \/ SeeCancelled(r) \/ Forget(r)

-----------------------------------------------------------------------------
Next ==
  \/ Enter \/ EndOfInput \/ Shutdown
  \/ \E i \in CallId : Cancel(i)
  \/ \E r \in Call : Submit(r) \/ CallStep(r) \/ AwaitReturns(r)

Spec == Init /\ [][Next]_vars

\* The threads are scheduled, and the broker answers what is not an await.  Nothing is
\* assumed of awaits, nor of the harness.
Fairness ==
  /\ WF_vars(Enter) /\ WF_vars(Shutdown)
  /\ \A r \in Call : WF_vars(CallStep(r))

FairSpec == Spec /\ Fairness

-----------------------------------------------------------------------------
(* Properties. *)

\* A cancellation finds its call: with ids that a harness uses again as soon as it has
\* an answer, the table holds every call in flight under its id, and none that is over
\* (start_tool_call, _forget_pending).
PendingTracksCalls ==
  /\ \A r \in Call : InFlight(r) /\ reader # r => pending[call[r].id] = r
  /\ \A r \in Pending : call[r].pc # "over"

\* Other calls never wait for awaits: a call is answered, or dropped by the end of the
\* server, however many awaits occupy their pool for ever (control_executor).
ControlAnswered ==
  \A r \in Call :
    call[r].pc = "queued" /\ call[r].tool = "run" ~> call[r].answer # ""

\* A server whose input ended ends itself: no thread of it stays in an await that
\* nobody will read the answer of, so that its process can exit (serve).
ClosedServerEnds ==
  server = "closed" ~> \A r \in Call : call[r].pc \in {"unsent", "over"}

=============================================================================
