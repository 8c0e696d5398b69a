---------------------------- MODULE OvermindStore ----------------------------
(***************************************************************************)
(* The durable state of overmind_v2/store.py: the jobs table, the event    *)
(* ledger and the usage table, and the transactions that change them.      *)
(* Every operator below that constrains primed variables is one            *)
(* BEGIN IMMEDIATE ... COMMIT of SQLite, so it is one step; everything a   *)
(* caller does between two of them can be interleaved.                     *)
(***************************************************************************)
EXTENDS OvermindJobs, Naturals, Sequences

VARIABLES
  row,     \* the jobs table
  events,  \* lifecycle events of each job, in cursor order (state column)
  usage    \* does the usage table hold the worker's usage evidence

storeVars == <<row, events, usage>>

TerminalStates == {"succeeded", "failed", "interrupted", "unknown"}
States == {"queued", "starting", "running"} \cup TerminalStates

\* Groups of columns the provider fills in together.  "state_path" and
\* "runner" come with a launch, "runner" and "result" with the state file.
Columns == {"state_path", "runner", "result"}

\* Who wrote the error column: nobody, the worker itself, or one of the
\* verdicts the broker forms on its own.
Errors == {"none", "worker", "stopped", "launch", "unobservable",
           "unsignalled", "lost", "recovery"}

Row == [state : States \cup {"none", "forgotten"},
        cols : SUBSET Columns,
        error : Errors]

NoRow == [state |-> "none", cols |-> {}, error |-> "none"]
QueuedRow == [state |-> "queued", cols |-> {}, error |-> "none"]
ForgottenRow == [state |-> "forgotten", cols |-> {}, error |-> "none"]

StoreTypeOK ==
  /\ row \in [Jobs -> Row]
  /\ events \in [Jobs -> Seq(States)]
  /\ usage \in [Jobs -> BOOLEAN]

StoreInit ==
  /\ row = [j \in Jobs |-> NoRow]
  /\ events = [j \in Jobs |-> <<>>]
  /\ usage = [j \in Jobs |-> FALSE]

Exists(j) == row[j].state \in States
IsTerminal(j) == row[j].state \in TerminalStates

\* nonterminal_jobs()
NonterminalJobs == {j \in Jobs : Exists(j) /\ ~IsTerminal(j)}

-----------------------------------------------------------------------------
\* create_launch: all the jobs of a launch appear at once, queued.
CreateLaunch(S) ==
  /\ \A j \in S : row[j] = NoRow
  /\ row' = [j \in Jobs |-> IF j \in S THEN QueuedRow ELSE row[j]]
  /\ events' = [j \in Jobs |-> IF j \in S THEN <<"queued">> ELSE events[j]]
  /\ UNCHANGED usage

\* Mutation: update_job has no terminal guard.
NeverDropped(j, state) == FALSE

\* The terminal guard of update_job: the transaction commits nothing.
Dropped(j, state) == IsTerminal(j) /\ state # row[j].state

UpdatedRow(old, state, cols, error) ==
  [state |-> state,
   cols |-> old.cols \cup cols,
   error |-> IF error = "none" THEN old.error ELSE error]

\* update_job with a state.
UpdateJob(j, state, cols, error) ==
  /\ Exists(j)
  /\ IF Dropped(j, state)
       THEN UNCHANGED <<row, events>>
       ELSE /\ row' = [row EXCEPT ![j] = UpdatedRow(@, state, cols, error)]
            /\ events' = [events EXCEPT ![j] = Append(@, state)]
  /\ UNCHANGED usage

\* add_artifact and add_usage: evidence of what the worker reported.
AddUsage(j) ==
  /\ Exists(j)
  /\ usage' = [usage EXCEPT ![j] = TRUE]
  /\ UNCHANGED <<row, events>>

\* Mutation: a record can be forgotten before it has ended.
ForgetJobsAtAnyTime(S) ==
  /\ \A j \in S : Exists(j)
  /\ row' = [j \in Jobs |-> IF j \in S THEN ForgottenRow ELSE row[j]]
  /\ events' = [j \in Jobs |-> IF j \in S THEN <<>> ELSE events[j]]
  /\ usage' = [j \in Jobs |-> IF j \in S THEN FALSE ELSE usage[j]]

\* forget_job / forget_group: the records, their events and (by ON DELETE
\* CASCADE) their usage go; a terminal record only.
ForgetJobs(S) ==
  /\ \A j \in S : IsTerminal(j)
  /\ row' = [j \in Jobs |-> IF j \in S THEN ForgottenRow ELSE row[j]]
  /\ events' = [j \in Jobs |-> IF j \in S THEN <<>> ELSE events[j]]
  /\ usage' = [j \in Jobs |-> IF j \in S THEN FALSE ELSE usage[j]]

=============================================================================
