---------------------------- MODULE JobLifecycle ----------------------------
(***************************************************************************)
(* What the broker promises of each job: it is queued once, it may be      *)
(* seen starting and running in either order (two observers of the same    *)
(* state file may commit out of order), it ends in exactly one terminal    *)
(* state, and only an ended job is ever forgotten, for good.               *)
(***************************************************************************)
CONSTANT Jobs

VARIABLE state    \* the lifecycle state of each job

Ended == {"succeeded", "failed", "interrupted", "unknown"}
Observed == {"starting", "running"}

Init == state = [j \in Jobs |-> "none"]

\* A whole launch becomes visible at once.
Queue(S) ==
  /\ \A j \in S : state[j] = "none"
  /\ state' = [j \in Jobs |-> IF j \in S THEN "queued" ELSE state[j]]

Start(j) ==
  /\ state[j] = "queued"
  /\ state' = [state EXCEPT ![j] = "starting"]

Observe(j) ==
  /\ state[j] \in Observed
  /\ \E s \in Observed : state' = [state EXCEPT ![j] = s]

\* A job that was never started can only be stopped or given up on.
Abandon(j) ==
  /\ state[j] = "queued"
  /\ \E s \in {"interrupted", "unknown"} : state' = [state EXCEPT ![j] = s]

End(j) ==
  /\ state[j] \in Observed
  /\ \E s \in Ended : state' = [state EXCEPT ![j] = s]

Forget(S) ==
  /\ \A j \in S : state[j] \in Ended
  /\ state' = [j \in Jobs |-> IF j \in S THEN "forgotten" ELSE state[j]]

Next ==
  \/ \E S \in SUBSET Jobs : Queue(S)
  \/ \E S \in SUBSET Jobs : Forget(S)
  \/ \E j \in Jobs : Start(j) \/ Observe(j) \/ Abandon(j) \/ End(j)

Spec == Init /\ [][Next]_state

=============================================================================
