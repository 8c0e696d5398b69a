---------------------------- MODULE RequestStore ----------------------------
(***************************************************************************)
(* What the store keeps of requests that may be retried: the entity that a *)
(* launch created, its jobs, and the idempotency table.  Every operator    *)
(* below that returns a store is one BEGIN IMMEDIATE ... COMMIT.           *)
(*                                                                         *)
(* The clients retry one logical launch; each time it creates an entity,   *)
(* this is a new generation, with new ids.  A stop or a forget names ids,  *)
(* so it is the request of one generation and its key of no other.         *)
(***************************************************************************)
EXTENDS Naturals, FiniteSets

CONSTANT Job    \* the jobs of one launch

ASSUME JobAssumption == IsFiniteSet(Job) /\ Job \cap {"launch", "stop", "forget"} = {}

\* The key of a logical request: the launch, the stop of the group it created, the
\* forgetting of that group or of one of its jobs.
Key == {"launch", "stop", "forget"} \cup Job

Store == [generation : Nat,
          job : [Job -> {"none", "active", "asked", "ended", "forgotten"}],
          remembered : SUBSET Key]

EmptyStore == [generation |-> 0, job |-> [j \in Job |-> "none"], remembered |-> {}]

Exists(s, generation, j) ==
  generation = s.generation /\ s.job[j] \in {"active", "asked", "ended"}

\* lookup_idempotency: does the table hold a result of the request?
Known(s, generation, key) ==
  key \in s.remembered /\ (key = "launch" \/ generation = s.generation)

\* Mutation: the table is looked up before the transaction only.
CreateLaunchBlind(s) ==
  [generation |-> s.generation + 1, job |-> [j \in Job |-> "active"],
   remembered |-> {"launch"}]

\* create_launch: the entity the key names, or a new one and its key.
CreateLaunch(s) ==
  IF "launch" \in s.remembered
    THEN s
    ELSE [generation |-> s.generation + 1, job |-> [j \in Job |-> "active"],
          remembered |-> {"launch"}]

\* remember_idempotency.
Remember(s, generation, key) ==
  IF generation = s.generation
    THEN [s EXCEPT !.remembered = @ \cup {key}]
    ELSE s

\* Mutation: the word of the provider is stored, whatever it is.
UpdateJobRaw(s, j, state) ==
  [s EXCEPT !.job[j] = IF @ \in {"active", "asked"} THEN "stopping" ELSE @]

\* update_job, of a job that has not ended.
UpdateJob(s, j, state) ==
  [s EXCEPT !.job[j] = IF @ \in {"active", "asked"} THEN state ELSE @]

\* The results that mention a job: the entity of its launch, what a stop said of it.
Mentions(j) == {"launch", "stop", j}

\* Mutation: the table is not purged.
ForgetJobOnly(s, j) == [s EXCEPT !.job[j] = "forgotten"]

\* forget_job, of a job that has ended: what the table says of it goes with it.
ForgetJob(s, j) ==
  [s EXCEPT !.job[j] = "forgotten", !.remembered = @ \ Mentions(j)]

\* forget_group, of a group without a running job: what is left of it goes, and all
\* results that mention the group.
ForgetGroup(s) ==
  [s EXCEPT !.job = [j \in Job |-> IF @[j] = "ended" THEN "forgotten" ELSE @[j]],
            !.remembered = @ \ {"launch", "stop", "forget"}]

=============================================================================
