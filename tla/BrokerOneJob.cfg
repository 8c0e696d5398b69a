\* One job; two calls of show --fresh, stop or forget; one crash of the daemon; the
\* worker may die.
SPECIFICATION FairSpec
CONSTANTS
  Jobs = {j1}
  g = g
  GroupOf <- MCGroupOf
  Callers = {c1}
  NoJob = NoJob
  FailureLimit = 2
  RunnersDie = TRUE
  Faults = FALSE
  MaxCrashes = 1
  MaxCalls = 2
INVARIANTS
  TypeOK
  OnlyStartedJobsRun
  LedgerAgrees
  NoJobUnwatched
  EvidenceFollows
PROPERTIES
  LifecycleSpec
  EveryJobEnds
CHECK_DEADLOCK FALSE
