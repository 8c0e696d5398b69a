\* One job, awaited alone or as a group by a caller that takes in the progress, and a
\* broker thread that changes and forgets it; pages of one event; notifications may be
\* lost, deadlines need never pass.
SPECIFICATION FairSpec
CONSTANTS
  j1 = j1
  t1 = t1
  Jobs = {j1}
  Targets = {j1, "group"}
  Writers = {t1}
  Follows = {TRUE}
  PageLimit = 1
  Faults = TRUE
  MaxEvents = 3
INVARIANTS
  TypeOK
  ProgressLosesNothing
  EndsExplained
  NoLostWakeup
PROPERTIES
  AwaitReturns
\* Once the ledger is full and the broker is closing, nothing has to happen.
CHECK_DEADLOCK FALSE
