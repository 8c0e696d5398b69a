\* Two jobs of one group, one crash and its recovery loop, with calls to the
\* store and the provider that may raise.
SPECIFICATION Spec
CONSTANTS
  Jobs = {j1, j2}
  g = g
  GroupOf <- MCGroupOf
  Callers = {}
  NoJob = NoJob
  FailureLimit = 1
  RunnersDie = FALSE
  Faults = TRUE
  MaxCrashes = 1
  MaxCalls = 0
SYMMETRY JobSymmetry
INVARIANTS
  NoDuplicateLaunch
  HonestOutcome
CHECK_DEADLOCK FALSE
