SPECIFICATION Spec
CONSTANTS
  Jobs = {j1, j2}
  g = g
  GroupOf <- MCGroupOf
  Callers = {}
  NoJob = NoJob
  FailureLimit = 2
  RunnersDie = FALSE
  Faults = FALSE
  MaxCrashes = 0
  MaxCalls = 1
INVARIANTS
  StoppedBeforeLaunch
CHECK_DEADLOCK FALSE
