SPECIFICATION Spec
CONSTANTS
  Jobs = {j1}
  g = g
  GroupOf <- MCGroupOf
  Callers = {}
  NoJob = NoJob
  FailureLimit = 2
  RunnersDie = FALSE
  Faults = FALSE
  MaxCrashes = 0
  MaxCalls = 0
PROPERTIES
  ReportedOutcomeRecorded
CHECK_DEADLOCK FALSE
