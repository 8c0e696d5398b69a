\* One client, one daemon, no fault: a launch, the forgetting of one job, the launch again.
SPECIFICATION Spec
CONSTANTS
  c1 = c1
  c2 = c2
  j1 = j1
  j2 = j2
  Job = {j1, j2}
  Client = {c1}
  Daemons = 1
  MaxCalls = 3
  MaxFaults = 0
PROPERTY
  RetryReturnsOriginal
CHECK_DEADLOCK FALSE
