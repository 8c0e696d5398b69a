\* Two clients, three calls, a launch of two jobs, two daemons of which one may be killed.
SPECIFICATION Spec
CONSTANTS
  c1 = c1
  c2 = c2
  j1 = j1
  j2 = j2
  Job = {j1, j2}
  Client = {c1, c2}
  Daemons = 2
  MaxCalls = 3
  MaxFaults = 1
SYMMETRY Symmetry
INVARIANTS
  TypeOK
  ServerIsFound
  StartsDoNotCollide
  ReplayResolves
  AnswersTrue
  RestartIsFresh
PROPERTIES
  RelaunchNeedsForget
\* Once all calls are over, nothing has to happen.
CHECK_DEADLOCK FALSE
