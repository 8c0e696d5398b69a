\* Three calls under three ids, any of which may be used again, pools of one thread.
SPECIFICATION FairSpec
CONSTANTS
  Calls = 3
  CallId = {i1, i2, i3}
  ControlWorkers = 1
  WaitWorkers = 1
INVARIANTS
  PendingTracksCalls
PROPERTIES
  ControlAnswered
  ClosedServerEnds
CHECK_DEADLOCK FALSE
