\* One session after another at a pid, two launches, one run of `om orphans`.
SPECIFICATION Spec
CONSTANTS
  Starts = 2
  MaxSweeps = 1
  Launch = {l1, l2}
INVARIANTS
  TypeOK
  NoStrangerClaimed
  OwnersAreLive
PROPERTIES
  StopsOrphans
CHECK_DEADLOCK FALSE
