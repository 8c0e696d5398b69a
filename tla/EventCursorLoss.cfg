\* The smallest instance: a launch of one job makes two events, in pages of one, for
\* a caller that does not follow.
SPECIFICATION Spec
CONSTANTS
  j1 = j1
  t1 = t1
  Jobs = {j1}
  Targets = {j1, "group"}
  Writers = {t1}
  Follows = {FALSE}
  PageLimit = 1
  Faults = FALSE
  MaxEvents = 2
INVARIANT
  ResumesWithoutLoss
CHECK_DEADLOCK FALSE
