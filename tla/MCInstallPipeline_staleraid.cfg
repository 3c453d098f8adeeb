CONSTANTS
  d1 = d1
  d2 = d2
  Disk = {d1, d2}
  Scenario <- StaleRaid
  MaxRuns = 1
SPECIFICATION Spec
INVARIANT OnlyChosenDisksErased
CHECK_DEADLOCK FALSE
