CONSTANTS
  d1 = d1
  d2 = d2
  Disk = {d1, d2}
  Scenario <- SwapOnLegacy
  MaxRuns = 1
SPECIFICATION Spec
INVARIANT SwapInFstab
CHECK_DEADLOCK FALSE
