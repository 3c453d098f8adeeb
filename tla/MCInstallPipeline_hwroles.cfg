CONSTANTS
  d1 = d1
  d2 = d2
  Disk = {d1, d2}
  Scenario <- HardwareRolesOnly
  MaxRuns = 1
SPECIFICATION Spec
INVARIANT RolesHavePlaybooks
CHECK_DEADLOCK FALSE
