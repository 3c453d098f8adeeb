CONSTANTS
  d1 = d1
  d2 = d2
  Disk = {d1, d2}
  Scenario <- GrubScenarios
  MaxRuns = 1
SPECIFICATION Spec
INVARIANT InitramfsAlwaysCurrent
CHECK_DEADLOCK FALSE
