CONSTANTS
  d1 = d1
  d2 = d2
  Disk = {d1, d2}
  Scenario <- GrubMirror
  MaxRuns = 1
SPECIFICATION Spec
INVARIANT EveryCopyBoots
CHECK_DEADLOCK FALSE
