CONSTANTS
  NDisks = 4
  NRoles = 2
  MaxParts = 3
  MountPoint <- Points
  Above <- AbovePairs
  Input <- Hopeless
SPECIFICATION Spec
INVARIANT AcceptedApplies
CHECK_DEADLOCK FALSE
