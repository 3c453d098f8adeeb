CONSTANTS
  NDisks = 4
  NRoles = 2
  MaxParts = 3
  MountPoint <- Points
  Above <- AbovePairs
  Input <- Calls
SPECIFICATION Spec
INVARIANT LayoutSeen
INVARIANT EveryCopyWritten
INVARIANT MapMatchesMounts
INVARIANT ApplicableApplies
CHECK_DEADLOCK FALSE
