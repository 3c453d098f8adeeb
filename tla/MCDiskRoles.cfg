CONSTANTS
  NRoles = 3
  NDisks = 3
  DefaultRole = 2
  Input <- Calls
SPECIFICATION Spec
INVARIANT RolesDisjoint
INVARIANT ResultAllowed
INVARIANT ResultUnique
CHECK_DEADLOCK FALSE
