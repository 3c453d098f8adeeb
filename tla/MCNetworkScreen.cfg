CONSTANTS
  InterfaceLists <- SomeLists
  MaxNetworks = 2
  MaxScans = 2
  MaxAttempts = 2
  MaxProfiles = 2
SPECIFICATION FairSpec
INVARIANT IndexInRange
INVARIANT SpinnersAreHonest
INVARIANT CarriedOver
PROPERTY WaitsEnd
CHECK_DEADLOCK FALSE
