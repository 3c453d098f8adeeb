CONSTANTS
  MaxCuts = 2
  MaxHands = 2
  MaxTouches = 2
SPECIFICATION FairSpec
INVARIANT NothingLost
INVARIANT VerdictShown
PROPERTY RunsOnce
PROPERTY Settles
CHECK_DEADLOCK FALSE
