SPECIFICATION FairSpec
CONSTANTS
  MaxDeaths = 6
  None = None
INVARIANTS Supervised PortNotLost
PROPERTY SettlesDown
CHECK_DEADLOCK FALSE
