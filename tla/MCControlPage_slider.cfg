SPECIFICATION FairSpec
CONSTANTS
  None = None
  Sent = Sent
  Failed = Failed
  Volumes = {0, 1}
  MaxRev = 2
  MaxSets = 2
  MaxStops = 1
  MaxRefreshes = 1
  MaxFaults = 1
INVARIANT ShownIsServer
INVARIANT LastGestureWins
PROPERTY Settles
CHECK_DEADLOCK FALSE
