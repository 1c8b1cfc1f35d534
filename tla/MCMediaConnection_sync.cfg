SPECIFICATION ConnectionFairSpec
CONSTANTS
  c1 = c1
  c2 = c2
  Covers = {c1, c2}
  NoCover = NoCover
  CoverOf <- MCCoverOf
  MaxStates = 2
  MaxEpochs = 2
  MaxStarts = 1
  MaxFaults = 1
  MaxWaiting = 1
CHECK_DEADLOCK FALSE
INVARIANT ShowsNewest
INVARIANT CoverIsOfTrack
PROPERTY ShownGrows
PROPERTY Converges
