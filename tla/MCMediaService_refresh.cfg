SPECIFICATION FairSpec
CONSTANTS
  refresh = refresh
  play = play
  volume = volume
  Calls = {refresh, volume}
  KindOf <- MCKindOf
  MaxMedia = 2
  MaxAudio = 1
  MaxReadFaults = 1
  MaxInitFaults = 1
  MaxStops = 1
CHECK_DEADLOCK FALSE
INVARIANT NoOldCover
INVARIANT NoLostChange
INVARIANT OneAdapter
INVARIANT NoLostWaiter
PROPERTY StopEnds
