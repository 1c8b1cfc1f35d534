SPECIFICATION FairSpec
CONSTANTS
  Servers = {s1, s2}
  MaxScans = 2
  MaxStops = 1
  MaxFaults = 1
  MaxFound = 2
INVARIANT QueueIsServed
INVARIANT OneResolve
PROPERTY ScanEnds
CHECK_DEADLOCK FALSE
