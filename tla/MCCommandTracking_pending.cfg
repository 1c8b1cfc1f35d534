SPECIFICATION PressingSpec
CONSTANTS
  Jobs = {j1, j2}
  NoJob = NoJob
  Results = {"succeeded", "failed"}
  Commands = {enter}
  MaxPages = 3
  MaxPolls = 2
  MaxFaults = 1
  MaxBacks = 1
  MaxStops = 1
  MaxDeaths = 1
  MaxOthers = 1
INVARIANT AllFollowed
PROPERTY KeptUntilOver
PROPERTY NeverBlocked
CHECK_DEADLOCK FALSE
