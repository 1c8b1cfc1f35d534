SPECIFICATION FairSpec
CONSTANTS
  Owners = {o1, o2}
  Commands = {enter, exit}
  NoRec = NoRec
  NInst = 1
  MaxCrashes = 1
  MaxSaveFaults = 0
  MaxReadFaults = 0
  MaxTasks = 3
CHECK_DEADLOCK FALSE
 
PROPERTY AcceptedEnds
 
