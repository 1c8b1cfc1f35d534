SPECIFICATION Spec
CONSTANTS
  Owners = {o1, o2}
  Commands = {enter, exit}
  NoRec = NoRec
  NInst = 1
  MaxCrashes = 2
  MaxSaveFaults = 2
  MaxReadFaults = 1
  MaxTasks = 2
SYMMETRY Symmetry
CHECK_DEADLOCK FALSE
INVARIANT TypeOK
INVARIANT OneLivePerCommand
 
 
