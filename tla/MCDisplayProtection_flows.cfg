SPECIFICATION Spec
CONSTANTS
  Timers = {t1, t2}
  NoTimer = NoTimer
  MaxArms = 2
  MaxFails = 1
  MaxTimeouts = 1
  MaxNotes = 2
  Overlap = FALSE
SYMMETRY Symmetry
CHECK_DEADLOCK FALSE
INVARIANT CountdownIsCancellable
 
INVARIANT CloseReleases
INVARIANT NoOrphan
INVARIANT NoDeadlock
