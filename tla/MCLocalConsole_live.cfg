SPECIFICATION ConsoleFairSpec
CONSTANTS
  Domains = {"pairings", "devices"}
  MaxChanges = 2
  MaxEvents = 1
  MaxOvertakes = 0
CHECK_DEADLOCK FALSE
INVARIANT NothingMissed
 
