SPECIFICATION Spec
CONSTANTS
  Names = {media, oled_saver, esports_mode}
  Builtin = {media}
  NoFile = NoFile
  Torn = Torn
  MaxSets = 2
  MaxStarts = 2
  MaxFaults = 0
  MaxBroken = 0
INVARIANT FlagsKept
CHECK_DEADLOCK FALSE
