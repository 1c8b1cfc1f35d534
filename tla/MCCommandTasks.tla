--------------------------- MODULE MCCommandTasks ---------------------------
(* CommandTasks on small instances.  Devices are interchangeable; commands *)
(* are too, as the model never tells them apart except by equality.        *)
EXTENDS CommandTasks, TLC

Symmetry == Permutations(Owners) \cup Permutations(Commands)
=============================================================================
