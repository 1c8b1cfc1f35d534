-------------------------- MODULE MCCommandTracking --------------------------
(* Small instances of CommandTracking. *)
EXTENDS CommandTracking, TLC

Symmetry == Permutations(Jobs) \cup Permutations(Commands)
=============================================================================
