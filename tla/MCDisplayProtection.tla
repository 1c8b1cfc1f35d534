------------------------ MODULE MCDisplayProtection ------------------------
(* Instances of DisplayProtection for TLC. *)
EXTENDS DisplayProtection, TLC

Symmetry == Permutations(Timers)
=============================================================================
