--------------------------- MODULE MCPhonePairing ---------------------------
(* Instances of PhonePairing for TLC. *)
EXTENDS PhonePairing, TLC

Symmetry == Permutations(Pairings) \cup Permutations(Keys) \cup Permutations(Flows)
==============================================================================
