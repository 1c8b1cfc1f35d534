----------------------------- MODULE MCDiscovery -----------------------------
(* Small instances of Discovery. *)
EXTENDS Discovery, TLC

Symmetry == Permutations(Servers)
=============================================================================
