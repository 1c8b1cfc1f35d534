-------------------------- MODULE MCMediaConnection --------------------------
(* MediaConnection on small instances: the second state has a cover, the    *)
(* third another one, the others have none.                                 *)
EXTENDS MediaConnection

CONSTANTS c1, c2
MCCoverOf == [n \in StateRevisions |-> CASE n = 1 -> c1 [] n = 3 -> c2 [] OTHER -> NoCover]
=============================================================================
