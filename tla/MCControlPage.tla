---------------------------- MODULE MCControlPage ----------------------------
(* Small instances of ControlPage. *)
EXTENDS ControlPage
=============================================================================
