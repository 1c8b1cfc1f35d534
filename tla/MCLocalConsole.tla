---------------------------- MODULE MCLocalConsole ----------------------------
(* Small instances of LocalConsole. *)
EXTENDS LocalConsole
=============================================================================
