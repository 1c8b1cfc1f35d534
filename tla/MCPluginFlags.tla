---------------------------- MODULE MCPluginFlags ----------------------------
(* Small instances of PluginFlags. *)
EXTENDS PluginFlags
=============================================================================
