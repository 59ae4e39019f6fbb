-------------------------- MODULE MCPluginSession --------------------------
(* Instance of PluginSession for TLC: the bounds are in the configurations. *)
EXTENDS PluginSession
=============================================================================
