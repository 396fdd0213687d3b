-------------------------- MODULE MCPluginSession --------------------------
(***************************************************************************)
(* PluginSession for TLC.                                                  *)
(***************************************************************************)
EXTENDS PluginSession, TLC
=============================================================================
