------------------------- MODULE MCPluginLifecycle -------------------------
(* PluginLifecycle on a small instance. *)
EXTENDS PluginLifecycle
=============================================================================
