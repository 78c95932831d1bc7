-------------------------- MODULE MCPluginCallbacks --------------------------
(* PluginCallbacks for TLC: the resources are model values of the cfg. *)
EXTENDS PluginCallbacks

=============================================================================
