-------------------------- MODULE MCPluginReferences --------------------------
(* PluginReferences for TLC: the handles are model values of the cfg. *)
EXTENDS PluginReferences

=============================================================================
