-------------------------- MODULE MCPluginInstance --------------------------
(* PluginInstance with interchangeable instances.                          *)
EXTENDS PluginInstance, TLC

Symmetry == Permutations(Instance)
=============================================================================
