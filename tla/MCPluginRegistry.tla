--------------------------- MODULE MCPluginRegistry ---------------------------
(* PluginRegistry with a sidecar adapter and a built-in sink.                 *)
EXTENDS PluginRegistry, TLC

Symm == Permutations(Threads \ {Watcher})
=============================================================================
