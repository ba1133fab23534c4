------------------------------- MODULE MCRPC -------------------------------
(* RPC with interchangeable calls and connections. *)
EXTENDS RPC, TLC

Symmetry == Permutations(Calls) \cup Permutations(Conns)
=============================================================================
