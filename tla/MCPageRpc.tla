----------------------------- MODULE MCPageRpc -----------------------------
(* PageRpc for TLC: clients and calls are interchangeable.                 *)
EXTENDS PageRpc, TLC

Symmetry == Permutations(Clients) \cup Permutations(Calls)
=============================================================================
