------------------------------- MODULE MCRpc -------------------------------
(* Rpc on small instances: the .cfg files choose threads and bounds.       *)
EXTENDS Rpc, TLC

Users == App \cup {Rx}

Symmetry == Permutations(App) \cup Permutations(Sub)
SubSymmetry == Permutations(Sub)
=============================================================================
