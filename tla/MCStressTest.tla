---------------------------- MODULE MCStressTest ----------------------------
(* StressTest with test nodes that can be exchanged. *)
EXTENDS StressTest, TLC

Symmetry == Permutations(Node)
=============================================================================
