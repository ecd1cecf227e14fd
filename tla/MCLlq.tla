------------------------------- MODULE MCLlq -------------------------------
(* Three threads, two messages and a heap of three nodes: lists of zero to *)
(* three elements with up to three threads in queue.c at once.             *)
EXTENDS Llq, TLC

Symmetry == Permutations(Thread) \cup Permutations(Message) \cup Permutations(Node)
=============================================================================
