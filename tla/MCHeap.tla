------------------------------- MODULE MCHeap -------------------------------
(* A small heap for TLC; the stacks are alike.                              *)
EXTENDS Heap, TLC

Symmetry == Permutations(Stack)
=============================================================================
