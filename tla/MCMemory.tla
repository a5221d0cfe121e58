------------------------------ MODULE MCMemory ------------------------------
(* Instance of Memory for TLC. *)
EXTENDS Memory, TLC

CONSTANTS w1, w2, w3

Symmetry == Permutations(Writer)
=============================================================================
