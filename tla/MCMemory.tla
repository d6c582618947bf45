------------------------------ MODULE MCMemory ------------------------------
(* A threshold of two cycles, a log of three rows, one milestone per       *)
(* request: pruning, several chunks and several summaries all happen.      *)
EXTENDS CognitiveMemory, TLC

Symmetry == Permutations(Pages)
=============================================================================
