------------------------ MODULE MCProjectUpdateBatch ------------------------
(* ProjectUpdateBatch for TLC: handlers and rows are interchangeable.       *)
EXTENDS ProjectUpdateBatch, TLC

Symmetry == Permutations(Handlers) \cup Permutations(Items)
=============================================================================
