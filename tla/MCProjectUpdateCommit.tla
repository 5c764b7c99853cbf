----------------------- MODULE MCProjectUpdateCommit -----------------------
(* ProjectUpdateCommit for TLC: names, shapes and works are interchangeable. *)
EXTENDS ProjectUpdateCommit, TLC

Symmetry == Permutations(Names) \cup Permutations(Shapes) \cup Permutations(Work)
=============================================================================
