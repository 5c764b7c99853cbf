-------------------------- MODULE MCProjectCreate --------------------------
(* ProjectCreate for TLC: handlers and people are interchangeable.          *)
EXTENDS ProjectCreate, TLC

Symmetry == Permutations(Handlers) \cup Permutations(People)
============================================================================
