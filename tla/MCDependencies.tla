--------------------------- MODULE MCDependencies ---------------------------
(* Requests that add dependencies at the same time. *)
EXTENDS Dependencies, TLC

Symmetry == Permutations(Adder)
=============================================================================
