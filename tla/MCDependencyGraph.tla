------------------------- MODULE MCDependencyGraph -------------------------
(* Instances of DependencyGraph for TLC. *)
EXTENDS DependencyGraph, TLC

Symmetry == Permutations(Ids)
=============================================================================
