-------------------------- MODULE MCWorkerManager --------------------------
(* Instances of WorkerManager for TLC. *)
EXTENDS WorkerManager, TLC

CONSTANTS c1, c2, c3, s1, s2

ChildSymmetry == Permutations(Children)
SlotSymmetry == Permutations(Requests)
Symmetry == ChildSymmetry \cup SlotSymmetry
=============================================================================
