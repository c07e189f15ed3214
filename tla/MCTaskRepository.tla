-------------------------- MODULE MCTaskRepository --------------------------
(* Instances of TaskRepository for TLC. *)
EXTENDS TaskRepository, TLC

CONSTANTS t1, t2, t3, b1, b2, k1, k2

Symmetry == Permutations(Tasks) \cup Permutations(Branches)
              \cup Permutations(Calls)
=============================================================================
