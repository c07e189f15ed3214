--------------------------- MODULE MCTaskService ---------------------------
(* Instances of TaskService for TLC. *)
EXTENDS TaskService, TLC

CONSTANTS t1, t2, w1, w2, e1, s1, s2, s3

\* t2 is an implementation task that depends on t1
ChainDeps == (t1 :> {}) @@ (t2 :> {t1})
NoDeps == [t \in Tasks |-> {}]

WorkerSymmetry == Permutations(Workers)
SlotSymmetry == Permutations(Requests)
Symmetry == WorkerSymmetry \cup SlotSymmetry
=============================================================================
