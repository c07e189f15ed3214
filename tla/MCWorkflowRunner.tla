-------------------------- MODULE MCWorkflowRunner --------------------------
(* Instances of WorkflowRunner for TLC. *)
EXTENDS WorkflowRunner

CONSTANTS w1, w2

\* every other task depends on the one before it
PairDeps == [t \in Tasks |-> IF t % 2 = 0 THEN {t - 1} ELSE {}]

NoDeps == [t \in Tasks |-> {}]
=============================================================================
