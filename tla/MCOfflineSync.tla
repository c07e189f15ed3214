--------------------------- MODULE MCOfflineSync ---------------------------
(* Instances of OfflineSync for TLC. *)
EXTENDS OfflineSync, TLC

CONSTANTS h1, h2, n1, s1

\* n1 is created without a connection, s1 is a task the server has.
Creating == [type |-> "create", task |-> n1, n |-> 1]
Updating == [type |-> "update", task |-> n1, n |-> 1]
Deleting == [type |-> "delete", task |-> s1, n |-> 1]

ThreeChanges == {Creating, Updating, Deleting}

Symmetry == Permutations(Hooks)
=============================================================================
