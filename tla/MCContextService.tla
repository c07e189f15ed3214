------------------------- MODULE MCContextService -------------------------
(* Instances of ContextService for TLC. *)
EXTENDS ContextService, TLC

CONSTANTS f1, m1, k1, k2

Symmetry == Permutations(Calls)
=============================================================================
