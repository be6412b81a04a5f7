----------------------------- MODULE MCCondVar -----------------------------
(* Instances of CondVar for TLC. *)
EXTENDS CondVar, TLC

CONSTANTS c1, c2, p1, p2, p3

Symmetry == Permutations(Producers) \union Permutations(Consumers \ Timed)
============================================================================
