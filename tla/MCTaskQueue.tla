---------------------------- MODULE MCTaskQueue ----------------------------
(* Instances of TaskQueue for TLC. *)
EXTENDS TaskQueue, TLC

CONSTANTS t1, t2, c1, c2, w1, w2

TwoAndOne == [c \in Clients |-> IF c = c1 THEN 2 ELSE 1]

Symmetry == Permutations(Workers)
============================================================================
