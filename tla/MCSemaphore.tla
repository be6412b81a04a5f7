---------------------------- MODULE MCSemaphore ----------------------------
(* Instances of Semaphore for TLC. *)
EXTENDS Semaphore, TLC

CONSTANTS w1, w2, w3, p1, p2

Symmetry == Permutations(Producers) \union Permutations(Waiters \ Timed)
============================================================================
