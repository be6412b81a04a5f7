------------------------------ MODULE MCEvent ------------------------------
(* Instances of Event for TLC. *)
EXTENDS Event, TLC

CONSTANTS w1, w2, s1, s2

WaitTwice == [t \in Threads |-> IF t = w2 THEN 2 ELSE 1]
============================================================================
