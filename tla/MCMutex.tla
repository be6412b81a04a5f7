------------------------------ MODULE MCMutex ------------------------------
(* Instances of Mutex for TLC. *)
EXTENDS Mutex

CONSTANTS t1, t2, t3
============================================================================
