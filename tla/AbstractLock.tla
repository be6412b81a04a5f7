--------------------------- MODULE AbstractLock ----------------------------
(***************************************************************************)
(* What a lock promises its callers: it is free or belongs to one thread,  *)
(* and only a free lock is acquired.  cx/thread/mutex.h documents it as    *)
(* "exclusive access to shared resources".                                 *)
(***************************************************************************)
CONSTANTS Threads, NoThread

VARIABLE owner

Init == owner = NoThread

Acquire(t) == owner = NoThread /\ owner' = t

Release(t) == owner = t /\ owner' = NoThread

Next == \E t \in Threads : Acquire(t) \/ Release(t)

Spec == Init /\ [][Next]_owner
============================================================================
