-------------------------- MODULE AbstractRWLock ---------------------------
(***************************************************************************)
(* What a reader/writer lock promises its callers (cx/thread/rwlock.h):    *)
(* "multiple threads to hold read locks simultaneously, but only one       *)
(* thread can hold a write lock at a time (with no concurrent readers)".   *)
(***************************************************************************)
CONSTANTS Threads

VARIABLES
  reading,   \* threads that hold the lock for reading
  writing    \* threads that hold it for writing

Init == reading = {} /\ writing = {}

AcquireRead(t) ==
  /\ writing = {} /\ t \notin reading
  /\ reading' = reading \union {t}
  /\ UNCHANGED writing

AcquireWrite(t) ==
  /\ writing = {} /\ reading = {}
  /\ writing' = {t}
  /\ UNCHANGED reading

ReleaseRead(t) ==
  /\ t \in reading
  /\ reading' = reading \ {t}
  /\ UNCHANGED writing

ReleaseWrite(t) ==
  /\ t \in writing
  /\ writing' = writing \ {t}
  /\ UNCHANGED reading

(* The writer becomes a reader with no moment in between.                  *)
Downgrade(t) ==
  /\ t \in writing
  /\ writing' = writing \ {t}
  /\ reading' = reading \union {t}

Next ==
  \E t \in Threads :
    \/ AcquireRead(t) \/ AcquireWrite(t)
    \/ ReleaseRead(t) \/ ReleaseWrite(t) \/ Downgrade(t)

Spec == Init /\ [][Next]_<<reading, writing>>
============================================================================
