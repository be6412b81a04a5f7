------------------------------- MODULE Futex -------------------------------
(***************************************************************************)
(* The futex that every blocking primitive of cx/thread is built on        *)
(* (cx/thread/futex.h, cx/platform/unix/linux_futex.c): a 32-bit value     *)
(* and the set of threads asleep in the kernel on it.                      *)
(*                                                                         *)
(* futexWait loads the value and returns FUTEX_Retry early if it differs,  *)
(* and the system call compares it again.  Both comparisons have the same  *)
(* outcome, so one atomic compare-and-sleep step stands for the pair.      *)
(* Which sleepers a wake-up reaches is left open.                          *)
(***************************************************************************)
EXTENDS Naturals, FiniteSets

VARIABLES
  val,      \* Futex.val
  waitq     \* threads asleep in futexWait

(* futexWait finds the value it was given and the caller goes to sleep.    *)
FutexWait(t, oldval) == val = oldval /\ waitq' = waitq \union {t}

(* futexWait returns FUTEX_Retry at once: the value is another one.        *)
FutexRetry(oldval) == val # oldval /\ waitq' = waitq

(* A sleep that ends with no wake-up: FUTEX_Timeout, or FUTEX_Error when a *)
(* signal interrupts the system call.                                      *)
FutexEnd(t) == t \in waitq /\ waitq' = waitq \ {t}

(* futexWake: one sleeper, if there is one.                                *)
FutexWake ==
  \/ waitq = {} /\ waitq' = waitq
  \/ \E w \in waitq : waitq' = waitq \ {w}

(* futexWakeMany: up to count sleepers.                                    *)
FutexWakeMany(count) ==
  \E W \in SUBSET waitq :
    /\ Cardinality(W) <= count
    /\ W = waitq \/ Cardinality(W) = count
    /\ waitq' = waitq \ W

(* futexWakeAll: every sleeper.                                            *)
FutexWakeAll == waitq' = {}
============================================================================
