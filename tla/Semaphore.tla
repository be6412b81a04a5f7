----------------------------- MODULE Semaphore -----------------------------
(***************************************************************************)
(* The counting semaphore of cx/thread/sema.[ch]: the futex value is the   *)
(* count; a decrement takes one with a compare-exchange or sleeps while it *)
(* is 0, an increment adds and wakes as many sleepers.                     *)
(*                                                                         *)
(* The loop of semaTryDecTimeout is kept step by step, because a failed    *)
(* compare-exchange is also where a call can run out of time.              *)
(***************************************************************************)
EXTENDS Naturals, FiniteSets

CONSTANTS
  Waiters,     \* threads that decrement
  Producers,   \* threads that increment
  Timed,       \* waiters that use a finite timeout
  Counts,      \* the counts semaInc is called with
  Initial,     \* the initial count
  MaxCalls     \* bound on the calls each thread makes

Threads == Waiters \union Producers

ASSUME SemaphoreAssumption ==
  /\ Timed \subseteq Waiters
  /\ Counts \subseteq Nat \ {0}
  /\ Initial \in Nat
  /\ MaxCalls \in Nat
  /\ IsFiniteSet(Waiters) /\ IsFiniteSet(Producers)

VARIABLES
  val, waitq,   \* sema->ftx
  pc,           \* where each thread is
  lval,         \* the local val of semaTryDecTimeout
  count,        \* the argument of semaInc
  taken,        \* decrements that have succeeded
  added,        \* the sum of all increments
  calls,        \* calls made so far
  swallowed     \* whether a call has given up next to a count (history, read by
                \* properties only)

vars == <<val, waitq, pc, lval, count, taken, added, calls, swallowed>>

Ftx == INSTANCE Futex

Labels == {"idle", "cas", "check", "sleep", "asleep", "wake"}

TypeOK ==
  /\ val \in Nat /\ waitq \subseteq Waiters
  /\ pc \in [Threads -> Labels]
  /\ lval \in [Threads -> Nat]
  /\ count \in [Threads -> Nat]
  /\ taken \in Nat /\ added \in Nat
  /\ calls \in [Threads -> 0..MaxCalls]
  /\ swallowed \in BOOLEAN

(* _semaInit *)
Init ==
  /\ val = Initial /\ waitq = {}
  /\ pc = [t \in Threads |-> "idle"]
  /\ lval = [t \in Threads |-> 0]
  /\ count = [t \in Threads |-> 0]
  /\ taken = 0 /\ added = 0
  /\ calls = [t \in Threads |-> 0]
  /\ swallowed = FALSE

----------------------------------------------------------------------------

Goto(t, from, to) == pc[t] = from /\ pc' = [pc EXCEPT ![t] = to]

StartCall(t) == calls[t] < MaxCalls /\ calls' = [calls EXCEPT ![t] = @ + 1]

(* Mutant: an exchange is tried on any value.                              *)
LoadUnchecked(t, from) ==
  /\ lval' = [lval EXCEPT ![t] = val]
  /\ Goto(t, from, "cas")

(* A load of the value: an exchange is worth trying if it is not 0.        *)
Load(t, from) ==
  /\ lval' = [lval EXCEPT ![t] = val]
  /\ Goto(t, from, IF val > 0 THEN "cas" ELSE "check")

(* semaTryDecTimeout is called.                                            *)
Dec(t) ==
  /\ StartCall(t)
  /\ Load(t, "idle")
  /\ UNCHANGED <<val, waitq, count, taken, added, swallowed>>

(* Mutant: the exchange compares nothing.                                  *)
DecCasBlind(t) ==
  /\ val' = lval[t] - 1 /\ taken' = taken + 1
  /\ lval' = [lval EXCEPT ![t] = 0]
  /\ Goto(t, "cas", "idle")
  /\ UNCHANGED <<waitq, count, added, calls, swallowed>>

(* The compare-exchange takes one, or fails and loads the value.           *)
DecCas(t) ==
  /\ \/ /\ val = lval[t]
        /\ val' = val - 1 /\ taken' = taken + 1
        /\ lval' = [lval EXCEPT ![t] = 0]
        /\ Goto(t, "cas", "idle")
     \/ /\ val # lval[t]
        /\ lval' = [lval EXCEPT ![t] = val]
        /\ Goto(t, "cas", "check")
        /\ UNCHANGED <<val, taken>>
  /\ UNCHANGED <<waitq, count, added, calls, swallowed>>

(* aspinTimeout says no: sleep on 0, or try the value that was loaded.     *)
DecContinue(t) ==
  /\ \/ lval[t] = 0 /\ Goto(t, "check", "sleep")
     \/ lval[t] > 0 /\ Goto(t, "check", "cas")
  /\ UNCHANGED <<val, waitq, lval, count, taken, added, calls, swallowed>>

(* aspinTimeout says yes: return false.                                    *)
DecGiveUp(t) ==
  /\ t \in Timed
  /\ lval' = [lval EXCEPT ![t] = 0]
  /\ Goto(t, "check", "idle")
  /\ swallowed' = (swallowed \/ lval[t] > 0)
  /\ UNCHANGED <<val, waitq, count, taken, added, calls>>

(* One more spin instead of a sleep, or futexWait returns FUTEX_Retry:     *)
(* load again.                                                             *)
DecSpin(t) ==
  /\ Load(t, "sleep")
  /\ UNCHANGED <<val, waitq, count, taken, added, calls, swallowed>>

DecSleep(t) ==
  /\ Ftx!FutexWait(t, 0)
  /\ Goto(t, "sleep", "asleep")
  /\ UNCHANGED <<val, lval, count, taken, added, calls, swallowed>>

DecWoken(t) ==
  /\ t \notin waitq
  /\ Load(t, "asleep")
  /\ UNCHANGED <<val, waitq, count, taken, added, calls, swallowed>>

(* futexWait returns by itself: timed out, or interrupted by a signal; the *)
(* load follows.                                                           *)
DecSleepEnds(t) ==
  /\ Ftx!FutexEnd(t)
  /\ Load(t, "asleep")
  /\ UNCHANGED <<val, count, taken, added, calls, swallowed>>

(* semaInc: add ...                                                        *)
Inc(t) ==
  /\ StartCall(t)
  /\ \E n \in Counts :
       /\ val' = val + n
       /\ added' = added + n
       /\ count' = [count EXCEPT ![t] = n]
  /\ Goto(t, "idle", "wake")
  /\ UNCHANGED <<waitq, lval, taken, swallowed>>

(* Mutant: semaInc wakes one sleeper whatever it added.                    *)
IncWakeOne(t) ==
  /\ Ftx!FutexWake
  /\ count' = [count EXCEPT ![t] = 0]
  /\ Goto(t, "wake", "idle")
  /\ UNCHANGED <<val, lval, taken, added, calls, swallowed>>

(* ... and wake as many.                                                   *)
IncWake(t) ==
  /\ Ftx!FutexWakeMany(count[t])
  /\ count' = [count EXCEPT ![t] = 0]
  /\ Goto(t, "wake", "idle")
  /\ UNCHANGED <<val, lval, taken, added, calls, swallowed>>
----------------------------------------------------------------------------

Next ==
  \/ \E t \in Waiters :
       \/ Dec(t) \/ DecCas(t) \/ DecContinue(t) \/ DecGiveUp(t)
       \/ DecSpin(t) \/ DecSleep(t) \/ DecWoken(t) \/ DecSleepEnds(t)
  \/ \E t \in Producers : Inc(t) \/ IncWake(t)

Spec == Init /\ [][Next]_vars
----------------------------------------------------------------------------

(* The count is exact: what is left is what was there and was added, less  *)
(* what was taken, whatever exchanges raced.                               *)
CountExact == val + taken = Initial + added

(* No count waits next to a sleeper: when every thread is out of the       *)
(* semaphore or asleep on it, and someone sleeps, the count is 0.  A call  *)
(* that gives up although it has seen a count can break this.              *)
NoStrandedWaiter ==
  /\ waitq # {} /\ ~swallowed
  /\ \A t \in Threads : pc[t] = "idle" \/ t \in waitq
  => val = 0
============================================================================
