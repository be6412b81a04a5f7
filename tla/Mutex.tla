------------------------------- MODULE Mutex -------------------------------
(***************************************************************************)
(* The adaptive mutex of cx/thread/mutex.[ch]: a futex value of 0          *)
(* (unlocked), 1 (locked) or 2 (locked, someone may be asleep), taken on a *)
(* fast path with one compare-exchange and otherwise in a loop that marks  *)
(* the value contended, spins or sleeps, and tries again.                  *)
(*                                                                         *)
(* Atomic operations are interleaved as in a sequentially consistent       *)
(* machine.  The adaptive spin (aspin.h) is abstracted to a number of      *)
(* spins left, which the time cap can drop to 0, and the clock to a free   *)
(* choice of whether a call with a finite timeout has expired.             *)
(***************************************************************************)
EXTENDS Naturals, FiniteSets

CONSTANTS
  Threads,    \* threads that use the mutex
  Timed,      \* threads whose mutexTryAcquireTimeout has a finite timeout
  MaxSpin,    \* bound on the spins of one acquisition
  MaxCalls,   \* bound on the acquisitions each thread starts
  NoThread    \* the owner of a free lock

ASSUME MutexAssumption ==
  /\ Timed \subseteq Threads
  /\ MaxSpin \in Nat
  /\ MaxCalls \in Nat
  /\ NoThread \notin Threads

VARIABLES
  val,        \* m->ftx.val
  waitq,      \* threads asleep on m->ftx
  pc,         \* where each thread is
  curstate,   \* the local curstate of mutexTryAcquireTimeout
  spin,       \* ass->spincount, spins the thread still has
  calls,      \* acquisitions started so far
  expired     \* whether some call has given up (history, read by properties only)

vars == <<val, waitq, pc, curstate, spin, calls, expired>>

Ftx == INSTANCE Futex

Labels == {"idle", "trycas", "fastcas", "loop", "spin", "sleep", "reload",
           "timeout", "retry", "cs", "relset", "relwake"}

TypeOK ==
  /\ val \in 0..2
  /\ waitq \subseteq Threads
  /\ pc \in [Threads -> Labels]
  /\ curstate \in [Threads -> 0..2]
  /\ spin \in [Threads -> 0..MaxSpin]
  /\ calls \in [Threads -> 0..MaxCalls]
  /\ expired \in BOOLEAN

(* _mutexInit *)
Init ==
  /\ val = 0
  /\ waitq = {}
  /\ pc = [t \in Threads |-> "idle"]
  /\ curstate = [t \in Threads |-> 0]
  /\ spin = [t \in Threads |-> 0]
  /\ calls = [t \in Threads |-> 0]
  /\ expired = FALSE

----------------------------------------------------------------------------

Goto(t, from, to) == pc[t] = from /\ pc' = [pc EXCEPT ![t] = to]

(* mutexTryAcquireTimeout: the first load; aspinBegin when it has to wait. *)
AcquireLoad(t) ==
  /\ calls[t] < MaxCalls
  /\ calls' = [calls EXCEPT ![t] = @ + 1]
  /\ curstate' = [curstate EXCEPT ![t] = val]
  /\ \/ val = 0 /\ Goto(t, "idle", "fastcas") /\ UNCHANGED spin
     \/ /\ val # 0
        /\ Goto(t, "idle", "loop")
        /\ \E n \in 0..MaxSpin : spin' = [spin EXCEPT ![t] = n]
  /\ UNCHANGED <<val, waitq, expired>>

(* The fast path's strong compare-exchange 0 -> 1; aspinBegin on failure.  *)
AcquireFast(t) ==
  /\ \/ val = 0 /\ val' = 1 /\ Goto(t, "fastcas", "cs") /\ UNCHANGED <<curstate, spin>>
     \/ /\ val # 0
        /\ Goto(t, "fastcas", "loop")
        /\ curstate' = [curstate EXCEPT ![t] = val]
        /\ \E n \in 0..MaxSpin : spin' = [spin EXCEPT ![t] = n]
        /\ UNCHANGED val
  /\ UNCHANGED <<waitq, calls, expired>>

(* Mutant: marking the value contended adds 1 instead of storing 2.        *)
AcquireMarkAdd(t) ==
  /\ \/ val # 0 /\ val' = val + 1 /\ Goto(t, "loop", "spin")
     \/ val = 0 /\ Goto(t, "loop", "reload") /\ UNCHANGED val
  /\ UNCHANGED <<waitq, curstate, spin, calls, expired>>

(* Top of the inner loop: the value is contended, or the weak              *)
(* compare-exchange 1 -> 2 makes it so.                                    *)
AcquireMark(t) ==
  /\ \/ curstate[t] = 2 /\ Goto(t, "loop", "spin") /\ UNCHANGED <<val, curstate>>
     \/ curstate[t] = 1 /\ val = 1 /\ val' = 2 /\ Goto(t, "loop", "spin") /\ UNCHANGED curstate
     \/ /\ curstate[t] = 1 /\ val # 1
        /\ Goto(t, "loop", "reload")
        /\ curstate' = [curstate EXCEPT ![t] = val]
        /\ UNCHANGED val
     \/ curstate[t] = 0 /\ Goto(t, "loop", "reload") /\ UNCHANGED <<val, curstate>>
  /\ UNCHANGED <<waitq, spin, calls, expired>>

(* The weak compare-exchange fails although the value is 1.                *)
AcquireMarkSpurious(t) ==
  /\ curstate[t] = 1
  /\ Goto(t, "loop", "reload")
  /\ UNCHANGED <<val, waitq, curstate, spin, calls, expired>>

(* aspinSpin returns true: one spin is used up.                            *)
AcquireSpin(t) ==
  /\ spin[t] > 0
  /\ spin' = [spin EXCEPT ![t] = @ - 1]
  /\ Goto(t, "spin", "reload")
  /\ UNCHANGED <<val, waitq, curstate, calls, expired>>

(* aspinSpin returns false, none left or the time cap reached: futexWait.  *)
AcquireSleep(t) ==
  /\ spin' = [spin EXCEPT ![t] = 0]
  /\ \/ Ftx!FutexWait(t, 2) /\ Goto(t, "spin", "sleep")
     \/ Ftx!FutexRetry(2) /\ Goto(t, "spin", "reload")
  /\ UNCHANGED <<val, curstate, calls, expired>>

(* futexWait returns after a wake-up.                                      *)
AcquireWoken(t) ==
  /\ t \notin waitq
  /\ Goto(t, "sleep", "reload")
  /\ UNCHANGED <<val, waitq, curstate, spin, calls, expired>>

(* futexWait returns by itself: timed out, or interrupted by a signal.     *)
AcquireSleepEnds(t) ==
  /\ Ftx!FutexEnd(t)
  /\ Goto(t, "sleep", "reload")
  /\ UNCHANGED <<val, curstate, spin, calls, expired>>

(* The load at the bottom of the inner loop.                               *)
AcquireReload(t) ==
  /\ curstate' = [curstate EXCEPT ![t] = val]
  /\ Goto(t, "reload", "timeout")
  /\ UNCHANGED <<val, waitq, spin, calls, expired>>

(* aspinTimeout says no: leave the inner loop if the value was 0.          *)
AcquireContinue(t) ==
  /\ \/ curstate[t] # 0 /\ Goto(t, "timeout", "loop")
     \/ curstate[t] = 0 /\ Goto(t, "timeout", "retry")
  /\ UNCHANGED <<val, waitq, curstate, spin, calls, expired>>

(* aspinTimeout says yes: mutexTryAcquireTimeout returns false.            *)
AcquireGiveUp(t) ==
  /\ t \in Timed
  /\ Goto(t, "timeout", "idle")
  /\ expired' = TRUE
  /\ UNCHANGED <<val, waitq, curstate, spin, calls>>

(* The outer loop's strong compare-exchange 0 -> new.                      *)
AcquireRetryWith(t, new) ==
  /\ \/ val = 0 /\ val' = new /\ Goto(t, "retry", "cs") /\ UNCHANGED curstate
     \/ /\ val # 0
        /\ Goto(t, "retry", "loop")
        /\ curstate' = [curstate EXCEPT ![t] = val]
        /\ UNCHANGED val
  /\ UNCHANGED <<waitq, spin, calls, expired>>

(* Mutant: the retry takes the mutex as if nobody else could be asleep.    *)
AcquireRetryUncontended(t) == AcquireRetryWith(t, 1)

(* A thread that has waited takes the mutex as contended.                  *)
AcquireRetry(t) == AcquireRetryWith(t, 2)

(* mutexTryAcquire: the load, then a strong compare-exchange 0 -> 1.       *)
TryAcquireLoad(t) ==
  /\ calls[t] < MaxCalls
  /\ calls' = [calls EXCEPT ![t] = @ + 1]
  /\ \/ val = 0 /\ Goto(t, "idle", "trycas")
     \/ val # 0 /\ pc[t] = "idle" /\ UNCHANGED pc
  /\ UNCHANGED <<val, waitq, curstate, spin, expired>>

TryAcquireCas(t) ==
  /\ \/ val = 0 /\ val' = 1 /\ Goto(t, "trycas", "cs")
     \/ val # 0 /\ Goto(t, "trycas", "idle") /\ UNCHANGED val
  /\ UNCHANGED <<waitq, curstate, spin, calls, expired>>

(* Mutant: an uncontended release stores 0 once more.                      *)
ReleaseSubThenSet(t) ==
  /\ val > 0
  /\ val' = val - 1
  /\ Goto(t, "cs", "relset")
  /\ UNCHANGED <<waitq, curstate, spin, calls, expired>>

(* mutexRelease: the fetch-and-subtract.  The previous value is > 0.       *)
ReleaseSub(t) ==
  /\ val > 0
  /\ val' = val - 1
  /\ \/ val = 1 /\ Goto(t, "cs", "idle")
     \/ val > 1 /\ Goto(t, "cs", "relset")
  /\ UNCHANGED <<waitq, curstate, spin, calls, expired>>

(* mutexRelease: futexSet(0) after a contended release.                    *)
ReleaseSet(t) ==
  /\ val' = 0
  /\ Goto(t, "relset", "relwake")
  /\ UNCHANGED <<waitq, curstate, spin, calls, expired>>

(* Mutant: the sleepers are left alone.                                    *)
ReleaseNoWake(t) ==
  /\ Goto(t, "relwake", "idle")
  /\ UNCHANGED <<val, waitq, curstate, spin, calls, expired>>

(* mutexRelease: futexWake.                                                *)
ReleaseWake(t) ==
  /\ Ftx!FutexWake
  /\ Goto(t, "relwake", "idle")
  /\ UNCHANGED <<val, curstate, spin, calls, expired>>

----------------------------------------------------------------------------

(* The steps of a thread that is inside a call and can run.                *)
Run(t) ==
  \/ AcquireFast(t) \/ AcquireMark(t)
  \/ AcquireSpin(t) \/ AcquireSleep(t) \/ AcquireWoken(t)
  \/ AcquireReload(t) \/ AcquireContinue(t) \/ AcquireRetry(t)
  \/ TryAcquireCas(t)
  \/ ReleaseSub(t) \/ ReleaseSet(t) \/ ReleaseWake(t)

(* The steps that the caller, the clock, a signal or the processor chooses.*)
Environment(t) ==
  \/ AcquireLoad(t) \/ TryAcquireLoad(t)
  \/ AcquireGiveUp(t) \/ AcquireSleepEnds(t) \/ AcquireMarkSpurious(t)

Next == \E t \in Threads : Run(t) \/ Environment(t)

Spec == Init /\ [][Next]_vars

(* Every runnable thread is scheduled, a holder releases in the end, and a *)
(* weak compare-exchange does not fail for ever.                           *)
FairSpec ==
  /\ Spec
  /\ \A t \in Threads : WF_vars(Run(t)) /\ SF_vars(AcquireMark(t))
----------------------------------------------------------------------------

Holding(t) == pc[t] \in {"cs", "relset"}

(* At most one thread is inside the mutex, and the value is 0 exactly when *)
(* there is none: a releasing thread that has subtracted 1 from a          *)
(* contended value still excludes the others until it stores 0.            *)
MutualExclusion ==
  /\ \A t, u \in Threads : Holding(t) /\ Holding(u) => t = u
  /\ val = 0 <=> \A t \in Threads : ~Holding(t)

(* No thread is asleep unless something is still going to look at the      *)
(* mutex on its behalf: the value says "contended", so that the holder's   *)
(* release wakes one, or a wake-up is on its way, or a waiter is awake and *)
(* will mark the value contended before it sleeps or takes the mutex.  A   *)
(* call that gives up can break this.                                      *)
NoLostWakeup ==
  ~expired /\ waitq # {} =>
    \/ val = 2
    \/ \E t \in Threads :
         \/ pc[t] \in {"relset", "relwake", "loop", "spin", "reload", "timeout", "retry"}
         \/ pc[t] = "sleep" /\ t \notin waitq

(* A thread inside mutexAcquire gets the mutex and returns, once the       *)
(* others stop taking it, as long as no call has given up.                 *)
CallsReturnUnlessExpired ==
  \A t \in Threads : pc[t] # "idle" ~> (pc[t] = "idle" \/ expired)

(* The same without the proviso: mutexAcquire "Blocks the calling thread   *)
(* until the mutex can be acquired" (mutex.h), and no longer.              *)
EveryCallReturns == \A t \in Threads : pc[t] # "idle" ~> pc[t] = "idle"

(* The mutex implements the abstract lock.  The step that takes it is the  *)
(* compare-exchange that leaves 0; the step that frees it is the one that  *)
(* stores 0, which for a contended release is futexSet and not the         *)
(* subtraction before it.                                                  *)
Owner == IF \E t \in Threads : Holding(t)
         THEN CHOOSE t \in Threads : Holding(t)
         ELSE NoThread

Lock == INSTANCE AbstractLock WITH owner <- Owner

ImplementsLock == Lock!Spec
============================================================================
