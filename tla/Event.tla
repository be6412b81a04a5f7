------------------------------- MODULE Event -------------------------------
(***************************************************************************)
(* The auto-reset event of cx/thread/event.[ch].  The futex value counts   *)
(* wake-up tokens: 0 is not signaled, n > 0 lets n waits return, and -1 is *)
(* locked, when every wait returns.  A second word counts the threads that *)
(* have announced that they are about to sleep; a signal reads it to know  *)
(* how many tokens to add and how many threads to wake.                    *)
(*                                                                         *)
(* A compare-exchange loop on one word is one atomic step.  The load that  *)
(* finds the event unsignaled, the announcement, the sleep, and taking the *)
(* announcement back are four.  The spin before the announcement changes   *)
(* nothing that others see, and the UI event that replaces the futex on    *)
(* Windows is left out.                                                    *)
(***************************************************************************)
EXTENDS Integers, FiniteSets

CONSTANTS
  Waiters,      \* threads that call eventWait or eventWaitTimeout
  Signalers,    \* threads that call the signal operations and eventReset
  Timed,        \* waiters that use a finite timeout
  MaxStale,     \* bound on e->waiters: at it, no further sleep is interrupted
  Counts,       \* the counts eventSignalMany is called with
  AllowAll,     \* whether eventSignalAll is called
  AllowLock,    \* whether eventSignalLock and eventReset are called
  MaxCalls      \* bound on the calls each thread makes, a function of the thread

Threads == Waiters \union Signalers

ASSUME EventAssumption ==
  /\ Timed \subseteq Waiters /\ MaxStale \in Nat
  /\ Counts \subseteq Nat \ {0}
  /\ AllowAll \in BOOLEAN /\ AllowLock \in BOOLEAN
  /\ MaxCalls \in [Threads -> Nat]
  /\ IsFiniteSet(Waiters) /\ IsFiniteSet(Signalers)

VARIABLES
  val, waitq,   \* e->ftx
  waiters,      \* e->waiters
  pc,           \* where each thread is
  count,        \* a signaler's count, waiters or late
  old,          \* a signaler's val: the value its exchange replaced
  calls,        \* calls made so far
  stolen        \* whether a token has been reset, or a token or an announcement
                \* taken from under another waiter (history, read by properties only)

vars == <<val, waitq, waiters, pc, count, old, calls, stolen>>

Ftx == INSTANCE Futex

Labels == {"idle", "wait", "announce", "sleep", "asleep", "undo",
           "many", "manycheck", "manywake", "all0", "all", "late", "lateset", "allwake"}

TypeOK ==
  /\ val \in Int /\ val >= -1
  /\ waitq \subseteq Waiters
  /\ waiters \in Nat
  /\ pc \in [Threads -> Labels]
  /\ count \in [Threads -> Nat]
  /\ old \in [Threads -> Int]
  /\ calls \in [Threads -> Nat]
  /\ stolen \in BOOLEAN

(* _eventInit *)
Init ==
  /\ val = 0 /\ waitq = {} /\ waiters = 0
  /\ pc = [t \in Threads |-> "idle"]
  /\ count = [t \in Threads |-> 0]
  /\ old = [t \in Threads |-> 0]
  /\ calls = [t \in Threads |-> 0]
  /\ stolen = FALSE

----------------------------------------------------------------------------

Goto(t, from, to) == pc[t] = from /\ pc' = [pc EXCEPT ![t] = to]

StartCall(t) == calls[t] < MaxCalls[t] /\ calls' = [calls EXCEPT ![t] = @ + 1]

(* Waiters that have announced themselves and neither slept to the end nor *)
(* taken the announcement back.                                            *)
Announced == {t \in Waiters : pc[t] \in {"sleep", "undo"} \/ t \in waitq}

(* A signal operation returns; its locals are gone.                        *)
Return(t, from) ==
  /\ Goto(t, from, "idle")
  /\ count' = [count EXCEPT ![t] = 0]
  /\ old' = [old EXCEPT ![t] = 0]

(* eventWaitTimeout is called.                                             *)
Wait(t) ==
  /\ StartCall(t)
  /\ Goto(t, "idle", "wait")
  /\ UNCHANGED <<val, waitq, waiters, count, old, stolen>>

(* The event is locked, or has a token to take: return true.  Another      *)
(* waiter may have announced itself and not yet slept or taken that back.  *)
WaitTake(t) ==
  /\ val # 0
  /\ val' = IF val = -1 THEN -1 ELSE val - 1
  /\ Goto(t, "wait", "idle")
  /\ stolen' = \/ stolen
               \/ val = 1 /\ \E u \in Announced \ {t} : u \notin waitq
  /\ UNCHANGED <<waitq, waiters, count, old, calls>>

(* The load finds 0, and the clock has not run out.                        *)
WaitLoad(t) ==
  /\ val = 0
  /\ Goto(t, "wait", "announce")
  /\ UNCHANGED <<val, waitq, waiters, count, old, calls, stolen>>

(* The load finds 0 and aspinTimeout says yes: return false.               *)
WaitGiveUp(t) ==
  /\ t \in Timed
  /\ val = 0
  /\ Goto(t, "wait", "idle")
  /\ UNCHANGED <<val, waitq, waiters, count, old, calls, stolen>>

(* The fetch-and-add on e->waiters.                                        *)
WaitAnnounce(t) ==
  /\ waiters' = waiters + 1
  /\ Goto(t, "announce", "sleep")
  /\ UNCHANGED <<val, waitq, count, old, calls, stolen>>

WaitSleep(t) ==
  /\ \/ Ftx!FutexWait(t, 0) /\ Goto(t, "sleep", "asleep")
     \/ Ftx!FutexRetry(0) /\ Goto(t, "sleep", "undo")
  /\ UNCHANGED <<val, waiters, count, old, calls, stolen>>

(* FUTEX_Waited: the signaler has taken the announcement off the count.    *)
WaitWoken(t) ==
  /\ t \notin waitq
  /\ Goto(t, "asleep", "wait")
  /\ UNCHANGED <<val, waitq, waiters, count, old, calls, stolen>>

(* FUTEX_Timeout *)
WaitSleepTimeout(t) ==
  /\ t \in Timed
  /\ Ftx!FutexEnd(t)
  /\ Goto(t, "asleep", "undo")
  /\ UNCHANGED <<val, waiters, count, old, calls, stolen>>

(* FUTEX_Error, a system call that a signal interrupted: the announcement  *)
(* stays.                                                                  *)
WaitSleepError(t) ==
  /\ waiters < MaxStale
  /\ Ftx!FutexEnd(t)
  /\ Goto(t, "asleep", "wait")
  /\ UNCHANGED <<val, waiters, count, old, calls, stolen>>

(* shortwait: take the announcement back, or, if a signal has claimed it,  *)
(* that of another thread.                                                 *)
WaitUndo(t) ==
  /\ waiters' = IF waiters > 0 THEN waiters - 1 ELSE waiters
  /\ Goto(t, "undo", "wait")
  /\ stolen' = (stolen \/ waiters \in 1..Cardinality(Announced \ {t}))
  /\ UNCHANGED <<val, waitq, count, old, calls>>
----------------------------------------------------------------------------

(* eventSignalMany: claim up to n of the announced waiters.                *)
SignalMany(t) ==
  /\ StartCall(t)
  /\ \E n \in Counts :
       LET c == IF n < waiters THEN n ELSE waiters
       IN  /\ waiters' = waiters - c
           /\ count' = [count EXCEPT ![t] = c]
  /\ Goto(t, "idle", "many")
  /\ UNCHANGED <<val, waitq, old, stolen>>

(* A token for each, and at least one, unless the event is locked.         *)
SignalManySet(t) ==
  /\ old' = [old EXCEPT ![t] = val]
  /\ val' = IF val < 0 THEN val
            ELSE IF val + count[t] > 1 THEN val + count[t] ELSE 1
  /\ Goto(t, "many", "manycheck")
  /\ UNCHANGED <<waitq, waiters, count, calls, stolen>>

(* Mutant: no second look at the announcements.                            *)
SignalManyNoRecheck(t) ==
  /\ \/ count[t] > 0 /\ Goto(t, "manycheck", "manywake") /\ UNCHANGED <<count, old>>
     \/ count[t] = 0 /\ Return(t, "manycheck")
  /\ UNCHANGED <<val, waitq, waiters, calls, stolen>>

(* Nobody was announced but the event has just become signaled: look       *)
(* again for a thread that announced itself in the meantime.               *)
SignalManyRecheck(t) ==
  /\ \/ /\ count[t] > 0
        /\ Goto(t, "manycheck", "manywake")
        /\ UNCHANGED <<count, old>>
     \/ /\ count[t] = 0 /\ old[t] = 0 /\ waiters > 0
        /\ count' = [count EXCEPT ![t] = 1]
        /\ Goto(t, "manycheck", "manywake")
        /\ UNCHANGED old
     \/ /\ count[t] = 0 /\ (old[t] # 0 \/ waiters = 0)
        /\ Return(t, "manycheck")
  /\ UNCHANGED <<val, waitq, waiters, calls, stolen>>

SignalManyWake(t) ==
  /\ Ftx!FutexWakeMany(count[t])
  /\ Return(t, "manywake")
  /\ UNCHANGED <<val, waiters, calls, stolen>>

(* eventSignalAll: claim every announced waiter ...                        *)
ClaimAll(t, from, to) ==
  /\ count' = [count EXCEPT ![t] = waiters]
  /\ waiters' = 0
  /\ Goto(t, from, to)
  /\ UNCHANGED <<val, waitq, old, stolen>>

SignalAll(t) == AllowAll /\ StartCall(t) /\ ClaimAll(t, "idle", "all")

(* eventSignalLock: store -1, then eventSignalAll.                         *)
SignalLock(t) ==
  /\ AllowLock /\ StartCall(t)
  /\ val' = -1
  /\ Goto(t, "idle", "all0")
  /\ UNCHANGED <<waitq, waiters, count, old, stolen>>

SignalLockAll(t) == ClaimAll(t, "all0", "all") /\ UNCHANGED calls

(* ... add a token for each ...                                            *)
SignalAllSet(t) ==
  /\ old' = [old EXCEPT ![t] = val]
  /\ val' = IF val < 0 THEN val ELSE val + count[t]
  /\ Goto(t, "all", "late")
  /\ UNCHANGED <<waitq, waiters, count, calls, stolen>>

(* ... claim those that came while the tokens were being added ...         *)
SignalAllLate(t) ==
  /\ count' = [count EXCEPT ![t] = waiters]
  /\ waiters' = 0
  /\ Goto(t, "late", IF waiters > 0 /\ old[t] >= 0 THEN "lateset" ELSE "allwake")
  /\ UNCHANGED <<val, waitq, old, calls, stolen>>

(* ... add theirs ...                                                      *)
SignalAllLateSet(t) ==
  /\ val' = IF val < 0 THEN val ELSE val + count[t]
  /\ Goto(t, "lateset", "allwake")
  /\ UNCHANGED <<waitq, waiters, count, old, calls, stolen>>

(* Mutant: the broadcast wakes one thread.                                 *)
SignalAllWakeOne(t) ==
  /\ Ftx!FutexWake
  /\ Return(t, "allwake")
  /\ UNCHANGED <<val, waiters, calls, stolen>>

(* ... and wake everyone.                                                  *)
SignalAllWake(t) ==
  /\ Ftx!FutexWakeAll
  /\ Return(t, "allwake")
  /\ UNCHANGED <<val, waiters, calls, stolen>>

(* eventReset *)
Reset(t) ==
  /\ AllowLock /\ StartCall(t)
  /\ pc[t] = "idle"
  /\ val' = 0
  /\ stolen' = (stolen \/ val # 0)
  /\ UNCHANGED <<waitq, waiters, pc, count, old>>
----------------------------------------------------------------------------

(* The steps of a thread that is inside a call and can run.                *)
RunWait(t) ==
  \/ WaitTake(t) \/ WaitLoad(t) \/ WaitAnnounce(t)
  \/ WaitSleep(t) \/ WaitWoken(t) \/ WaitUndo(t)

RunSignal(t) ==
  \/ SignalManySet(t) \/ SignalManyRecheck(t) \/ SignalManyWake(t)
  \/ SignalLockAll(t) \/ SignalAllSet(t) \/ SignalAllLate(t)
  \/ SignalAllLateSet(t) \/ SignalAllWake(t)

(* The steps that the caller, the clock or a signal handler chooses.       *)
Environment(t) ==
  \/ t \in Waiters /\ Wait(t)
  \/ t \in Signalers /\ (SignalMany(t) \/ SignalAll(t) \/ SignalLock(t) \/ Reset(t))
  \/ WaitGiveUp(t) \/ WaitSleepTimeout(t) \/ WaitSleepError(t)

Next == \E t \in Threads : RunWait(t) \/ RunSignal(t) \/ Environment(t)

Spec == Init /\ [][Next]_vars

(* Every runnable thread is scheduled.                                     *)
FairSpec == Spec /\ \A t \in Threads : WF_vars(RunWait(t) \/ RunSignal(t))
----------------------------------------------------------------------------

Quiet == \A t \in Threads : pc[t] = "idle" \/ t \in waitq

(* No token waits next to a sleeper: when every thread is out of the       *)
(* event or asleep on it, and someone sleeps, the event is not signaled.   *)
(* A signal has either woken a thread or left no thread to wake.           *)
NoStrandedWaiter == Quiet /\ waitq # {} => val = 0

(* What the code keeps of that: it holds as long as no token has been      *)
(* reset, or taken between another thread's announcement and its sleep,    *)
(* and no wait that ends early has taken another thread's announcement.    *)
NoStrandedWaiterUnlessStolen == ~stolen => NoStrandedWaiter

(* A locked event lets every wait return: whoever waits gets out, or the   *)
(* event is unlocked again.                                                *)
LockReleasesAll ==
  \A t \in Waiters : (val = -1 /\ pc[t] # "idle") ~> (pc[t] = "idle" \/ val # -1)
============================================================================
