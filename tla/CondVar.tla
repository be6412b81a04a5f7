------------------------------ MODULE CondVar ------------------------------
(***************************************************************************)
(* The condition variable of cx/thread/condvar.[ch], used the way its      *)
(* header and tests/thrtest.c use it: consumers wait, under a mutex, while *)
(* there is no item; producers add an item under the mutex and signal.     *)
(*                                                                         *)
(* A wait records the sequence number it sees and sleeps until the number  *)
(* is another one; a signal stores the number the latest waiter recorded,  *)
(* plus one.  The mutex is the abstract lock that Mutex implements.        *)
(***************************************************************************)
EXTENDS Naturals, FiniteSets

CONSTANTS
  Consumers,    \* threads that wait for an item
  Producers,    \* threads that add one and signal
  Timed,        \* consumers that use cvarWaitTimeout with a finite timeout
  Signals,      \* subset of {"one", "all"}: cvarSignal, cvarBroadcast
  UnderLock,    \* whether producers signal before they release the mutex
  MaxCalls,     \* bound on the items each producer adds and each consumer takes
  NoThread      \* the owner of a free mutex

Threads == Consumers \union Producers

ASSUME CondVarAssumption ==
  /\ Timed \subseteq Consumers
  /\ Signals \subseteq {"one", "all"}
  /\ UnderLock \in BOOLEAN
  /\ MaxCalls \in Nat
  /\ NoThread \notin Threads
  /\ IsFiniteSet(Consumers) /\ IsFiniteSet(Producers)

VARIABLES
  seq, waitq,   \* cv->seq
  lastseq,      \* cv->lastseq
  owner,        \* the mutex
  items,        \* the condition the mutex guards: items to consume
  pc,           \* where each thread is
  local,        \* a waiter's lastseq, a signal's seq
  calls,        \* items added or asked for so far
  swallowed     \* whether a wait that had been signaled has given up (history,
                \* read by properties only)

vars == <<seq, waitq, lastseq, owner, items, pc, local, calls, swallowed>>

Ftx == INSTANCE Futex WITH val <- seq
Lock == INSTANCE AbstractLock

Labels == {"idle", "check", "record", "unlock", "load", "wait", "asleep", "relock",
           "add", "signal", "one", "all", "wakeone", "wakeall", "done"}

TypeOK ==
  /\ seq \in Nat /\ lastseq \in Nat
  /\ waitq \subseteq Consumers
  /\ owner \in Threads \union {NoThread}
  /\ items \in Nat
  /\ pc \in [Threads -> Labels]
  /\ local \in [Threads -> Nat]
  /\ calls \in [Threads -> 0..MaxCalls]
  /\ swallowed \in BOOLEAN

(* _cvarInit *)
Init ==
  /\ seq = 0 /\ waitq = {} /\ lastseq = 0
  /\ owner = NoThread
  /\ items = 0
  /\ pc = [t \in Threads |-> "idle"]
  /\ local = [t \in Threads |-> 0]
  /\ calls = [t \in Threads |-> 0]
  /\ swallowed = FALSE

----------------------------------------------------------------------------

Goto(t, from, to) == pc[t] = from /\ pc' = [pc EXCEPT ![t] = to]

StartCall(t) == calls[t] < MaxCalls /\ calls' = [calls EXCEPT ![t] = @ + 1]

(* The consumer locks the mutex ...                                        *)
ConsumerLock(t) ==
  /\ StartCall(t)
  /\ Lock!Acquire(t)
  /\ Goto(t, "idle", "check")
  /\ UNCHANGED <<seq, waitq, lastseq, items, local, swallowed>>

(* ... and takes an item and unlocks, or waits, which loads the number.    *)
ConsumerCheck(t) ==
  /\ \/ /\ items > 0 /\ items' = items - 1
        /\ Lock!Release(t)
        /\ Goto(t, "check", "idle")
        /\ UNCHANGED local
     \/ /\ items = 0
        /\ local' = [local EXCEPT ![t] = seq]
        /\ Goto(t, "check", "record")
        /\ UNCHANGED <<items, owner>>
  /\ UNCHANGED <<seq, waitq, lastseq, calls, swallowed>>

(* Mutant: the number is not recorded.                                     *)
WaitNotRecorded(t) ==
  /\ Goto(t, "record", "unlock")
  /\ UNCHANGED <<seq, waitq, lastseq, owner, items, local, calls, swallowed>>

(* cvarWaitTimeout: the number seen becomes cv->lastseq ...                *)
WaitRecord(t) ==
  /\ lastseq' = local[t]
  /\ Goto(t, "record", "unlock")
  /\ UNCHANGED <<seq, waitq, owner, items, local, calls, swallowed>>

(* ... and the mutex is released.                                          *)
WaitUnlock(t) ==
  /\ Lock!Release(t)
  /\ Goto(t, "unlock", "wait")
  /\ UNCHANGED <<seq, waitq, lastseq, items, local, calls, swallowed>>

(* The number is loaded: has it changed?                                   *)
WaitLoad(t) ==
  /\ Goto(t, "load", IF seq # local[t] THEN "relock" ELSE "wait")
  /\ UNCHANGED <<seq, waitq, lastseq, owner, items, local, calls, swallowed>>

(* It had not: futexWait.                                                  *)
WaitSleep(t) ==
  /\ \/ Ftx!FutexWait(t, local[t]) /\ Goto(t, "wait", "asleep")
     \/ Ftx!FutexRetry(local[t]) /\ Goto(t, "wait", "load")
  /\ UNCHANGED <<seq, lastseq, owner, items, local, calls, swallowed>>

WaitWoken(t) ==
  /\ t \notin waitq
  /\ Goto(t, "asleep", "load")
  /\ UNCHANGED <<seq, waitq, lastseq, owner, items, local, calls, swallowed>>

(* futexWait returns by itself: timed out, or interrupted by a signal.     *)
WaitSleepEnds(t) ==
  /\ Ftx!FutexEnd(t)
  /\ Goto(t, "asleep", "load")
  /\ UNCHANGED <<seq, lastseq, owner, items, local, calls, swallowed>>

(* aspinTimeout says yes, before the number has changed or after it, or    *)
(* the mutex does not come free in time: return false, mutex unlocked.     *)
WaitGiveUp(t) ==
  /\ t \in Timed
  /\ \/ Goto(t, "wait", "idle") /\ UNCHANGED swallowed
     \/ Goto(t, "relock", "idle") /\ swallowed' = TRUE
  /\ UNCHANGED <<seq, waitq, lastseq, owner, items, local, calls>>

(* The mutex is taken again and the consumer's loop continues.             *)
WaitRelock(t) ==
  /\ Lock!Acquire(t)
  /\ Goto(t, "relock", "check")
  /\ UNCHANGED <<seq, waitq, lastseq, items, local, calls, swallowed>>
----------------------------------------------------------------------------

ProducerLock(t) ==
  /\ StartCall(t)
  /\ Lock!Acquire(t)
  /\ Goto(t, "idle", "add")
  /\ UNCHANGED <<seq, waitq, lastseq, items, local, swallowed>>

ProducerAdd(t) ==
  /\ items' = items + 1
  /\ IF UnderLock THEN UNCHANGED owner ELSE Lock!Release(t)
  /\ Goto(t, "add", "signal")
  /\ UNCHANGED <<seq, waitq, lastseq, local, calls, swallowed>>

(* cvarSignal, cvarBroadcast: compute the new number ...                   *)
SignalLoad(t) ==
  /\ local' = [local EXCEPT ![t] = lastseq + 1]
  /\ \E kind \in Signals : Goto(t, "signal", kind)
  /\ UNCHANGED <<seq, waitq, lastseq, owner, items, calls, swallowed>>

(* ... store it ...                                                        *)
SignalStore(t) ==
  /\ seq' = local[t]
  /\ Goto(t, "one", "wakeone") \/ Goto(t, "all", "wakeall")
  /\ UNCHANGED <<waitq, lastseq, owner, items, local, calls, swallowed>>

(* ... and wake one thread, or all.                                        *)
SignalWake(t) ==
  /\ \/ Goto(t, "wakeone", "done") /\ Ftx!FutexWake
     \/ Goto(t, "wakeall", "done") /\ Ftx!FutexWakeAll
  /\ UNCHANGED <<seq, lastseq, owner, items, local, calls, swallowed>>

ProducerDone(t) ==
  /\ IF UnderLock THEN Lock!Release(t) ELSE UNCHANGED owner
  /\ Goto(t, "done", "idle")
  /\ UNCHANGED <<seq, waitq, lastseq, items, local, calls, swallowed>>
----------------------------------------------------------------------------

Next ==
  \/ \E t \in Consumers :
       \/ ConsumerLock(t) \/ ConsumerCheck(t)
       \/ WaitRecord(t) \/ WaitUnlock(t) \/ WaitLoad(t) \/ WaitSleep(t)
       \/ WaitWoken(t) \/ WaitSleepEnds(t) \/ WaitGiveUp(t) \/ WaitRelock(t)
  \/ \E t \in Producers :
       \/ ProducerLock(t) \/ ProducerAdd(t) \/ ProducerDone(t)
       \/ SignalLoad(t) \/ SignalStore(t) \/ SignalWake(t)

Spec == Init /\ [][Next]_vars
----------------------------------------------------------------------------

(* No signal is missed: when every thread is out of the monitor or asleep, *)
(* and a consumer sleeps, there is no item for it.  A wait that gives up   *)
(* although it has been signaled can break this.                           *)
NoLostSignal ==
  /\ waitq # {} /\ ~swallowed
  /\ \A t \in Threads : pc[t] = "idle" \/ t \in waitq
  => items = 0
============================================================================
