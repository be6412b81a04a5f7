--------------------------- MODULE CondVarProofs ---------------------------
(***************************************************************************)
(* Proofs about CondVar, for any number of consumers and producers: where  *)
(* producers signal before they release the mutex, no signal is lost.      *)
(*                                                                         *)
(* The mutex keeps the two numbers in step: while a signal is under way no *)
(* waiter records, so the number it stores is one that no waiter in flight *)
(* has seen.  An item next to a sleeper is then always matched by a thread *)
(* that is still going to act on it (Alert).                               *)
(***************************************************************************)
EXTENDS CondVar, FiniteSetTheorems, TLAPS

(***************************************************************************)
(* How large a set is, and how that changes when one member comes or goes. *)
(***************************************************************************)
(* The sizes of A and B, which differ at most in whether t is a member.    *)
Swap(A, B, t) ==
  /\ Cardinality(A) \in Nat /\ Cardinality(B) \in Nat
  /\ t \in A /\ t \in B => Cardinality(B) = Cardinality(A)
  /\ t \notin A /\ t \notin B => Cardinality(B) = Cardinality(A)
  /\ t \notin A /\ t \in B => Cardinality(B) = Cardinality(A) + 1
  /\ t \in A /\ t \notin B => Cardinality(A) = Cardinality(B) + 1

(* At most t comes or goes.                                                *)
LEMMA SetSwap ==
  ASSUME NEW T, IsFiniteSet(T), NEW A \in SUBSET T, NEW B \in SUBSET T, NEW t,
         \A u \in T : u # t => (u \in A <=> u \in B)
  PROVE  Swap(A, B, t)
<1>1. IsFiniteSet(A) /\ IsFiniteSet(B)
  BY FS_Subset
<1>2. Cardinality(A) \in Nat /\ Cardinality(B) \in Nat
  BY <1>1, FS_CardinalityType
<1>3. (t \in A <=> t \in B) => A = B
  OBVIOUS
<1>4. ASSUME t \notin A, t \in B
      PROVE  Cardinality(B) = Cardinality(A) + 1
  <2>1. B = A \cup {t}
    BY <1>4
  <2> QED
    BY <1>1, <1>4, <2>1, FS_AddElement
<1>5. ASSUME t \in A, t \notin B
      PROVE  Cardinality(A) = Cardinality(B) + 1
  <2>1. A = B \cup {t}
    BY <1>5
  <2> QED
    BY <1>1, <1>5, <2>1, FS_AddElement
<1> QED
  BY <1>2, <1>3, <1>4, <1>5 DEF Swap

(* A subset of a finite set has no members exactly if its size is 0.       *)
LEMMA SetSize ==
  ASSUME NEW T, IsFiniteSet(T), NEW A \in SUBSET T
  PROVE  Cardinality(A) \in Nat /\ (Cardinality(A) = 0 <=> A = {})
BY FS_Subset, FS_CardinalityType, FS_EmptySet

-----------------------------------------------------------------------------
(* The labels at which a thread holds the mutex.                           *)
Monitor == {"check", "record", "unlock", "add", "signal", "one", "all",
            "wakeone", "wakeall", "done"}

Owned == \A t \in Threads : pc[t] \in Monitor => owner = t

(* A wait that has recorded the number it saw and not seen another one.    *)
Waiting(t) == pc[t] \in {"unlock", "wait", "asleep", "load"}

(* How the numbers of waits and signals relate.                            *)
InStep ==
  /\ lastseq <= seq
  /\ \A t \in Threads :
       /\ pc[t] = "record" => local[t] = seq
       /\ Waiting(t) => local[t] <= lastseq
       /\ pc[t] \in {"one", "all"} => local[t] = lastseq + 1
       /\ pc[t] \in {"wakeone", "wakeall"} => seq = lastseq + 1
       /\ pc[t] = "asleep" /\ t \notin waitq => local[t] # seq

Sleepers == \A t \in waitq : t \in Threads /\ pc[t] = "asleep"

(* A wait that would go to sleep, or sleeps, on the number as it is.       *)
Drowsy(t) ==
  /\ pc[t] \in {"record", "unlock", "wait", "load"} \/ t \in waitq
  /\ local[t] = seq

(* Such a wait misses at most one item, and that one is about to be        *)
(* signaled.                                                               *)
Unmissed ==
  (\E t \in Threads : Drowsy(t))
    => items = 0 \/ (items = 1 /\ \E p \in Threads : pc[p] \in {"signal", "one", "all"})

(* The threads that are going to look at the items, or to wake one that    *)
(* will.                                                                   *)
Busy == {"signal", "one", "all", "wakeone", "wakeall", "relock", "check"}

IsAlert(t) ==
  \/ pc[t] \in Busy
  \/ pc[t] = "asleep" /\ t \notin waitq
  \/ pc[t] = "load" /\ local[t] # seq

Alert == {t \in Threads : IsAlert(t)}

Attended == waitq # {} /\ ~swallowed => items <= Cardinality(Alert)

Inv == TypeOK /\ Owned /\ InStep /\ Sleepers /\ Unmissed /\ Attended

(* Every step keeps the types.                                             *)
LEMMA TypeStep ==
  ASSUME TypeOK, [Next]_vars
  PROVE  TypeOK'
<1>1. CASE UNCHANGED vars
  BY <1>1 DEF vars, TypeOK, Labels, Threads
<1>2. ASSUME NEW t \in Consumers,
            \/ ConsumerLock(t) \/ ConsumerCheck(t) \/ WaitRecord(t) \/ WaitUnlock(t)
            \/ WaitLoad(t) \/ WaitSleep(t) \/ WaitWoken(t) \/ WaitSleepEnds(t)
            \/ WaitGiveUp(t) \/ WaitRelock(t)
      PROVE  TypeOK'
  <2> t \in Threads
    BY DEF Threads
  <2>1. CASE ConsumerLock(t)
    BY <2>1, CondVarAssumption
       DEF ConsumerLock, Goto, StartCall, Lock!Acquire, TypeOK, Labels, Threads
  <2>2. CASE ConsumerCheck(t)
    BY <2>2, CondVarAssumption DEF ConsumerCheck, Goto, Lock!Release, TypeOK, Labels, Threads
  <2>3. CASE WaitRecord(t)
    BY <2>3, CondVarAssumption DEF WaitRecord, Goto, TypeOK, Labels, Threads
  <2>4. CASE WaitUnlock(t)
    BY <2>4, CondVarAssumption DEF WaitUnlock, Goto, Lock!Release, TypeOK, Labels, Threads
  <2>5. CASE WaitLoad(t)
    BY <2>5, CondVarAssumption DEF WaitLoad, Goto, TypeOK, Labels, Threads
  <2>6. CASE WaitSleep(t)
    BY <2>6, CondVarAssumption
       DEF WaitSleep, Goto, Ftx!FutexWait, Ftx!FutexRetry, TypeOK, Labels, Threads
  <2>7. CASE WaitWoken(t)
    BY <2>7, CondVarAssumption DEF WaitWoken, Goto, TypeOK, Labels, Threads
  <2>8. CASE WaitSleepEnds(t)
    BY <2>8, CondVarAssumption DEF WaitSleepEnds, Goto, Ftx!FutexEnd, TypeOK, Labels, Threads
  <2>9. CASE WaitGiveUp(t)
    BY <2>9, CondVarAssumption DEF WaitGiveUp, Goto, TypeOK, Labels, Threads
  <2>10. CASE WaitRelock(t)
    BY <2>10, CondVarAssumption DEF WaitRelock, Goto, Lock!Acquire, TypeOK, Labels, Threads
  <2> QED
    BY <1>2, <2>1, <2>2, <2>3, <2>4, <2>5, <2>6, <2>7, <2>8, <2>9, <2>10
<1>3. ASSUME NEW t \in Producers,
            \/ ProducerLock(t) \/ ProducerAdd(t) \/ ProducerDone(t) \/ SignalLoad(t)
            \/ SignalStore(t) \/ SignalWake(t)
      PROVE  TypeOK'
  <2> t \in Threads
    BY DEF Threads
  <2>1. CASE ProducerLock(t)
    BY <2>1, CondVarAssumption
       DEF ProducerLock, Goto, StartCall, Lock!Acquire, TypeOK, Labels, Threads
  <2>2. CASE ProducerAdd(t)
    BY <2>2, CondVarAssumption DEF ProducerAdd, Goto, Lock!Release, TypeOK, Labels, Threads
  <2>3. CASE ProducerDone(t)
    BY <2>3, CondVarAssumption DEF ProducerDone, Goto, Lock!Release, TypeOK, Labels, Threads
  <2>4. CASE SignalLoad(t)
    BY <2>4, CondVarAssumption DEF SignalLoad, Goto, TypeOK, Labels, Threads
  <2>5. CASE SignalStore(t)
    BY <2>5, CondVarAssumption DEF SignalStore, Goto, TypeOK, Labels, Threads
  <2>6. CASE SignalWake(t)
    BY <2>6, CondVarAssumption
       DEF SignalWake, Goto, Ftx!FutexWake, Ftx!FutexWakeAll, TypeOK, Labels, Threads
  <2> QED
    BY <1>3, <2>1, <2>2, <2>3, <2>4, <2>5, <2>6
<1> QED
  BY <1>1, <1>2, <1>3 DEF Next

(* Only the owner of the mutex moves inside the monitor.                   *)
LEMMA OwnedStep ==
  ASSUME UnderLock, TypeOK, Owned, [Next]_vars
  PROVE  Owned'
<1>1. CASE UNCHANGED vars
  BY <1>1 DEF vars, Owned, TypeOK, Monitor
<1>2. ASSUME NEW t \in Consumers,
            \/ ConsumerLock(t) \/ ConsumerCheck(t) \/ WaitRecord(t) \/ WaitUnlock(t)
            \/ WaitLoad(t) \/ WaitSleep(t) \/ WaitWoken(t) \/ WaitSleepEnds(t)
            \/ WaitGiveUp(t) \/ WaitRelock(t)
      PROVE  Owned'
  <2> t \in Threads
    BY DEF Threads
  <2>1. CASE ConsumerLock(t)
    BY <2>1, CondVarAssumption
       DEF ConsumerLock, Goto, StartCall, Lock!Acquire, Owned, TypeOK, Monitor
  <2>2. CASE ConsumerCheck(t)
    BY <2>2, CondVarAssumption DEF ConsumerCheck, Goto, Lock!Release, Owned, TypeOK, Monitor
  <2>3. CASE WaitRecord(t)
    BY <2>3, CondVarAssumption DEF WaitRecord, Goto, Owned, TypeOK, Monitor
  <2>4. CASE WaitUnlock(t)
    BY <2>4, CondVarAssumption DEF WaitUnlock, Goto, Lock!Release, Owned, TypeOK, Monitor
  <2>5. CASE WaitLoad(t)
    BY <2>5, CondVarAssumption DEF WaitLoad, Goto, Owned, TypeOK, Monitor
  <2>6. CASE WaitSleep(t)
    BY <2>6, CondVarAssumption
       DEF WaitSleep, Goto, Ftx!FutexWait, Ftx!FutexRetry, Owned, TypeOK, Monitor
  <2>7. CASE WaitWoken(t)
    BY <2>7, CondVarAssumption DEF WaitWoken, Goto, Owned, TypeOK, Monitor
  <2>8. CASE WaitSleepEnds(t)
    BY <2>8, CondVarAssumption DEF WaitSleepEnds, Goto, Ftx!FutexEnd, Owned, TypeOK, Monitor
  <2>9. CASE WaitGiveUp(t)
    BY <2>9, CondVarAssumption DEF WaitGiveUp, Goto, Owned, TypeOK, Monitor
  <2>10. CASE WaitRelock(t)
    BY <2>10, CondVarAssumption DEF WaitRelock, Goto, Lock!Acquire, Owned, TypeOK, Monitor
  <2> QED
    BY <1>2, <2>1, <2>2, <2>3, <2>4, <2>5, <2>6, <2>7, <2>8, <2>9, <2>10
<1>3. ASSUME NEW t \in Producers,
            \/ ProducerLock(t) \/ ProducerAdd(t) \/ ProducerDone(t) \/ SignalLoad(t)
            \/ SignalStore(t) \/ SignalWake(t)
      PROVE  Owned'
  <2> t \in Threads
    BY DEF Threads
  <2>1. CASE ProducerLock(t)
    BY <2>1, CondVarAssumption
       DEF ProducerLock, Goto, StartCall, Lock!Acquire, Owned, TypeOK, Monitor
  <2>2. CASE ProducerAdd(t)
    BY <2>2, CondVarAssumption DEF ProducerAdd, Goto, Lock!Release, Owned, TypeOK, Monitor
  <2>3. CASE ProducerDone(t)
    BY <2>3, CondVarAssumption DEF ProducerDone, Goto, Lock!Release, Owned, TypeOK, Monitor
  <2>4. CASE SignalLoad(t)
    BY <2>4, CondVarAssumption DEF SignalLoad, Goto, Owned, TypeOK, Monitor
  <2>5. CASE SignalStore(t)
    BY <2>5, CondVarAssumption DEF SignalStore, Goto, Owned, TypeOK, Monitor
  <2>6. CASE SignalWake(t)
    BY <2>6, CondVarAssumption
       DEF SignalWake, Goto, Ftx!FutexWake, Ftx!FutexWakeAll, Owned, TypeOK, Monitor
  <2> QED
    BY <1>3, <2>1, <2>2, <2>3, <2>4, <2>5, <2>6
<1> QED
  BY <1>1, <1>2, <1>3 DEF Next

(* A thread in the futex's queue stays where it is.                        *)
LEMMA SleepersStep ==
  ASSUME TypeOK, Sleepers, [Next]_vars
  PROVE  Sleepers'
<1>1. CASE UNCHANGED vars
  BY <1>1 DEF vars, Sleepers, TypeOK
<1>2. ASSUME NEW t \in Consumers,
            \/ ConsumerLock(t) \/ ConsumerCheck(t) \/ WaitRecord(t) \/ WaitUnlock(t)
            \/ WaitLoad(t) \/ WaitSleep(t) \/ WaitWoken(t) \/ WaitSleepEnds(t)
            \/ WaitGiveUp(t) \/ WaitRelock(t)
      PROVE  Sleepers'
  <2> t \in Threads
    BY DEF Threads
  <2>1. CASE ConsumerLock(t)
    BY <2>1 DEF ConsumerLock, Goto, StartCall, Lock!Acquire, Sleepers, TypeOK
  <2>2. CASE ConsumerCheck(t)
    BY <2>2 DEF ConsumerCheck, Goto, Lock!Release, Sleepers, TypeOK
  <2>3. CASE WaitRecord(t)
    BY <2>3 DEF WaitRecord, Goto, Sleepers, TypeOK
  <2>4. CASE WaitUnlock(t)
    BY <2>4 DEF WaitUnlock, Goto, Lock!Release, Sleepers, TypeOK
  <2>5. CASE WaitLoad(t)
    BY <2>5 DEF WaitLoad, Goto, Sleepers, TypeOK
  <2>6. CASE WaitSleep(t)
    BY <2>6 DEF WaitSleep, Goto, Ftx!FutexWait, Ftx!FutexRetry, Sleepers, TypeOK
  <2>7. CASE WaitWoken(t)
    BY <2>7 DEF WaitWoken, Goto, Sleepers, TypeOK
  <2>8. CASE WaitSleepEnds(t)
    BY <2>8 DEF WaitSleepEnds, Goto, Ftx!FutexEnd, Sleepers, TypeOK
  <2>9. CASE WaitGiveUp(t)
    BY <2>9 DEF WaitGiveUp, Goto, Sleepers, TypeOK
  <2>10. CASE WaitRelock(t)
    BY <2>10 DEF WaitRelock, Goto, Lock!Acquire, Sleepers, TypeOK
  <2> QED
    BY <1>2, <2>1, <2>2, <2>3, <2>4, <2>5, <2>6, <2>7, <2>8, <2>9, <2>10
<1>3. ASSUME NEW t \in Producers,
            \/ ProducerLock(t) \/ ProducerAdd(t) \/ ProducerDone(t) \/ SignalLoad(t)
            \/ SignalStore(t) \/ SignalWake(t)
      PROVE  Sleepers'
  <2> t \in Threads
    BY DEF Threads
  <2>1. CASE ProducerLock(t)
    BY <2>1 DEF ProducerLock, Goto, StartCall, Lock!Acquire, Sleepers, TypeOK
  <2>2. CASE ProducerAdd(t)
    BY <2>2 DEF ProducerAdd, Goto, Lock!Release, Sleepers, TypeOK
  <2>3. CASE ProducerDone(t)
    BY <2>3 DEF ProducerDone, Goto, Lock!Release, Sleepers, TypeOK
  <2>4. CASE SignalLoad(t)
    BY <2>4 DEF SignalLoad, Goto, Sleepers, TypeOK
  <2>5. CASE SignalStore(t)
    BY <2>5 DEF SignalStore, Goto, Sleepers, TypeOK
  <2>6. CASE SignalWake(t)
    BY <2>6 DEF SignalWake, Goto, Ftx!FutexWake, Ftx!FutexWakeAll, Sleepers, TypeOK
  <2> QED
    BY <1>3, <2>1, <2>2, <2>3, <2>4, <2>5, <2>6
<1> QED
  BY <1>1, <1>2, <1>3 DEF Next

(* The mutex keeps the two numbers in step.                                *)
LEMMA InStepStep ==
  ASSUME UnderLock, TypeOK, Owned, Sleepers, InStep, [Next]_vars
  PROVE  InStep'
<1>1. CASE UNCHANGED vars
  BY <1>1 DEF vars, InStep, Owned, Sleepers, TypeOK, Waiting, Monitor
<1>2. ASSUME NEW t \in Consumers,
            \/ ConsumerLock(t) \/ ConsumerCheck(t) \/ WaitRecord(t) \/ WaitUnlock(t)
            \/ WaitLoad(t) \/ WaitSleep(t) \/ WaitWoken(t) \/ WaitSleepEnds(t)
            \/ WaitGiveUp(t) \/ WaitRelock(t)
      PROVE  InStep'
  <2> t \in Threads
    BY DEF Threads
  <2>1. CASE ConsumerLock(t)
    BY <2>1, CondVarAssumption
       DEF ConsumerLock, Goto, StartCall, Lock!Acquire, InStep, Owned, Sleepers, TypeOK,
           Waiting, Monitor
  <2>2. CASE ConsumerCheck(t)
    BY <2>2, CondVarAssumption
       DEF ConsumerCheck, Goto, Lock!Release, InStep, Owned, Sleepers, TypeOK, Waiting, Monitor
  <2>3. CASE WaitRecord(t)
    BY <2>3, CondVarAssumption
       DEF WaitRecord, Goto, InStep, Owned, Sleepers, TypeOK, Waiting, Monitor
  <2>4. CASE WaitUnlock(t)
    BY <2>4, CondVarAssumption
       DEF WaitUnlock, Goto, Lock!Release, InStep, Owned, Sleepers, TypeOK, Waiting, Monitor
  <2>5. CASE WaitLoad(t)
    BY <2>5, CondVarAssumption
       DEF WaitLoad, Goto, InStep, Owned, Sleepers, TypeOK, Waiting, Monitor
  <2>6. CASE WaitSleep(t)
    BY <2>6, CondVarAssumption
       DEF WaitSleep, Goto, Ftx!FutexWait, Ftx!FutexRetry, InStep, Owned, Sleepers, TypeOK,
           Waiting, Monitor
  <2>7. CASE WaitWoken(t)
    BY <2>7, CondVarAssumption
       DEF WaitWoken, Goto, InStep, Owned, Sleepers, TypeOK, Waiting, Monitor
  <2>8. CASE WaitSleepEnds(t)
    BY <2>8, CondVarAssumption
       DEF WaitSleepEnds, Goto, Ftx!FutexEnd, InStep, Owned, Sleepers, TypeOK, Waiting, Monitor
  <2>9. CASE WaitGiveUp(t)
    BY <2>9, CondVarAssumption
       DEF WaitGiveUp, Goto, InStep, Owned, Sleepers, TypeOK, Waiting, Monitor
  <2>10. CASE WaitRelock(t)
    BY <2>10, CondVarAssumption
       DEF WaitRelock, Goto, Lock!Acquire, InStep, Owned, Sleepers, TypeOK, Waiting, Monitor
  <2> QED
    BY <1>2, <2>1, <2>2, <2>3, <2>4, <2>5, <2>6, <2>7, <2>8, <2>9, <2>10
<1>3. ASSUME NEW t \in Producers,
            \/ ProducerLock(t) \/ ProducerAdd(t) \/ ProducerDone(t) \/ SignalLoad(t)
            \/ SignalStore(t) \/ SignalWake(t)
      PROVE  InStep'
  <2> t \in Threads
    BY DEF Threads
  <2>1. CASE ProducerLock(t)
    BY <2>1, CondVarAssumption
       DEF ProducerLock, Goto, StartCall, Lock!Acquire, InStep, Owned, Sleepers, TypeOK,
           Waiting, Monitor
  <2>2. CASE ProducerAdd(t)
    BY <2>2, CondVarAssumption
       DEF ProducerAdd, Goto, Lock!Release, InStep, Owned, Sleepers, TypeOK, Waiting, Monitor
  <2>3. CASE ProducerDone(t)
    BY <2>3, CondVarAssumption
       DEF ProducerDone, Goto, Lock!Release, InStep, Owned, Sleepers, TypeOK, Waiting, Monitor
  <2>4. CASE SignalLoad(t)
    BY <2>4, CondVarAssumption
       DEF SignalLoad, Goto, InStep, Owned, Sleepers, TypeOK, Waiting, Monitor
  <2>5. CASE SignalStore(t)
    BY <2>5, CondVarAssumption
       DEF SignalStore, Goto, InStep, Owned, Sleepers, TypeOK, Waiting, Monitor
  <2>6. CASE SignalWake(t)
    BY <2>6, CondVarAssumption
       DEF SignalWake, Goto, Ftx!FutexWake, Ftx!FutexWakeAll, InStep, Owned, Sleepers,
           TypeOK, Waiting, Monitor
  <2> QED
    BY <1>3, <2>1, <2>2, <2>3, <2>4, <2>5, <2>6
<1> QED
  BY <1>1, <1>2, <1>3 DEF Next

(* An item that a wait may miss is about to be signaled.                   *)
LEMMA UnmissedStep ==
  ASSUME UnderLock, TypeOK, Owned, InStep, Sleepers, Unmissed, [Next]_vars
  PROVE  Unmissed'
<1>1. CASE UNCHANGED vars
  BY <1>1 DEF vars, Unmissed, Drowsy, InStep, Owned, Sleepers, TypeOK, Waiting, Monitor
<1>2. ASSUME NEW t \in Consumers,
            \/ ConsumerLock(t) \/ ConsumerCheck(t) \/ WaitRecord(t) \/ WaitUnlock(t)
            \/ WaitLoad(t) \/ WaitSleep(t) \/ WaitWoken(t) \/ WaitSleepEnds(t)
            \/ WaitGiveUp(t) \/ WaitRelock(t)
      PROVE  Unmissed'
  <2> t \in Threads
    BY DEF Threads
  <2>1. CASE ConsumerLock(t)
    BY <2>1, CondVarAssumption
       DEF ConsumerLock, Goto, StartCall, Lock!Acquire, Unmissed, Drowsy, InStep, Owned,
           Sleepers, TypeOK, Waiting, Monitor
  <2>2. CASE ConsumerCheck(t)
    BY <2>2, CondVarAssumption
       DEF ConsumerCheck, Goto, Lock!Release, Unmissed, Drowsy, InStep, Owned, Sleepers,
           TypeOK, Waiting, Monitor
  <2>3. CASE WaitRecord(t)
    BY <2>3, CondVarAssumption
       DEF WaitRecord, Goto, Unmissed, Drowsy, InStep, Owned, Sleepers, TypeOK, Waiting,
           Monitor
  <2>4. CASE WaitUnlock(t)
    BY <2>4, CondVarAssumption
       DEF WaitUnlock, Goto, Lock!Release, Unmissed, Drowsy, InStep, Owned, Sleepers, TypeOK,
           Waiting, Monitor
  <2>5. CASE WaitLoad(t)
    BY <2>5, CondVarAssumption
       DEF WaitLoad, Goto, Unmissed, Drowsy, InStep, Owned, Sleepers, TypeOK, Waiting, Monitor
  <2>6. CASE WaitSleep(t)
    BY <2>6, CondVarAssumption
       DEF WaitSleep, Goto, Ftx!FutexWait, Ftx!FutexRetry, Unmissed, Drowsy, InStep, Owned,
           Sleepers, TypeOK, Waiting, Monitor
  <2>7. CASE WaitWoken(t)
    BY <2>7, CondVarAssumption
       DEF WaitWoken, Goto, Unmissed, Drowsy, InStep, Owned, Sleepers, TypeOK, Waiting, Monitor
  <2>8. CASE WaitSleepEnds(t)
    BY <2>8, CondVarAssumption
       DEF WaitSleepEnds, Goto, Ftx!FutexEnd, Unmissed, Drowsy, InStep, Owned, Sleepers,
           TypeOK, Waiting, Monitor
  <2>9. CASE WaitGiveUp(t)
    BY <2>9, CondVarAssumption
       DEF WaitGiveUp, Goto, Unmissed, Drowsy, InStep, Owned, Sleepers, TypeOK, Waiting,
           Monitor
  <2>10. CASE WaitRelock(t)
    BY <2>10, CondVarAssumption
       DEF WaitRelock, Goto, Lock!Acquire, Unmissed, Drowsy, InStep, Owned, Sleepers, TypeOK,
           Waiting, Monitor
  <2> QED
    BY <1>2, <2>1, <2>2, <2>3, <2>4, <2>5, <2>6, <2>7, <2>8, <2>9, <2>10
<1>3. ASSUME NEW t \in Producers,
            \/ ProducerLock(t) \/ ProducerAdd(t) \/ ProducerDone(t) \/ SignalLoad(t)
            \/ SignalStore(t) \/ SignalWake(t)
      PROVE  Unmissed'
  <2> t \in Threads
    BY DEF Threads
  <2>1. CASE ProducerLock(t)
    BY <2>1, CondVarAssumption
       DEF ProducerLock, Goto, StartCall, Lock!Acquire, Unmissed, Drowsy, InStep, Owned,
           Sleepers, TypeOK, Waiting, Monitor
  <2>2. CASE ProducerAdd(t)
    BY <2>2, CondVarAssumption
       DEF ProducerAdd, Goto, Lock!Release, Unmissed, Drowsy, InStep, Owned, Sleepers,
           TypeOK, Waiting, Monitor
  <2>3. CASE ProducerDone(t)
    BY <2>3, CondVarAssumption
       DEF ProducerDone, Goto, Lock!Release, Unmissed, Drowsy, InStep, Owned, Sleepers,
           TypeOK, Waiting, Monitor
  <2>4. CASE SignalLoad(t)
    BY <2>4, CondVarAssumption
       DEF SignalLoad, Goto, Unmissed, Drowsy, InStep, Owned, Sleepers, TypeOK, Waiting,
           Monitor
  <2>5. CASE SignalStore(t)
    BY <2>5, CondVarAssumption
       DEF SignalStore, Goto, Unmissed, Drowsy, InStep, Owned, Sleepers, TypeOK, Waiting,
           Monitor
  <2>6. CASE SignalWake(t)
    BY <2>6, CondVarAssumption
       DEF SignalWake, Goto, Ftx!FutexWake, Ftx!FutexWakeAll, Unmissed, Drowsy, InStep,
           Owned, Sleepers, TypeOK, Waiting, Monitor
  <2> QED
    BY <1>3, <2>1, <2>2, <2>3, <2>4, <2>5, <2>6
<1> QED
  BY <1>1, <1>2, <1>3 DEF Next

(* A step of one thread that leaves the number and the other sleepers      *)
(* alone ...                                                               *)
OnlyMoves(t) ==
  /\ seq' = seq
  /\ \A u \in Threads : u # t => /\ pc'[u] = pc[u] /\ local'[u] = local[u]
                                 /\ u \in waitq' <=> u \in waitq

(* ... changes who is alert at most at that thread.                        *)
LEMMA AlertSwap ==
  ASSUME NEW t \in Threads, OnlyMoves(t)
  PROVE  Swap(Alert, Alert', t) /\ (t \in Alert <=> IsAlert(t)) /\ (t \in Alert' <=> IsAlert(t)')
<1>1. IsFiniteSet(Threads)
  BY CondVarAssumption, FS_Union DEF Threads
<1>2. Alert \in SUBSET Threads /\ Alert' \in SUBSET Threads
  BY DEF Alert
<1>3. \A u \in Threads : u # t => (u \in Alert <=> u \in Alert')
  BY DEF Alert, IsAlert, OnlyMoves
<1>4. Swap(Alert, Alert', t)
  BY <1>1, <1>2, <1>3, SetSwap
<1> QED
  BY <1>4 DEF Alert

(* A signal's store can only add to the threads that are alert.            *)
LEMMA StoreAttends ==
  ASSUME UnderLock, TypeOK, Owned, InStep, Attended, NEW t \in Producers, SignalStore(t)
  PROVE  Attended'
<1>1. IsFiniteSet(Threads) /\ t \in Threads
  BY CondVarAssumption, FS_Union DEF Threads
<1>2. Alert \in SUBSET Alert' /\ Alert' \in SUBSET Threads
  <2>1. seq' = lastseq + 1 /\ UNCHANGED <<local, waitq>>
    BY <1>1 DEF SignalStore, Goto, InStep
  <2>2. \A u \in Threads : pc[u] = "load" => local[u] # seq'
    BY <2>1 DEF InStep, Waiting, TypeOK
  <2>3. \A u \in Threads : IsAlert(u) => IsAlert(u)'
    BY <1>1, <2>1, <2>2 DEF SignalStore, Goto, IsAlert, Busy, TypeOK
  <2> QED
    BY <2>3 DEF Alert
<1>3. IsFiniteSet(Alert')
  BY <1>1, <1>2, FS_Subset
<1>4. Cardinality(Alert) <= Cardinality(Alert')
  BY <1>2, <1>3, FS_Subset
<1>5. IsFiniteSet(Alert) /\ Cardinality(Alert) \in Nat /\ Cardinality(Alert') \in Nat
  BY <1>2, <1>3, FS_Subset, FS_CardinalityType
<1> QED
  BY <1>4, <1>5 DEF SignalStore, Attended, TypeOK

(* A signal hands its duty over to the sleeper that it wakes.              *)
LEMMA WakeAttends ==
  ASSUME TypeOK, Sleepers, Attended, NEW t \in Producers, SignalWake(t)
  PROVE  Attended'
<1>1. IsFiniteSet(Threads) /\ t \in Threads
  BY CondVarAssumption, FS_Union DEF Threads
<1>2. CASE waitq' = {}
  BY <1>2 DEF Attended
<1>3. ASSUME NEW w \in waitq, waitq' = waitq \ {w}, pc[t] \in Busy
      PROVE  Attended'
  <2>1. /\ w \in Threads /\ pc[w] = "asleep" /\ w # t
        /\ UNCHANGED <<seq, local, items, swallowed>>
        /\ \A u \in Threads : u # t => pc'[u] = pc[u]
        /\ pc'[t] = "done"
    BY <1>1, <1>3 DEF Sleepers, SignalWake, Goto, Busy, TypeOK
  <2> DEFINE Rest == Alert \ {t}
  <2>2. Alert = Rest \cup {t} /\ t \notin Rest
    BY <1>1, <1>3 DEF Alert, IsAlert
  <2>3. Alert' = Rest \cup {w} /\ w \notin Rest
    BY <1>1, <1>3, <2>1 DEF Alert, IsAlert, Busy
  <2>4. Rest \in SUBSET Threads
    BY DEF Alert
  <2> HIDE DEF Rest
  <2>5. IsFiniteSet(Rest)
    BY <1>1, <2>4, FS_Subset
  <2>6. Cardinality(Rest \cup {t}) = Cardinality(Rest) + 1
    BY <2>2, <2>5, FS_AddElement
  <2>7. Cardinality(Rest \cup {w}) = Cardinality(Rest) + 1
    BY <2>3, <2>5, FS_AddElement
  <2>8. Cardinality(Alert') = Cardinality(Alert)
    BY <2>2, <2>3, <2>6, <2>7, Zenon
  <2> QED
    BY <2>1, <2>8, <1>3 DEF Attended
<1> QED
  BY <1>2, <1>3 DEF SignalWake, Goto, Ftx!FutexWake, Ftx!FutexWakeAll, Busy

(* Every step keeps the items attended to.                                 *)
LEMMA AttendedStep ==
  ASSUME UnderLock, TypeOK, Owned, InStep, Sleepers, Unmissed, Attended, [Next]_vars
  PROVE  Attended'
<1>1. CASE UNCHANGED vars
  <2>1. Alert' = Alert
    BY <1>1 DEF vars, Alert, IsAlert
  <2> QED
    BY <1>1, <2>1 DEF vars, Attended
<1>2. ASSUME NEW t \in Consumers,
            \/ ConsumerLock(t) \/ ConsumerCheck(t) \/ WaitRecord(t) \/ WaitUnlock(t)
            \/ WaitLoad(t) \/ WaitSleep(t) \/ WaitWoken(t) \/ WaitSleepEnds(t)
            \/ WaitGiveUp(t) \/ WaitRelock(t)
      PROVE  Attended'
  <2>0. t \in Threads
    BY DEF Threads
  <2>1. CASE ConsumerLock(t)
    <3>1. OnlyMoves(t)
      BY <2>0, <2>1 DEF ConsumerLock, Goto, StartCall, Lock!Acquire, TypeOK, OnlyMoves
    <3>2. Swap(Alert, Alert', t) /\ (t \in Alert <=> IsAlert(t)) /\ (t \in Alert' <=> IsAlert(t)')
      BY <2>0, <3>1, AlertSwap
    <3> QED
      BY <2>0, <2>1, <3>2, CondVarAssumption
         DEF ConsumerLock, Goto, StartCall, Lock!Acquire, TypeOK, Attended, IsAlert, Busy, Swap
  <2>2. CASE ConsumerCheck(t)
    <3>1. OnlyMoves(t)
      BY <2>0, <2>2 DEF ConsumerCheck, Goto, Lock!Release, TypeOK, OnlyMoves
    <3>2. Swap(Alert, Alert', t) /\ (t \in Alert <=> IsAlert(t)) /\ (t \in Alert' <=> IsAlert(t)')
      BY <2>0, <3>1, AlertSwap
    <3> QED
      BY <2>0, <2>2, <3>2, CondVarAssumption
         DEF ConsumerCheck, Goto, Lock!Release, TypeOK, Attended, IsAlert, Busy, Swap
  <2>3. CASE WaitRecord(t)
    <3>1. OnlyMoves(t)
      BY <2>0, <2>3 DEF WaitRecord, Goto, TypeOK, OnlyMoves
    <3>2. Swap(Alert, Alert', t) /\ (t \in Alert <=> IsAlert(t)) /\ (t \in Alert' <=> IsAlert(t)')
      BY <2>0, <3>1, AlertSwap
    <3> QED
      BY <2>0, <2>3, <3>2, CondVarAssumption
         DEF WaitRecord, Goto, TypeOK, Attended, IsAlert, Busy, Swap
  <2>4. CASE WaitUnlock(t)
    <3>1. OnlyMoves(t)
      BY <2>0, <2>4 DEF WaitUnlock, Goto, Lock!Release, TypeOK, OnlyMoves
    <3>2. Swap(Alert, Alert', t) /\ (t \in Alert <=> IsAlert(t)) /\ (t \in Alert' <=> IsAlert(t)')
      BY <2>0, <3>1, AlertSwap
    <3> QED
      BY <2>0, <2>4, <3>2, CondVarAssumption
         DEF WaitUnlock, Goto, Lock!Release, TypeOK, Attended, IsAlert, Busy, Swap
  <2>5. CASE WaitLoad(t)
    <3>1. OnlyMoves(t)
      BY <2>0, <2>5 DEF WaitLoad, Goto, TypeOK, OnlyMoves
    <3>2. Swap(Alert, Alert', t) /\ (t \in Alert <=> IsAlert(t)) /\ (t \in Alert' <=> IsAlert(t)')
      BY <2>0, <3>1, AlertSwap
    <3> QED
      BY <2>0, <2>5, <3>2, CondVarAssumption
         DEF WaitLoad, Goto, TypeOK, Attended, IsAlert, Busy, Swap
  <2>6. CASE WaitSleep(t)
    <3>1. OnlyMoves(t)
      BY <2>0, <2>6 DEF WaitSleep, Goto, Ftx!FutexWait, Ftx!FutexRetry, TypeOK, OnlyMoves
    <3>2. Swap(Alert, Alert', t) /\ (t \in Alert <=> IsAlert(t)) /\ (t \in Alert' <=> IsAlert(t)')
      BY <2>0, <3>1, AlertSwap
    <3>3. UNCHANGED <<items, swallowed, seq>> /\ items \in Nat
      BY <2>6 DEF WaitSleep, TypeOK
    <3>4. CASE pc[t] = "wait" /\ local[t] = seq
      <4>1. Drowsy(t)
        BY <3>4 DEF Drowsy
      <4>2. CASE items = 0
        BY <3>2, <3>3, <4>2 DEF Attended, Swap
      <4>3. ASSUME items = 1, NEW p \in Threads, pc[p] \in {"signal", "one", "all"}
            PROVE  Attended'
        <5>1. p \in Alert'
          BY <3>1, <3>4, <4>3 DEF OnlyMoves, Alert, IsAlert, Busy
        <5>2. Cardinality(Alert') \in Nat /\ Cardinality(Alert') # 0
          <6>1. Alert' \in SUBSET Threads /\ IsFiniteSet(Threads)
            BY CondVarAssumption, FS_Union DEF Alert, Threads
          <6> QED
            BY <5>1, <6>1, SetSize
        <5> QED
          BY <3>3, <4>3, <5>2 DEF Attended
      <4> QED
        BY <2>0, <4>1, <4>2, <4>3 DEF Unmissed
    <3>5. CASE waitq' = waitq
      BY <2>0, <2>6, <3>2, <3>5 DEF WaitSleep, Goto, TypeOK, Attended, IsAlert, Busy, Swap
    <3> QED
      BY <2>6, <3>4, <3>5 DEF WaitSleep, Goto, Ftx!FutexWait, Ftx!FutexRetry
  <2>7. CASE WaitWoken(t)
    <3>1. OnlyMoves(t)
      BY <2>0, <2>7 DEF WaitWoken, Goto, TypeOK, OnlyMoves
    <3>2. Swap(Alert, Alert', t) /\ (t \in Alert <=> IsAlert(t)) /\ (t \in Alert' <=> IsAlert(t)')
      BY <2>0, <3>1, AlertSwap
    <3> QED
      BY <2>0, <2>7, <3>2, CondVarAssumption
         DEF WaitWoken, Goto, TypeOK, Attended, IsAlert, Busy, Swap, InStep
  <2>8. CASE WaitSleepEnds(t)
    <3>1. OnlyMoves(t)
      BY <2>0, <2>8 DEF WaitSleepEnds, Goto, Ftx!FutexEnd, TypeOK, OnlyMoves
    <3>2. Swap(Alert, Alert', t) /\ (t \in Alert <=> IsAlert(t)) /\ (t \in Alert' <=> IsAlert(t)')
      BY <2>0, <3>1, AlertSwap
    <3> QED
      BY <2>0, <2>8, <3>2, CondVarAssumption
         DEF WaitSleepEnds, Goto, Ftx!FutexEnd, TypeOK, Attended, IsAlert, Busy, Swap
  <2>9. CASE WaitGiveUp(t)
    <3>1. OnlyMoves(t)
      BY <2>0, <2>9 DEF WaitGiveUp, Goto, TypeOK, OnlyMoves
    <3>2. Swap(Alert, Alert', t) /\ (t \in Alert <=> IsAlert(t)) /\ (t \in Alert' <=> IsAlert(t)')
      BY <2>0, <3>1, AlertSwap
    <3> QED
      BY <2>0, <2>9, <3>2, CondVarAssumption
         DEF WaitGiveUp, Goto, TypeOK, Attended, IsAlert, Busy, Swap
  <2>10. CASE WaitRelock(t)
    <3>1. OnlyMoves(t)
      BY <2>0, <2>10 DEF WaitRelock, Goto, Lock!Acquire, TypeOK, OnlyMoves
    <3>2. Swap(Alert, Alert', t) /\ (t \in Alert <=> IsAlert(t)) /\ (t \in Alert' <=> IsAlert(t)')
      BY <2>0, <3>1, AlertSwap
    <3> QED
      BY <2>0, <2>10, <3>2, CondVarAssumption
         DEF WaitRelock, Goto, Lock!Acquire, TypeOK, Attended, IsAlert, Busy, Swap
  <2> QED
    BY <1>2, <2>1, <2>2, <2>3, <2>4, <2>5, <2>6, <2>7, <2>8, <2>9, <2>10
<1>3. ASSUME NEW t \in Producers,
            \/ ProducerLock(t) \/ ProducerAdd(t) \/ ProducerDone(t) \/ SignalLoad(t)
      PROVE  Attended'
  <2>0. t \in Threads
    BY DEF Threads
  <2>1. CASE ProducerLock(t)
    <3>1. OnlyMoves(t)
      BY <2>0, <2>1 DEF ProducerLock, Goto, StartCall, Lock!Acquire, TypeOK, OnlyMoves
    <3>2. Swap(Alert, Alert', t) /\ (t \in Alert <=> IsAlert(t)) /\ (t \in Alert' <=> IsAlert(t)')
      BY <2>0, <3>1, AlertSwap
    <3> QED
      BY <2>0, <2>1, <3>2, CondVarAssumption
         DEF ProducerLock, Goto, StartCall, Lock!Acquire, TypeOK, Attended, IsAlert, Busy, Swap
  <2>2. CASE ProducerAdd(t)
    <3>1. OnlyMoves(t)
      BY <2>0, <2>2 DEF ProducerAdd, Goto, Lock!Release, TypeOK, OnlyMoves
    <3>2. Swap(Alert, Alert', t) /\ (t \in Alert <=> IsAlert(t)) /\ (t \in Alert' <=> IsAlert(t)')
      BY <2>0, <3>1, AlertSwap
    <3> QED
      BY <2>0, <2>2, <3>2, CondVarAssumption
         DEF ProducerAdd, Goto, Lock!Release, TypeOK, Attended, IsAlert, Busy, Swap
  <2>3. CASE ProducerDone(t)
    <3>1. OnlyMoves(t)
      BY <2>0, <2>3 DEF ProducerDone, Goto, Lock!Release, TypeOK, OnlyMoves
    <3>2. Swap(Alert, Alert', t) /\ (t \in Alert <=> IsAlert(t)) /\ (t \in Alert' <=> IsAlert(t)')
      BY <2>0, <3>1, AlertSwap
    <3> QED
      BY <2>0, <2>3, <3>2, CondVarAssumption
         DEF ProducerDone, Goto, Lock!Release, TypeOK, Attended, IsAlert, Busy, Swap
  <2>4. CASE SignalLoad(t)
    <3>1. OnlyMoves(t)
      BY <2>0, <2>4 DEF SignalLoad, Goto, TypeOK, OnlyMoves
    <3>2. Swap(Alert, Alert', t) /\ (t \in Alert <=> IsAlert(t)) /\ (t \in Alert' <=> IsAlert(t)')
      BY <2>0, <3>1, AlertSwap
    <3> QED
      BY <2>0, <2>4, <3>2, CondVarAssumption
         DEF SignalLoad, Goto, TypeOK, Attended, IsAlert, Busy, Swap
  <2> QED
    BY <1>3, <2>1, <2>2, <2>3, <2>4
<1>4. ASSUME NEW t \in Producers, SignalStore(t) \/ SignalWake(t)
      PROVE  Attended'
  BY <1>4, StoreAttends, WakeAttends
<1> QED
  BY <1>1, <1>2, <1>3, <1>4 DEF Next

(* Every step keeps the whole invariant ...                                *)
LEMMA StepKeepsInv == ASSUME UnderLock, Inv, [Next]_vars PROVE Inv'
<1>1. TypeOK /\ Owned /\ InStep /\ Sleepers /\ Unmissed /\ Attended
  BY DEF Inv
<1>2. TypeOK' /\ Owned' /\ InStep' /\ Sleepers'
  BY <1>1, TypeStep, OwnedStep, SleepersStep, InStepStep
<1>3. Unmissed' /\ Attended'
  BY <1>1, UnmissedStep, AttendedStep
<1> QED
  BY <1>2, <1>3 DEF Inv

(* ... which holds at first.                                               *)
LEMMA InitInv == Init => Inv
<1> SUFFICES ASSUME Init PROVE Inv
  OBVIOUS
<1>1. TypeOK
  <2>1. pc \in [Threads -> Labels] /\ local \in [Threads -> Nat] /\ calls \in [Threads -> 0..MaxCalls]
    BY CondVarAssumption DEF Init, Labels
  <2> QED
    BY <2>1, Zenon DEF Init, TypeOK
<1>2. Owned /\ InStep /\ Sleepers
  BY DEF Init, Owned, InStep, Sleepers, Monitor, Waiting
<1>3. Unmissed /\ Attended
  BY DEF Init, Unmissed, Attended
<1> QED
  BY <1>1, <1>2, <1>3 DEF Inv

(* At rest nobody is alert.                                                *)
LEMMA InvImpliesNoLostSignal == Inv => NoLostSignal
<1> SUFFICES ASSUME Inv, waitq # {}, ~swallowed, \A t \in Threads : pc[t] = "idle" \/ t \in waitq
             PROVE  items = 0
  BY DEF NoLostSignal
<1>1. Alert = {}
  BY DEF Inv, Sleepers, Alert, IsAlert, Busy
<1>2. Cardinality({}) = 0
  BY FS_EmptySet
<1> QED
  BY <1>1, <1>2 DEF Inv, Attended, TypeOK

(* The variables keep their types, whether producers signal under the      *)
(* mutex or not.                                                           *)
THEOREM TypeCorrect == Spec => []TypeOK
<1>1. Init => TypeOK
  BY InitInv DEF Inv
<1>2. TypeOK /\ [Next]_vars => TypeOK'
  BY TypeStep
<1> QED
  BY <1>1, <1>2, PTL DEF Spec

(* cvarSignal and cvarBroadcast, called before the mutex is released, lose *)
(* no signal, however they interleave with cvarWaitTimeout: when everyone  *)
(* is out of the monitor or asleep, nobody sleeps next to an item.         *)
THEOREM NoLostSignalHolds == Spec => [](UnderLock => NoLostSignal)
<1> DEFINE Kept == UnderLock => Inv
<1>1. Init => Kept
  BY InitInv
<1>2. Kept /\ [Next]_vars => Kept'
  BY StepKeepsInv
<1>3. Kept => (UnderLock => NoLostSignal)
  BY InvImpliesNoLostSignal
<1> HIDE DEF Kept
<1>4. Spec => []Kept
  BY <1>1, <1>2, PTL DEF Spec
<1> QED
  BY <1>3, <1>4, PTL
============================================================================
