---------------------------- MODULE MutexProofs ----------------------------
(***************************************************************************)
(* Proofs about Mutex: type correctness, mutual exclusion, the             *)
(* implementation of the abstract lock and, as long as no call has given   *)
(* up, that no wake-up is lost.                                            *)
(***************************************************************************)
EXTENDS Mutex, TLAPS

(* TypeOK is inductive: the mutex value never leaves 0..2, whatever the    *)
(* interleaving of marks, subtractions and stores.                         *)
THEOREM TypeCorrect == Spec => []TypeOK
<1>1. Init => TypeOK
  <2>1. Init => expired \in BOOLEAN
    BY Zenon DEF Init
  <2> QED
    BY <2>1, MutexAssumption DEF Init, TypeOK, Labels
<1>2. TypeOK /\ [Next]_vars => TypeOK'
  <2> SUFFICES ASSUME TypeOK, [Next]_vars PROVE TypeOK'
    OBVIOUS
  <2> USE MutexAssumption DEF TypeOK, Labels, Goto
  <2>1. CASE UNCHANGED vars
    BY <2>1 DEF vars
  <2>2. ASSUME NEW t \in Threads, Run(t) PROVE TypeOK'
    <3>1. CASE AcquireFast(t)
      BY <3>1 DEF AcquireFast
    <3>2. CASE AcquireMark(t)
      BY <3>2 DEF AcquireMark
    <3>3. CASE AcquireSpin(t)
      BY <3>3 DEF AcquireSpin
    <3>4. CASE AcquireSleep(t)
      BY <3>4 DEF AcquireSleep, Ftx!FutexWait, Ftx!FutexRetry
    <3>5. CASE AcquireWoken(t)
      BY <3>5 DEF AcquireWoken
    <3>6. CASE AcquireReload(t)
      BY <3>6 DEF AcquireReload
    <3>7. CASE AcquireContinue(t)
      BY <3>7 DEF AcquireContinue
    <3>8. CASE AcquireRetry(t)
      BY <3>8 DEF AcquireRetry, AcquireRetryWith
    <3>9. CASE TryAcquireCas(t)
      BY <3>9 DEF TryAcquireCas
    <3>10. CASE ReleaseSub(t)
      BY <3>10 DEF ReleaseSub
    <3>11. CASE ReleaseSet(t)
      BY <3>11 DEF ReleaseSet
    <3>12. CASE ReleaseWake(t)
      BY <3>12 DEF ReleaseWake, Ftx!FutexWake
    <3> QED
      BY <2>2, <3>1, <3>2, <3>3, <3>4, <3>5, <3>6, <3>7, <3>8, <3>9, <3>10, <3>11, <3>12
      DEF Run
  <2>3. ASSUME NEW t \in Threads, Environment(t) PROVE TypeOK'
    <3>1. CASE AcquireLoad(t)
      BY <3>1 DEF AcquireLoad
    <3>2. CASE TryAcquireLoad(t)
      BY <3>2 DEF TryAcquireLoad
    <3>3. CASE AcquireGiveUp(t)
      BY <3>3 DEF AcquireGiveUp
    <3>4. CASE AcquireSleepEnds(t)
      BY <3>4 DEF AcquireSleepEnds, Ftx!FutexEnd
    <3>5. CASE AcquireMarkSpurious(t)
      BY <3>5 DEF AcquireMarkSpurious
    <3> QED
      BY <2>3, <3>1, <3>2, <3>3, <3>4, <3>5 DEF Environment
  <2> QED
    BY <2>1, <2>2, <2>3 DEF Next
<1> QED
  BY <1>1, <1>2, PTL DEF Spec
----------------------------------------------------------------------------

(* What each step does to the threads inside the mutex: it leaves them and *)
(* the zeroness of the value alone, or it is one thread entering at value  *)
(* 0 or one leaving with value 0.  Everything below rests on it.           *)
Enter(t) ==
  /\ val = 0 /\ val' # 0
  /\ ~Holding(t) /\ Holding(t)'
  /\ \A u \in Threads \ {t} : Holding(u)' = Holding(u)

Leave(t) ==
  /\ val' = 0
  /\ Holding(t) /\ ~Holding(t)'
  /\ \A u \in Threads \ {t} : Holding(u)' = Holding(u)

Stay ==
  /\ val' = 0 <=> val = 0
  /\ \A u \in Threads : Holding(u)' = Holding(u)

(* A thread enters only by a compare-exchange that finds 0, and leaves only *)
(* by the subtraction 1 -> 0 or the store of 0.                             *)
LEMMA StepKinds ==
  ASSUME TypeOK, MutualExclusion, [Next]_vars
  PROVE  Stay \/ \E t \in Threads : Enter(t) \/ Leave(t)
<1> USE DEF TypeOK, Labels, Goto, Holding
<1>1. CASE UNCHANGED vars
  BY <1>1 DEF vars, Stay
<1>2. ASSUME NEW t \in Threads, Run(t)
      PROVE  Stay \/ Enter(t) \/ Leave(t)
  <2>1. CASE AcquireFast(t)
    BY <2>1 DEF AcquireFast, Stay, Enter
  <2>2. CASE AcquireMark(t)
    BY <2>2 DEF AcquireMark, Stay
  <2>3. CASE AcquireSpin(t)
    BY <2>3 DEF AcquireSpin, Stay
  <2>4. CASE AcquireSleep(t)
    BY <2>4 DEF AcquireSleep, Stay
  <2>5. CASE AcquireWoken(t)
    BY <2>5 DEF AcquireWoken, Stay
  <2>6. CASE AcquireReload(t)
    BY <2>6 DEF AcquireReload, Stay
  <2>7. CASE AcquireContinue(t)
    BY <2>7 DEF AcquireContinue, Stay
  <2>8. CASE AcquireRetry(t)
    BY <2>8 DEF AcquireRetry, AcquireRetryWith, Stay, Enter
  <2>9. CASE TryAcquireCas(t)
    BY <2>9 DEF TryAcquireCas, Stay, Enter
  <2>10. CASE ReleaseSub(t)
    BY <2>10 DEF ReleaseSub, Stay, Leave
  <2>11. CASE ReleaseSet(t)
    BY <2>11 DEF ReleaseSet, Leave
  <2>12. CASE ReleaseWake(t)
    BY <2>12 DEF ReleaseWake, Stay
  <2> QED
    BY <1>2, <2>1, <2>2, <2>3, <2>4, <2>5, <2>6, <2>7, <2>8, <2>9, <2>10, <2>11, <2>12
    DEF Run
<1>3. ASSUME NEW t \in Threads, Environment(t)
      PROVE  Stay
  BY <1>3 DEF Environment, AcquireLoad, TryAcquireLoad, AcquireGiveUp, AcquireSleepEnds,
              AcquireMarkSpurious, Stay
<1> QED
  BY <1>1, <1>2, <1>3 DEF Next

(* Mutual exclusion, for any number of threads, spins, calls and timeouts. *)
(* With TypeOK it is inductive: entering needs value 0, when nobody holds  *)
(* the mutex, and the one holder that leaves is the one that stores 0.     *)
THEOREM MutualExclusionHolds == Spec => []MutualExclusion
<1>1. Init => MutualExclusion
  BY DEF Init, MutualExclusion, Holding
<1>2. TypeOK /\ MutualExclusion /\ [Next]_vars => MutualExclusion'
  <2> SUFFICES ASSUME TypeOK, MutualExclusion, [Next]_vars
               PROVE  MutualExclusion'
    OBVIOUS
  <2>1. CASE Stay
    BY <2>1 DEF Stay, MutualExclusion
  <2>2. ASSUME NEW t \in Threads, Enter(t) PROVE MutualExclusion'
    BY <2>2 DEF Enter, MutualExclusion
  <2>3. ASSUME NEW t \in Threads, Leave(t) PROVE MutualExclusion'
    BY <2>3 DEF Leave, MutualExclusion
  <2> QED
    BY <2>1, <2>2, <2>3, StepKinds
<1> QED
  BY <1>1, <1>2, TypeCorrect, PTL DEF Spec
----------------------------------------------------------------------------

(* The owner the refinement mapping picks is the thread inside the mutex.  *)
LEMMA OwnerIs ==
  ASSUME MutualExclusion
  PROVE  /\ \A t \in Threads : Holding(t) => Owner = t
         /\ val = 0 => Owner = NoThread
BY DEF MutualExclusion, Owner

(* The mutex implements AbstractLock: every step is the abstract acquire   *)
(* or release of one thread, or changes nothing the abstract lock sees.    *)
THEOREM MutexImplementsLock == Spec => ImplementsLock
<1>1. Init => Lock!Init
  BY DEF Init, Lock!Init, Owner, Holding
<1>2. TypeOK /\ MutualExclusion /\ MutualExclusion' /\ [Next]_vars => [Lock!Next]_Owner
  <2> SUFFICES ASSUME TypeOK, MutualExclusion, MutualExclusion', [Next]_vars
               PROVE  [Lock!Next]_Owner
    OBVIOUS
  <2>1. /\ \A t \in Threads : Holding(t) => Owner = t
        /\ val = 0 => Owner = NoThread
    BY OwnerIs
  <2>2. /\ \A t \in Threads : Holding(t)' => Owner' = t
        /\ val' = 0 => Owner' = NoThread
    BY DEF MutualExclusion, Owner
  <2>3. CASE Stay
    BY <2>1, <2>2, <2>3 DEF Stay, MutualExclusion
  <2>4. ASSUME NEW t \in Threads, Enter(t) PROVE Lock!Acquire(t)
    BY <2>1, <2>2, <2>4 DEF Enter, Lock!Acquire
  <2>5. ASSUME NEW t \in Threads, Leave(t) PROVE Lock!Release(t)
    BY <2>1, <2>2, <2>5 DEF Leave, Lock!Release
  <2> QED
    BY <2>3, <2>4, <2>5, StepKinds DEF Lock!Next
<1> QED
  BY <1>1, <1>2, TypeCorrect, MutualExclusionHolds, PTL DEF Spec, ImplementsLock, Lock!Spec
----------------------------------------------------------------------------

(* Only a thread inside futexWait is on the futex's queue.                 *)
SleepersSleep == \A t \in waitq : pc[t] = "sleep"

Watching(t) ==
  \/ pc[t] \in {"relset", "relwake", "loop", "spin", "reload", "timeout", "retry"}
  \/ pc[t] = "sleep" /\ t \notin waitq

(* SleepersSleep is inductive, so a thread that futexWake picks is awake   *)
(* in mutexTryAcquireTimeout and nowhere else.                             *)
LEMMA SleepersSleepHolds == Spec => []SleepersSleep
<1>1. Init => SleepersSleep
  BY DEF Init, SleepersSleep
<1>2. TypeOK /\ SleepersSleep /\ [Next]_vars => SleepersSleep'
  <2> SUFFICES ASSUME TypeOK, SleepersSleep, [Next]_vars
               PROVE  SleepersSleep'
    OBVIOUS
  <2> USE DEF TypeOK, SleepersSleep, Goto
  <2>1. CASE UNCHANGED vars
    BY <2>1 DEF vars
  <2>2. ASSUME NEW t \in Threads, AcquireSleep(t) PROVE SleepersSleep'
    BY <2>2 DEF AcquireSleep, Ftx!FutexWait, Ftx!FutexRetry
  <2>3. ASSUME NEW t \in Threads, AcquireSleepEnds(t) \/ ReleaseWake(t) PROVE SleepersSleep'
    BY <2>3 DEF AcquireSleepEnds, Ftx!FutexEnd, ReleaseWake, Ftx!FutexWake
  <2>4. ASSUME NEW t \in Threads, AcquireWoken(t) PROVE SleepersSleep'
    BY <2>4 DEF AcquireWoken
  <2>5. ASSUME NEW t \in Threads, Run(t) \/ Environment(t),
               waitq' = waitq, pc[t] # "sleep"
        PROVE  SleepersSleep'
    <3>1. \A u \in Threads \ {t} : pc'[u] = pc[u]
      BY <2>5 DEF Run, Environment, AcquireFast, AcquireMark, AcquireSpin, AcquireSleep,
        AcquireWoken, AcquireReload, AcquireContinue, AcquireRetry, AcquireRetryWith,
        TryAcquireCas, ReleaseSub, ReleaseSet, ReleaseWake, AcquireLoad, TryAcquireLoad,
        AcquireGiveUp, AcquireSleepEnds, AcquireMarkSpurious
    <3> QED
      BY <2>5, <3>1
  <2>6. ASSUME NEW t \in Threads, Run(t) \/ Environment(t)
        PROVE  \/ AcquireSleep(t) \/ AcquireSleepEnds(t) \/ ReleaseWake(t) \/ AcquireWoken(t)
               \/ waitq' = waitq /\ pc[t] # "sleep"
    BY <2>6 DEF Run, Environment, AcquireFast, AcquireMark, AcquireSpin,
      AcquireReload, AcquireContinue, AcquireRetry, AcquireRetryWith,
      TryAcquireCas, ReleaseSub, ReleaseSet, AcquireLoad, TryAcquireLoad,
      AcquireGiveUp, AcquireMarkSpurious
  <2> QED
    BY <2>1, <2>2, <2>3, <2>4, <2>5, <2>6 DEF Next
<1> QED
  BY <1>1, <1>2, TypeCorrect, PTL DEF Spec

(* No wake-up is lost while no call has given up, for any number of        *)
(* threads.  The proviso is needed: a caller that gives up after futexWake *)
(* picked it takes the wake-up with it.                                    *)
THEOREM NoLostWakeupHolds == Spec => []NoLostWakeup
<1>1. Init => NoLostWakeup
  BY DEF Init, NoLostWakeup
<1>2. TypeOK /\ SleepersSleep /\ NoLostWakeup /\ [Next]_vars => NoLostWakeup'
  <2> SUFFICES ASSUME TypeOK, SleepersSleep, NoLostWakeup, [Next]_vars
               PROVE  NoLostWakeup'
    OBVIOUS
  <2>0. ~expired /\ waitq # {} => val = 2 \/ \E u \in Threads : Watching(u)
    BY DEF NoLostWakeup, Watching
  <2>00. SUFFICES ~expired' /\ waitq' # {} => val' = 2 \/ \E u \in Threads : Watching(u)'
    BY DEF NoLostWakeup, Watching
  <2> USE <2>0 DEF TypeOK, Goto, Watching
  <2>1. CASE UNCHANGED vars
    BY <2>1 DEF vars
  <2>2. ASSUME NEW t \in Threads, Run(t)
        PROVE  ~expired' /\ waitq' # {} => val' = 2 \/ \E u \in Threads : Watching(u)'
    <3>1. CASE AcquireFast(t)
      BY <3>1 DEF AcquireFast
    <3>2. CASE AcquireMark(t)
      BY <3>2 DEF AcquireMark
    <3>3. CASE AcquireSpin(t)
      BY <3>3 DEF AcquireSpin
    <3>4. CASE AcquireSleep(t)
      BY <3>4 DEF AcquireSleep, Ftx!FutexWait, Ftx!FutexRetry
    <3>5. CASE AcquireWoken(t)
      BY <3>5 DEF AcquireWoken
    <3>6. CASE AcquireReload(t)
      BY <3>6 DEF AcquireReload
    <3>7. CASE AcquireContinue(t)
      BY <3>7 DEF AcquireContinue
    <3>8. CASE AcquireRetry(t)
      BY <3>8 DEF AcquireRetry, AcquireRetryWith
    <3>9. CASE TryAcquireCas(t)
      BY <3>9 DEF TryAcquireCas
    <3>10. CASE ReleaseSub(t)
      BY <3>10 DEF ReleaseSub
    <3>11. CASE ReleaseSet(t)
      BY <3>11 DEF ReleaseSet
    <3>12. CASE ReleaseWake(t)
      BY <3>12 DEF ReleaseWake, Ftx!FutexWake, SleepersSleep
    <3> QED
      BY <2>2, <3>1, <3>2, <3>3, <3>4, <3>5, <3>6, <3>7, <3>8, <3>9, <3>10, <3>11, <3>12
      DEF Run
  <2>3. ASSUME NEW t \in Threads, Environment(t)
        PROVE  ~expired' /\ waitq' # {} => val' = 2 \/ \E u \in Threads : Watching(u)'
    <3>1. CASE AcquireLoad(t) \/ TryAcquireLoad(t)
      BY <3>1 DEF AcquireLoad, TryAcquireLoad
    <3>2. CASE AcquireSleepEnds(t) \/ AcquireMarkSpurious(t)
      BY <3>2 DEF AcquireSleepEnds, AcquireMarkSpurious, Ftx!FutexEnd
    <3> QED
      BY <2>3, <3>1, <3>2 DEF Environment, AcquireGiveUp
  <2> QED
    BY <2>1, <2>2, <2>3 DEF Next
<1> QED
  BY <1>1, <1>2, TypeCorrect, SleepersSleepHolds, PTL DEF Spec
============================================================================
