---------------------------- MODULE EventProofs ----------------------------
(***************************************************************************)
(* Proofs about Event, for any number of waiters and signalers: no token   *)
(* is left next to a sleeper, as long as none is taken from under another  *)
(* waiter.                                                                 *)
(***************************************************************************)
EXTENDS Event, FiniteSetTheorems, TLAPS

(***************************************************************************)
(* How large a set is, and how that changes when one member comes or goes. *)
(***************************************************************************)
(* The sizes of A and B, which differ at most in whether t is a member.    *)
Swap(A, B, t) ==
  /\ Cardinality(A) \in Nat /\ Cardinality(B) \in Nat
  /\ t \in A /\ t \in B => Cardinality(B) = Cardinality(A)
  /\ t \notin A /\ t \notin B => Cardinality(B) = Cardinality(A)
  /\ t \notin A /\ t \in B => Cardinality(B) = Cardinality(A) + 1
  /\ t \in A /\ t \notin B => Cardinality(A) = Cardinality(B) + 1

(* At most t comes or goes.                                                *)
LEMMA SetSwap ==
  ASSUME NEW T, IsFiniteSet(T), NEW A \in SUBSET T, NEW B \in SUBSET T, NEW t,
         \A u \in T : u # t => (u \in A <=> u \in B)
  PROVE  Swap(A, B, t)
<1>1. IsFiniteSet(A) /\ IsFiniteSet(B)
  BY FS_Subset
<1>2. Cardinality(A) \in Nat /\ Cardinality(B) \in Nat
  BY <1>1, FS_CardinalityType
<1>3. (t \in A <=> t \in B) => A = B
  OBVIOUS
<1>4. ASSUME t \notin A, t \in B
      PROVE  Cardinality(B) = Cardinality(A) + 1
  <2>1. B = A \cup {t}
    BY <1>4
  <2> QED
    BY <1>1, <1>4, <2>1, FS_AddElement
<1>5. ASSUME t \in A, t \notin B
      PROVE  Cardinality(A) = Cardinality(B) + 1
  <2>1. A = B \cup {t}
    BY <1>5
  <2> QED
    BY <1>1, <1>5, <2>1, FS_AddElement
<1> QED
  BY <1>2, <1>3, <1>4, <1>5 DEF Swap

(* A subset of a finite set has no members exactly if its size is 0.       *)
LEMMA SetSize ==
  ASSUME NEW T, IsFiniteSet(T), NEW A \in SUBSET T
  PROVE  Cardinality(A) \in Nat /\ (Cardinality(A) = 0 <=> A = {})
BY FS_Subset, FS_CardinalityType, FS_EmptySet

(* Sets with nothing in common add up.                                     *)
LEMMA DisjointSum ==
  ASSUME NEW A, NEW B, IsFiniteSet(A), IsFiniteSet(B), A \cap B = {}
  PROVE  IsFiniteSet(A \cup B) /\ Cardinality(A \cup B) = Cardinality(A) + Cardinality(B)
<1>1. Cardinality(A) \in Nat /\ Cardinality(B) \in Nat
  BY FS_CardinalityType
<1>2. Cardinality(A \cap B) = 0
  <2>1. Cardinality({}) = 0
    BY FS_EmptySet
  <2> QED
    BY <2>1
<1>3. /\ IsFiniteSet(A \cup B)
      /\ Cardinality(A \cup B) = Cardinality(A) + Cardinality(B) - Cardinality(A \cap B)
  BY FS_Union
<1> QED
  BY <1>1, <1>2, <1>3

(* As many tickets for each member of P as f says.                         *)
Tickets(P, f) == UNION {{p} \X (1..f[p]) : p \in P}

(* One member with its tickets.                                            *)
LEMMA TicketsOf ==
  ASSUME NEW t, NEW n \in Nat
  PROVE  IsFiniteSet({t} \X (1..n)) /\ Cardinality({t} \X (1..n)) = n
<1>1. IsFiniteSet({t}) /\ Cardinality({t}) = 1
  BY FS_Singleton
<1> DEFINE N == 1..n
<1>2. IsFiniteSet(N) /\ Cardinality(N) = n
  BY FS_Interval
<1> HIDE DEF N
<1>3. IsFiniteSet({t} \X N) /\ Cardinality({t} \X N) = Cardinality({t}) * Cardinality(N)
  BY <1>1, <1>2, FS_Product
<1>4. Cardinality({t} \X N) = 1 * n
  BY <1>1, <1>2, <1>3, Zenon
<1>5. 1 * n = n
  OBVIOUS
<1>6. IsFiniteSet({t} \X N) /\ Cardinality({t} \X N) = n
  BY <1>3, <1>4, <1>5, Zenon
<1> QED
  BY <1>6 DEF N

(* A set of tickets S becomes R when one member's n tickets become m.      *)
Traded(S, n, R, m) ==
  /\ Cardinality(S) \in Nat /\ IsFiniteSet(R) /\ Cardinality(R) \in Nat
  /\ Cardinality(R) + n = Cardinality(S) + m

(* Only t joins or leaves, or has another number of tickets.               *)
LEMMA TicketsTraded ==
  ASSUME NEW P, NEW f, NEW Q, NEW g, NEW t, NEW n \in Nat, NEW m \in Nat,
         IsFiniteSet(Tickets(P, f)),
         \A p : p # t => (p \in P <=> p \in Q) /\ (p \in P => f[p] = g[p]),
         n = IF t \in P THEN f[t] ELSE 0,
         m = IF t \in Q THEN g[t] ELSE 0
  PROVE  Traded(Tickets(P, f), n, Tickets(Q, g), m)
<1> DEFINE S == Tickets(P, f)
           R == Tickets(Q, g)
           Rest == {q \in S : q \notin {t} \X (1..n)}
           A == {t} \X (1..n)
           B == {t} \X (1..m)
<1>1. \A q : q \in S <=> \E p \in P : q \in {p} \X (1..f[p])
  BY DEF Tickets
<1>2. \A q : q \in R <=> \E p \in Q : q \in {p} \X (1..g[p])
  BY DEF Tickets
<1>3. \A q : q \in Rest <=> \E p \in P : p # t /\ q \in {p} \X (1..f[p])
  BY <1>1
<1>4. S = Rest \cup A /\ Rest \cap A = {}
  <2>1. A \subseteq S
    BY <1>1
  <2> QED
    BY <2>1
<1>5. R = Rest \cup B /\ Rest \cap B = {}
  <2>1. ASSUME NEW q PROVE q \in R <=> q \in Rest \/ q \in B
    <3>1. CASE q \in R
      BY <1>2, <1>3, <3>1
    <3>2. CASE q \in Rest
      BY <1>2, <1>3, <3>2
    <3>3. CASE q \in B
      BY <1>2, <3>3
    <3> QED
      BY <3>1, <3>2, <3>3
  <2>2. Rest \cap B = {}
    BY <1>3
  <2> QED
    BY <2>1, <2>2
<1>6. IsFiniteSet(A) /\ Cardinality(A) = n /\ IsFiniteSet(B) /\ Cardinality(B) = m
  BY TicketsOf
<1>7. Rest \in SUBSET S /\ IsFiniteSet(S)
  OBVIOUS
<1> HIDE DEF S, R, Rest, A, B
<1>8. IsFiniteSet(Rest) /\ Cardinality(Rest) \in Nat
  BY <1>7, FS_Subset, FS_CardinalityType
<1>9. Cardinality(S) = Cardinality(Rest) + n
  <2>1. Cardinality(Rest \cup A) = Cardinality(Rest) + Cardinality(A)
    BY <1>4, <1>6, <1>8, DisjointSum
  <2> QED
    BY <1>4, <1>6, <2>1, Zenon
<1>10. IsFiniteSet(R) /\ Cardinality(R) = Cardinality(Rest) + m
  <2>1. /\ IsFiniteSet(Rest \cup B)
        /\ Cardinality(Rest \cup B) = Cardinality(Rest) + Cardinality(B)
    BY <1>5, <1>6, <1>8, DisjointSum
  <2> QED
    BY <1>5, <1>6, <2>1, Zenon
<1>11. Traded(S, n, R, m)
  BY <1>8, <1>9, <1>10 DEF Traded
<1> QED
  BY <1>11 DEF S, R

-----------------------------------------------------------------------------
(* Where eventWaitTimeout, and where eventSignalAll, may be.               *)
Waiting == {"wait", "announce", "sleep", "asleep", "undo"}
SweepLabels == {"all0", "all", "late", "lateset", "allwake"}

(* Only waiters wait, and sleepers are at the line where they sleep.       *)
InStep ==
  /\ \A t \in Threads : pc[t] \in Waiting => t \in Waiters
  /\ \A t \in waitq : t \in Waiters /\ pc[t] = "asleep"

(* Someone is in eventSignalAll and has its futexWakeAll still to come.    *)
Sweeping == \E t \in Threads : pc[t] \in SweepLabels

(* Threads that have announced themselves and are about to sleep.          *)
Sleepy == {t \in Threads : pc[t] = "sleep"}

(* Threads that will look at the value before they sleep or return.        *)
Awake == {t \in Threads : pc[t] \in Waiting /\ t \notin waitq}

(* Signalers that found no waiter and will look for one again.             *)
Checking == {t \in Threads : pc[t] = "manycheck" /\ count[t] = 0 /\ old[t] = 0}

(* The announcements that signals have taken: with the tokens for them     *)
(* still to be added, and with the wake-ups for them still to come.        *)
Promising == {"many", "all", "lateset"}
Owing == {"manycheck", "manywake"}
Promised == Tickets({t \in Threads : pc[t] \in Promising}, count)
Due == Tickets({t \in Threads : pc[t] \in Owing}, count)

(* A locked event stays locked.                                            *)
LockStays == \A t \in Threads : pc[t] = "late" /\ old[t] < 0 => val < 0

(* While there is no token, whoever is about to sleep is counted, or will  *)
(* find a token.                                                           *)
SleepyCounted == val = 0 => Cardinality(Sleepy) <= waiters + Cardinality(Promised)

(* Every sleeper is counted, or has a wake-up on its way, ...              *)
SleepersCounted ==
  /\ Cardinality(waitq) <= waiters + Cardinality(Promised) + Cardinality(Due)
  /\ val = 0 => Cardinality(Sleepy) + Cardinality(waitq)
                  <= waiters + Cardinality(Promised) + Cardinality(Due)

(* ... and every token has someone to see to it, while somebody sleeps.    *)
Attended ==
  waitq # {} =>
    /\ val >= 0
    /\ \/ val <= Cardinality(Due) + Cardinality(Checking) + Cardinality(Awake)
       \/ Cardinality(waitq) <= Cardinality(Promised) + Cardinality(Due)

(* The invariant: all that, as long as nothing has been stolen.            *)
Safe == ~stolen => /\ LockStays /\ SleepyCounted
                   /\ ~Sweeping => SleepersCounted /\ Attended

Finite == IsFiniteSet(Promised) /\ IsFiniteSet(Due)

Inv == TypeOK /\ InStep /\ Finite /\ Safe
----------------------------------------------------------------------------

(* Every step keeps the types.                                             *)
LEMMA TypeStep == TypeOK /\ InStep /\ [Next]_vars => TypeOK'
<1> SUFFICES ASSUME TypeOK, InStep, [Next]_vars PROVE TypeOK'
  OBVIOUS
<1> USE DEF TypeOK, Labels, Goto, StartCall, Return
<1>1. CASE UNCHANGED vars
  BY <1>1 DEF vars
<1>2. ASSUME NEW t \in Threads, RunWait(t)
      PROVE  TypeOK'
  <2>1. CASE WaitTake(t)
    <3>1. stolen' \in BOOLEAN
      BY <2>1, Zenon DEF WaitTake
    <3>2. val' \in Int /\ val' >= -1
      BY <2>1 DEF WaitTake
    <3>3. pc' \in [Threads -> Labels] /\ UNCHANGED <<waitq, waiters, count, old, calls>>
      BY <2>1 DEF WaitTake
    <3> QED
      BY <3>1, <3>2, <3>3
  <2>4. CASE WaitLoad(t) \/ WaitAnnounce(t) \/ WaitWoken(t)
    BY <2>4 DEF WaitLoad, WaitAnnounce, WaitWoken
  <2>2. CASE WaitSleep(t)
    <3>1. t \in Waiters
      BY <2>2 DEF WaitSleep, InStep, Waiting
    <3> QED
      BY <2>2, <3>1 DEF WaitSleep, Ftx!FutexWait, Ftx!FutexRetry
  <2>3. CASE WaitUndo(t)
    BY <2>3 DEF WaitUndo
  <2> QED
    BY <1>2, <2>1, <2>2, <2>3, <2>4 DEF RunWait
<1>3. ASSUME NEW t \in Threads, RunSignal(t)
      PROVE  TypeOK'
  <2>1. CASE SignalManySet(t)
    BY <2>1 DEF SignalManySet
  <2>2. CASE SignalManyRecheck(t)
    BY <2>2 DEF SignalManyRecheck
  <2>3. CASE SignalManyWake(t) \/ SignalAllWake(t)
    BY <2>3 DEF SignalManyWake, SignalAllWake, Ftx!FutexWakeMany, Ftx!FutexWakeAll
  <2>4. CASE SignalLockAll(t) \/ SignalAllLate(t)
    BY <2>4 DEF SignalLockAll, ClaimAll, SignalAllLate
  <2>5. CASE SignalAllSet(t) \/ SignalAllLateSet(t)
    BY <2>5 DEF SignalAllSet, SignalAllLateSet
  <2> QED
    BY <1>3, <2>1, <2>2, <2>3, <2>4, <2>5 DEF RunSignal
<1>4. ASSUME NEW t \in Threads, Environment(t)
      PROVE  TypeOK'
  <2>1. CASE Wait(t) \/ WaitGiveUp(t)
    BY <2>1 DEF Wait, WaitGiveUp
  <2>2. CASE WaitSleepTimeout(t) \/ WaitSleepError(t)
    BY <2>2 DEF WaitSleepTimeout, WaitSleepError, Ftx!FutexEnd
  <2>3. CASE SignalMany(t)
    <3>1. PICK n \in Counts :
            LET c == IF n < waiters THEN n ELSE waiters
            IN  waiters' = waiters - c /\ count' = [count EXCEPT ![t] = c]
      BY <2>3 DEF SignalMany
    <3>2. n \in Nat
      BY EventAssumption
    <3> QED
      BY <2>3, <3>1, <3>2 DEF SignalMany
  <2>4. CASE SignalAll(t)
    BY <2>4 DEF SignalAll, ClaimAll
  <2>5. CASE SignalLock(t)
    BY <2>5 DEF SignalLock
  <2>6. CASE Reset(t)
    <3>1. stolen' \in BOOLEAN
      BY <2>6, Zenon DEF Reset
    <3> QED
      BY <2>6, <3>1 DEF Reset
  <2> QED
    BY <1>4, <2>1, <2>2, <2>3, <2>4, <2>5, <2>6 DEF Environment
<1> QED
  BY <1>1, <1>2, <1>3, <1>4 DEF Next

(* Every step keeps the threads in step with the futex.                    *)
LEMMA InStepStep == TypeOK /\ InStep /\ [Next]_vars => InStep'
<1> SUFFICES ASSUME TypeOK, InStep, [Next]_vars PROVE InStep'
  OBVIOUS
<1>0. Timed \subseteq Waiters /\ Waiters \subseteq Threads
  BY EventAssumption DEF Threads
<1> USE DEF TypeOK, InStep, Waiting, Goto, Return
<1>1. CASE UNCHANGED vars
  BY <1>1 DEF vars
<1>2. ASSUME NEW t \in Threads, RunWait(t)
      PROVE  InStep'
  <2>1. CASE WaitTake(t) \/ WaitLoad(t) \/ WaitAnnounce(t) \/ WaitWoken(t) \/ WaitUndo(t)
    BY <2>1, <1>0 DEF WaitTake, WaitLoad, WaitAnnounce, WaitWoken, WaitUndo
  <2>2. CASE WaitSleep(t)
    BY <2>2, <1>0 DEF WaitSleep, Ftx!FutexWait, Ftx!FutexRetry
  <2> QED
    BY <1>2, <2>1, <2>2 DEF RunWait
<1>3. ASSUME NEW t \in Threads, RunSignal(t)
      PROVE  InStep'
  <2>1. waitq' \subseteq waitq
    BY <1>3 DEF RunSignal, SignalManySet, SignalManyRecheck, SignalManyWake, SignalLockAll,
                ClaimAll, SignalAllSet, SignalAllLate, SignalAllLateSet, SignalAllWake,
                Ftx!FutexWakeMany, Ftx!FutexWakeAll
  <2>2. PICK to \in Labels \ Waiting : pc[t] \notin Waiting /\ pc' = [pc EXCEPT ![t] = to]
    BY <1>3 DEF RunSignal, SignalManySet, SignalManyRecheck, SignalManyWake, SignalLockAll,
                ClaimAll, SignalAllSet, SignalAllLate, SignalAllLateSet, SignalAllWake, Labels
  <2> QED
    BY <1>0, <2>1, <2>2
<1>4. ASSUME NEW t \in Threads, Environment(t)
      PROVE  InStep'
  <2>1. CASE (t \in Waiters /\ Wait(t)) \/ WaitGiveUp(t)
    BY <2>1, <1>0 DEF Wait, WaitGiveUp
  <2>2. CASE WaitSleepTimeout(t) \/ WaitSleepError(t)
    BY <2>2, <1>0 DEF WaitSleepTimeout, WaitSleepError, Ftx!FutexEnd
  <2>3. CASE SignalMany(t) \/ SignalAll(t) \/ SignalLock(t) \/ Reset(t)
    BY <2>3, <1>0 DEF SignalMany, SignalAll, ClaimAll, SignalLock, Reset
  <2> QED
    BY <1>4, <2>1, <2>2, <2>3 DEF Environment
<1> QED
  BY <1>1, <1>2, <1>3, <1>4 DEF Next

(* 1 or 0; what t has of the tickets of the threads at S.                  *)
One(b) == IF b THEN 1 ELSE 0
Share(t, S) == IF pc[t] \in S THEN count[t] ELSE 0

(* Only t moves ...                                                        *)
OthersStay(t) ==
  \A u \in Threads \ {t} : pc'[u] = pc[u] /\ count'[u] = count[u] /\ old'[u] = old[u]

(* ... and only t falls asleep or wakes up.                                *)
OnlyMoves(t) ==
  \A u \in Threads \ {t} :
    /\ pc'[u] = pc[u] /\ count'[u] = count[u] /\ old'[u] = old[u]
    /\ u \in waitq' <=> u \in waitq

(* Whether t is in a set decides how the size of the set changes.          *)
LEMMA OneTraded ==
  ASSUME NEW T, IsFiniteSet(T), NEW A \in SUBSET T, NEW B \in SUBSET T, NEW t,
         \A u \in T : u # t => (u \in A <=> u \in B)
  PROVE  Traded(A, One(t \in A), B, One(t \in B))
<1>1. Swap(A, B, t)
  BY SetSwap
<1>2. IsFiniteSet(B)
  BY FS_Subset
<1> QED
  BY <1>1, <1>2 DEF Swap, Traded, One

(* When only t moves, each number changes by what t is before and after.   *)
LEMMA StayChanges ==
  ASSUME TypeOK, TypeOK', Finite, NEW t \in Threads, OthersStay(t)
  PROVE  /\ Traded(Sleepy, One(t \in Sleepy), Sleepy', One(t \in Sleepy'))
         /\ Traded(Checking, One(t \in Checking), Checking', One(t \in Checking'))
         /\ Traded(Promised, Share(t, Promising), Promised', Share(t, Promising)')
         /\ Traded(Due, Share(t, Owing), Due', Share(t, Owing)')
<1>1. IsFiniteSet(Threads)
  BY EventAssumption, FS_Union DEF Threads
<1>2. Traded(Sleepy, One(t \in Sleepy), Sleepy', One(t \in Sleepy'))
  <2>1. Sleepy \in SUBSET Threads /\ Sleepy' \in SUBSET Threads
    BY DEF Sleepy
  <2>2. \A u \in Threads : u # t => (u \in Sleepy <=> u \in Sleepy')
    BY DEF Sleepy, OthersStay
  <2> QED
    BY <1>1, <2>1, <2>2, OneTraded
<1>3. Traded(Checking, One(t \in Checking), Checking', One(t \in Checking'))
  <2>1. Checking \in SUBSET Threads /\ Checking' \in SUBSET Threads
    BY DEF Checking
  <2>2. \A u \in Threads : u # t => (u \in Checking <=> u \in Checking')
    BY DEF Checking, OthersStay
  <2> QED
    BY <1>1, <2>1, <2>2, OneTraded
<1>4. count \in [Threads -> Nat] /\ count' \in [Threads -> Nat]
  BY DEF TypeOK
<1>5. ASSUME NEW S, IsFiniteSet(Tickets({u \in Threads : pc[u] \in S}, count))
      PROVE  Traded(Tickets({u \in Threads : pc[u] \in S}, count), Share(t, S),
                    Tickets({u \in Threads : pc'[u] \in S}, count'),
                    IF pc'[t] \in S THEN count'[t] ELSE 0)
  <2> DEFINE P == {u \in Threads : pc[u] \in S}
             Q == {u \in Threads : pc'[u] \in S}
  <2>1. \A p : p # t => (p \in P <=> p \in Q) /\ (p \in P => count[p] = count'[p])
    BY DEF OthersStay
  <2>2. /\ Share(t, S) = (IF t \in P THEN count[t] ELSE 0)
        /\ (IF pc'[t] \in S THEN count'[t] ELSE 0) = (IF t \in Q THEN count'[t] ELSE 0)
    BY DEF Share
  <2>3. /\ (IF t \in P THEN count[t] ELSE 0) \in Nat
        /\ (IF t \in Q THEN count'[t] ELSE 0) \in Nat
    BY <1>4
  <2>4. IsFiniteSet(Tickets(P, count))
    BY <1>5
  <2> HIDE DEF P, Q
  <2>5. Traded(Tickets(P, count), IF t \in P THEN count[t] ELSE 0,
               Tickets(Q, count'), IF t \in Q THEN count'[t] ELSE 0)
    BY <2>1, <2>3, <2>4, TicketsTraded
  <2>6. Traded(Tickets(P, count), Share(t, S),
               Tickets(Q, count'), IF pc'[t] \in S THEN count'[t] ELSE 0)
    BY <2>2, <2>5, Zenon
  <2> QED
    BY <2>6 DEF P, Q
<1>6. Traded(Promised, Share(t, Promising), Promised', Share(t, Promising)')
  BY <1>5 DEF Promised, Finite, Share
<1>7. Traded(Due, Share(t, Owing), Due', Share(t, Owing)')
  BY <1>5 DEF Due, Finite, Share
<1> QED
  BY <1>2, <1>3, <1>6, <1>7

(* So do those that depend on who sleeps.                                  *)
LEMMA Changes ==
  ASSUME TypeOK, TypeOK', Finite, NEW t \in Threads, OnlyMoves(t)
  PROVE  /\ Traded(Sleepy, One(t \in Sleepy), Sleepy', One(t \in Sleepy'))
         /\ Traded(waitq, One(t \in waitq), waitq', One(t \in waitq'))
         /\ Traded(Awake, One(t \in Awake), Awake', One(t \in Awake'))
         /\ Traded(Checking, One(t \in Checking), Checking', One(t \in Checking'))
         /\ Traded(Promised, Share(t, Promising), Promised', Share(t, Promising)')
         /\ Traded(Due, Share(t, Owing), Due', Share(t, Owing)')
<1>1. IsFiniteSet(Threads)
  BY EventAssumption, FS_Union DEF Threads
<1>2. OthersStay(t)
  BY DEF OnlyMoves, OthersStay
<1>3. Traded(waitq, One(t \in waitq), waitq', One(t \in waitq'))
  <2>1. waitq \in SUBSET Threads /\ waitq' \in SUBSET Threads
    BY DEF TypeOK, Threads
  <2>2. \A u \in Threads : u # t => (u \in waitq <=> u \in waitq')
    BY DEF OnlyMoves
  <2> QED
    BY <1>1, <2>1, <2>2, OneTraded
<1>4. Traded(Awake, One(t \in Awake), Awake', One(t \in Awake'))
  <2>1. Awake \in SUBSET Threads /\ Awake' \in SUBSET Threads
    BY DEF Awake
  <2>2. \A u \in Threads : u # t => (u \in Awake <=> u \in Awake')
    BY DEF Awake, OnlyMoves
  <2> QED
    BY <1>1, <2>1, <2>2, OneTraded
<1> QED
  BY <1>2, <1>3, <1>4, StayChanges

(* A step of a waiter leaves the signals as they are.                      *)
LEMMA WaiterChanges ==
  ASSUME TypeOK, TypeOK', Finite, NEW t \in Threads, OnlyMoves(t), UNCHANGED <<count, old>>,
         pc[t] \in Waiting \union {"idle"}, pc'[t] \in Waiting \union {"idle"},
         val < 0 => val' < 0 \/ stolen'
  PROVE  /\ Finite'
         /\ Traded(Promised, 0, Promised', 0) /\ Traded(Due, 0, Due', 0)
         /\ Traded(Checking, 0, Checking', 0)
         /\ Sweeping' <=> Sweeping
         /\ LockStays /\ ~stolen' => LockStays'
         /\ Traded(Sleepy, One(pc[t] = "sleep"), Sleepy', One(pc'[t] = "sleep"))
         /\ Traded(waitq, One(t \in waitq), waitq', One(t \in waitq'))
         /\ Traded(Awake, One(t \in Awake), Awake', One(t \in Awake'))
<1>1. /\ pc[t] \notin Promising /\ pc[t] \notin Owing /\ pc[t] \notin SweepLabels
      /\ pc'[t] \notin Promising /\ pc'[t] \notin Owing /\ pc'[t] \notin SweepLabels
  BY DEF Waiting, Promising, Owing, SweepLabels
<1>2. /\ Share(t, Promising) = 0 /\ Share(t, Promising)' = 0
      /\ Share(t, Owing) = 0 /\ Share(t, Owing)' = 0
  BY <1>1 DEF Share
<1>3. One(t \in Checking) = 0 /\ One(t \in Checking') = 0
  BY <1>1 DEF One, Checking, Owing
<1>4. Traded(Promised, 0, Promised', 0) /\ Traded(Due, 0, Due', 0)
  BY <1>2, Changes, Zenon
<1>5. Traded(Checking, 0, Checking', 0)
  BY <1>3, Changes, Zenon
<1>6. Finite'
  BY <1>4 DEF Traded, Finite
<1>7. Sweeping' <=> Sweeping
  BY <1>1 DEF Sweeping, OnlyMoves
<1>8. LockStays /\ ~stolen' => LockStays'
  BY <1>1 DEF LockStays, OnlyMoves, SweepLabels, TypeOK
<1>9. (t \in Sleepy <=> pc[t] = "sleep") /\ (t \in Sleepy' <=> pc'[t] = "sleep")
  BY DEF Sleepy
<1>10. Traded(Sleepy, One(pc[t] = "sleep"), Sleepy', One(pc'[t] = "sleep"))
  <2>1. One(t \in Sleepy) = One(pc[t] = "sleep") /\ One(t \in Sleepy') = One(pc'[t] = "sleep")
    BY <1>9 DEF One
  <2> QED
    BY <2>1, Changes, Zenon
<1> QED
  BY <1>4, <1>5, <1>6, <1>7, <1>8, <1>10, Changes

(* A token is taken, by the last of those that it was for.                 *)
LEMMA TakeSafe ==
  ASSUME Inv, TypeOK', NEW t \in Threads, WaitTake(t)
  PROVE  Finite' /\ Safe'
<1>1. /\ pc[t] = "wait" /\ pc'[t] = "idle" /\ OnlyMoves(t) /\ val # 0
      /\ val' = IF val = -1 THEN -1 ELSE val - 1
      /\ UNCHANGED <<waitq, waiters, count, old>>
      /\ stolen => stolen'
  BY DEF WaitTake, Goto, OnlyMoves, Inv, TypeOK
<1>2. val \in Int /\ val >= -1 /\ waiters \in Nat
  BY DEF Inv, TypeOK
<1>3. ~stolen' /\ val = 1 => Sleepy = {}
  <2>1. ~stolen' /\ val = 1 => ~ \E u \in Announced \ {t} : u \notin waitq
    BY DEF WaitTake
  <2>2. \A u \in Sleepy : u \in Announced \ {t} /\ u \notin waitq
    BY <1>1 DEF Sleepy, Announced, Inv, InStep, Waiting
  <2> QED
    BY <2>1, <2>2
<1>4. Sleepy = {} => Cardinality(Sleepy) = 0
  BY FS_EmptySet
<1>5. t \notin waitq /\ t \in Awake /\ t \notin Awake'
  BY <1>1 DEF Awake, Waiting, Inv, InStep
<1>6. val < 0 => val' < 0 \/ stolen'
  BY <1>1, <1>2
<1>7. pc[t] \in Waiting \union {"idle"} /\ pc'[t] \in Waiting \union {"idle"}
  BY <1>1 DEF Waiting
<1>8. /\ Finite' /\ (Sweeping' <=> Sweeping) /\ (LockStays /\ ~stolen' => LockStays')
      /\ Traded(Promised, 0, Promised', 0) /\ Traded(Due, 0, Due', 0)
      /\ Traded(Checking, 0, Checking', 0)
      /\ Traded(Sleepy, One(pc[t] = "sleep"), Sleepy', One(pc'[t] = "sleep"))
      /\ Traded(waitq, One(t \in waitq), waitq', One(t \in waitq'))
      /\ Traded(Awake, One(t \in Awake), Awake', One(t \in Awake'))
  BY <1>1, <1>6, <1>7, WaiterChanges DEF Inv
<1>9. /\ Traded(Sleepy, 0, Sleepy', 0) /\ Traded(waitq, 0, waitq', 0)
      /\ Traded(Awake, 1, Awake', 0)
  BY <1>1, <1>5, <1>8 DEF One
<1>10. ASSUME ~stolen' PROVE LockStays' /\ SleepyCounted'
  BY <1>1, <1>2, <1>3, <1>4, <1>8, <1>9, <1>10 DEF Inv, Safe, SleepyCounted, Traded
<1>11. ASSUME ~stolen', ~Sweeping' PROVE SleepersCounted' /\ Attended'
  <2>1. SleepersCounted /\ Attended
    BY <1>1, <1>8, <1>11 DEF Inv, Safe
  <2>2. SleepersCounted'
    BY <1>1, <1>2, <1>3, <1>4, <1>8, <1>9, <1>11, <2>1 DEF SleepersCounted, Traded
  <2>3. Attended'
    BY <1>1, <1>2, <1>8, <1>9, <2>1 DEF Attended, Traded
  <2> QED
    BY <2>2, <2>3
<1> QED
  BY <1>8, <1>10, <1>11 DEF Safe

(* A waiter that neither takes a token nor takes back an announcement: it  *)
(* is counted before it is about to sleep, it sleeps only when there is no *)
(* token, and it does not go away while there is one.                      *)
LEMMA DriftSafe ==
  ASSUME Inv, TypeOK', NEW t \in Threads, OnlyMoves(t), UNCHANGED <<val, count, old, stolen>>,
         pc[t] \in Waiting \union {"idle"}, pc'[t] \in Waiting \union {"idle"},
         waiters' = IF pc'[t] = "sleep" THEN waiters + 1 ELSE waiters,
         pc[t] = "sleep" => pc'[t] # "sleep",
         t \in waitq' => t \in waitq \/ (val = 0 /\ pc[t] = "sleep"),
         val # 0 /\ t \in Awake => t \in Awake'
  PROVE  Finite' /\ Safe'
<1>1. val \in Int /\ val >= -1 /\ waiters \in Nat
  BY DEF Inv, TypeOK
<1>2. /\ Finite' /\ (Sweeping' <=> Sweeping) /\ (LockStays /\ ~stolen' => LockStays')
      /\ Traded(Promised, 0, Promised', 0) /\ Traded(Due, 0, Due', 0)
      /\ Traded(Checking, 0, Checking', 0)
      /\ Traded(Sleepy, One(pc[t] = "sleep"), Sleepy', One(pc'[t] = "sleep"))
      /\ Traded(waitq, One(t \in waitq), waitq', One(t \in waitq'))
      /\ Traded(Awake, One(t \in Awake), Awake', One(t \in Awake'))
  BY <1>1, WaiterChanges DEF Inv
<1>3. One(pc'[t] = "sleep") \in 0..1 /\ waiters' = waiters + One(pc'[t] = "sleep")
  BY <1>1 DEF One
<1>4. One(t \in waitq') <= One(t \in waitq) + One(pc[t] = "sleep")
  BY DEF One
<1>5. val # 0 => One(t \in waitq') <= One(t \in waitq) /\ One(t \in Awake) <= One(t \in Awake')
  BY DEF One
<1>6. /\ One(t \in waitq) \in 0..1 /\ One(t \in waitq') \in 0..1 /\ One(pc[t] = "sleep") \in 0..1
      /\ One(t \in Awake) \in 0..1 /\ One(t \in Awake') \in 0..1
  BY DEF One
<1>7. val # 0 /\ waitq' # {} => waitq # {}
  BY DEF OnlyMoves, Inv, TypeOK, Threads
<1>8. ASSUME ~stolen' PROVE LockStays' /\ SleepyCounted'
  BY <1>1, <1>2, <1>3, <1>6, <1>8 DEF Inv, Safe, SleepyCounted, Traded
<1>9. ASSUME ~stolen', ~Sweeping' PROVE SleepersCounted' /\ Attended'
  <2>1. SleepersCounted /\ Attended
    BY <1>2, <1>9 DEF Inv, Safe
  <2>2. SleepersCounted'
    <3>1. CASE val = 0
      BY <1>1, <1>2, <1>3, <1>4, <1>6, <2>1, <3>1 DEF SleepersCounted, Traded
    <3>2. CASE val # 0
      BY <1>1, <1>2, <1>3, <1>5, <1>6, <2>1, <3>2 DEF SleepersCounted, Traded
    <3> QED
      BY <3>1, <3>2
  <2>3. Attended'
    <3>1. CASE val = 0
      BY <1>2, <3>1 DEF Attended, Traded
    <3>2. CASE val # 0
      BY <1>1, <1>2, <1>5, <1>6, <1>7, <2>1, <3>2 DEF Attended, Traded
    <3> QED
      BY <3>1, <3>2
  <2> QED
    BY <2>2, <2>3
<1> QED
  BY <1>2, <1>8, <1>9 DEF Safe

(* An announcement is taken back, and none of another thread.              *)
LEMMA UndoSafe ==
  ASSUME Inv, TypeOK', NEW t \in Threads, WaitUndo(t)
  PROVE  Finite' /\ Safe'
<1>1. /\ pc[t] = "undo" /\ pc'[t] = "wait" /\ OnlyMoves(t)
      /\ waiters' = IF waiters > 0 THEN waiters - 1 ELSE waiters
      /\ UNCHANGED <<val, waitq, count, old>>
      /\ stolen => stolen'
  BY DEF WaitUndo, Goto, OnlyMoves, Inv, TypeOK
<1>2. val \in Int /\ val >= -1 /\ waiters \in Nat
  BY DEF Inv, TypeOK
<1>3. ~stolen' /\ waiters > 0 => Cardinality(Sleepy) + Cardinality(waitq) < waiters
  <2> DEFINE A == Announced \ {t}
  <2>1. A \in SUBSET Waiters /\ Sleepy \in SUBSET A /\ waitq \in SUBSET A /\ Sleepy \cap waitq = {}
    BY <1>1 DEF Announced, Sleepy, Inv, InStep, Waiting
  <2>2. IsFiniteSet(A)
    BY <2>1, EventAssumption, FS_Subset
  <2>3. ~stolen' => waiters \notin 1..Cardinality(A)
    BY DEF WaitUndo
  <2> HIDE DEF A
  <2>4. /\ IsFiniteSet(Sleepy) /\ Cardinality(Sleepy) \in Nat
        /\ IsFiniteSet(waitq) /\ Cardinality(waitq) \in Nat
    BY <2>1, <2>2, FS_Subset, FS_CardinalityType
  <2>5. Cardinality(Sleepy \cup waitq) = Cardinality(Sleepy) + Cardinality(waitq)
    BY <2>1, <2>4, DisjointSum
  <2>6. Sleepy \cup waitq \in SUBSET A
    BY <2>1
  <2>7. Cardinality(Sleepy \cup waitq) <= Cardinality(A) /\ Cardinality(A) \in Nat
    BY <2>2, <2>6, FS_Subset, FS_CardinalityType
  <2> QED
    BY <1>2, <2>3, <2>4, <2>5, <2>7
<1>4. t \notin waitq /\ t \in Awake /\ t \in Awake'
  BY <1>1 DEF Awake, Waiting, Inv, InStep
<1>5. pc[t] \in Waiting \union {"idle"} /\ pc'[t] \in Waiting \union {"idle"}
  BY <1>1 DEF Waiting
<1>6. /\ Finite' /\ (Sweeping' <=> Sweeping) /\ (LockStays /\ ~stolen' => LockStays')
      /\ Traded(Promised, 0, Promised', 0) /\ Traded(Due, 0, Due', 0)
      /\ Traded(Checking, 0, Checking', 0)
      /\ Traded(Sleepy, One(pc[t] = "sleep"), Sleepy', One(pc'[t] = "sleep"))
      /\ Traded(waitq, One(t \in waitq), waitq', One(t \in waitq'))
      /\ Traded(Awake, One(t \in Awake), Awake', One(t \in Awake'))
  BY <1>1, <1>2, <1>5, WaiterChanges DEF Inv
<1>7. /\ Traded(Sleepy, 0, Sleepy', 0) /\ Traded(waitq, 0, waitq', 0)
      /\ Traded(Awake, 1, Awake', 1)
  BY <1>1, <1>4, <1>6 DEF One
<1>8. ASSUME ~stolen' PROVE LockStays' /\ SleepyCounted'
  BY <1>1, <1>2, <1>3, <1>6, <1>7, <1>8 DEF Inv, Safe, SleepyCounted, Traded
<1>9. ASSUME ~stolen', ~Sweeping' PROVE SleepersCounted' /\ Attended'
  <2>1. SleepersCounted /\ Attended
    BY <1>1, <1>6, <1>9 DEF Inv, Safe
  <2>2. SleepersCounted'
    BY <1>1, <1>2, <1>3, <1>6, <1>7, <1>9, <2>1 DEF SleepersCounted, Traded
  <2>3. Attended'
    BY <1>1, <1>2, <1>6, <1>7, <2>1 DEF Attended, Traded
  <2> QED
    BY <2>2, <2>3
<1> QED
  BY <1>6, <1>8, <1>9 DEF Safe

(* Every step of a waiter is one of these.                                 *)
LEMMA WaiterSafe ==
  ASSUME Inv, TypeOK', NEW t \in Threads,
         RunWait(t) \/ Wait(t) \/ WaitGiveUp(t) \/ WaitSleepTimeout(t) \/ WaitSleepError(t)
  PROVE  Finite' /\ Safe'
<1>0. TypeOK /\ InStep
  BY DEF Inv
<1> USE DEF Goto, OnlyMoves, TypeOK, InStep, Waiting, Awake
<1>1. CASE WaitTake(t)
  BY <1>1, TakeSafe
<1>2. CASE WaitUndo(t)
  BY <1>2, UndoSafe
<1>3. CASE Wait(t)
  BY <1>0, <1>3, DriftSafe DEF Wait
<1>4. CASE WaitLoad(t)
  BY <1>0, <1>4, DriftSafe DEF WaitLoad
<1>5. CASE WaitGiveUp(t)
  BY <1>0, <1>5, DriftSafe DEF WaitGiveUp
<1>6. CASE WaitAnnounce(t)
  BY <1>0, <1>6, DriftSafe DEF WaitAnnounce
<1>7. CASE WaitSleep(t)
  BY <1>0, <1>7, DriftSafe DEF WaitSleep, Ftx!FutexWait, Ftx!FutexRetry
<1>8. CASE WaitWoken(t)
  BY <1>0, <1>8, DriftSafe DEF WaitWoken
<1>9. CASE WaitSleepTimeout(t) \/ WaitSleepError(t)
  BY <1>0, <1>9, DriftSafe DEF WaitSleepTimeout, WaitSleepError, Ftx!FutexEnd
<1> QED
  BY <1>1, <1>2, <1>3, <1>4, <1>5, <1>6, <1>7, <1>8, <1>9 DEF RunWait

(* A step of a signaler that wakes nobody leaves the waiters as they are.  *)
LEMMA SignalerChanges ==
  ASSUME Inv, TypeOK', NEW t \in Threads, OnlyMoves(t), UNCHANGED waitq,
         pc[t] \notin Waiting, pc'[t] \notin Waiting
  PROVE  /\ Finite'
         /\ Traded(Sleepy, 0, Sleepy', 0) /\ Traded(waitq, 0, waitq', 0)
         /\ Traded(Awake, 0, Awake', 0)
         /\ Traded(Checking, One(t \in Checking), Checking', One(t \in Checking'))
         /\ Traded(Promised, Share(t, Promising), Promised', Share(t, Promising)')
         /\ Traded(Due, Share(t, Owing), Due', Share(t, Owing)')
<1>0. TypeOK /\ InStep /\ Finite
  BY DEF Inv
<1>1. /\ One(t \in Sleepy) = 0 /\ One(t \in Sleepy') = 0
      /\ One(t \in waitq) = 0 /\ One(t \in waitq') = 0
      /\ One(t \in Awake) = 0 /\ One(t \in Awake') = 0
  BY <1>0 DEF One, Sleepy, Awake, InStep, Waiting
<1>2. /\ Traded(Sleepy, 0, Sleepy', 0) /\ Traded(waitq, 0, waitq', 0)
      /\ Traded(Awake, 0, Awake', 0)
  BY <1>0, <1>1, Changes, Zenon
<1>3. /\ Traded(Checking, One(t \in Checking), Checking', One(t \in Checking'))
      /\ Traded(Promised, Share(t, Promising), Promised', Share(t, Promising)')
      /\ Traded(Due, Share(t, Owing), Due', Share(t, Owing)')
  BY <1>0, Changes
<1>4. Finite'
  BY <1>3 DEF Traded, Finite
<1> QED
  BY <1>2, <1>3, <1>4

(* eventSignalMany takes announcements that it owes for from now on.       *)
LEMMA ManySafe ==
  ASSUME Inv, TypeOK', NEW t \in Threads, SignalMany(t)
  PROVE  Finite' /\ Safe'
<1>0. TypeOK
  BY DEF Inv
<1>1. PICK c \in 0..waiters : waiters' = waiters - c /\ count' = [count EXCEPT ![t] = c]
  <2>1. PICK n \in Counts :
          LET c == IF n < waiters THEN n ELSE waiters
          IN  waiters' = waiters - c /\ count' = [count EXCEPT ![t] = c]
    BY DEF SignalMany
  <2> DEFINE d == IF n < waiters THEN n ELSE waiters
  <2>2. d \in 0..waiters
    BY <1>0, EventAssumption DEF TypeOK
  <2>3. waiters' = waiters - d /\ count' = [count EXCEPT ![t] = d]
    BY <2>1
  <2> HIDE DEF d
  <2> QED
    BY <2>2, <2>3
<1>2. pc[t] = "idle" /\ pc'[t] = "many" /\ UNCHANGED <<val, waitq, old, stolen>>
  BY <1>0 DEF SignalMany, Goto, TypeOK
<1>3. OnlyMoves(t) /\ count'[t] = c /\ waiters \in Nat /\ val \in Int
  BY <1>0, <1>1, <1>2 DEF SignalMany, Goto, OnlyMoves, TypeOK
<1>4. /\ Finite' /\ Traded(Sleepy, 0, Sleepy', 0) /\ Traded(waitq, 0, waitq', 0)
      /\ Traded(Awake, 0, Awake', 0)
      /\ Traded(Checking, One(t \in Checking), Checking', One(t \in Checking'))
      /\ Traded(Promised, Share(t, Promising), Promised', Share(t, Promising)')
      /\ Traded(Due, Share(t, Owing), Due', Share(t, Owing)')
  BY <1>2, <1>3, SignalerChanges DEF Waiting
<1>5. /\ Traded(Checking, 0, Checking', 0) /\ Traded(Promised, 0, Promised', c)
      /\ Traded(Due, 0, Due', 0)
  BY <1>2, <1>3, <1>4 DEF One, Share, Checking, Promising, Owing
<1>6. Sweeping' <=> Sweeping
  BY <1>2, <1>3 DEF Sweeping, OnlyMoves, SweepLabels
<1>7. ASSUME ~stolen' PROVE LockStays' /\ SleepyCounted'
  <2>1. LockStays'
    BY <1>2, <1>3, <1>7 DEF Inv, Safe, LockStays, OnlyMoves
  <2> QED
    BY <1>1, <1>2, <1>3, <1>4, <1>5, <1>7, <2>1 DEF Inv, Safe, SleepyCounted, Traded
<1>8. ASSUME ~stolen', ~Sweeping' PROVE SleepersCounted' /\ Attended'
  <2>1. SleepersCounted /\ Attended
    BY <1>2, <1>6, <1>8 DEF Inv, Safe
  <2> QED
    BY <1>1, <1>2, <1>3, <1>4, <1>5, <2>1 DEF SleepersCounted, Attended, Traded
<1> QED
  BY <1>4, <1>7, <1>8 DEF Safe

(* It adds a token for each, and its wake-ups are due.                     *)
LEMMA ManySetSafe ==
  ASSUME Inv, TypeOK', NEW t \in Threads, SignalManySet(t)
  PROVE  Finite' /\ Safe'
<1>0. TypeOK
  BY DEF Inv
<1> DEFINE c == count[t]
<1>1. /\ pc[t] = "many" /\ pc'[t] = "manycheck" /\ UNCHANGED <<waitq, waiters, count, stolen>>
      /\ val' = IF val < 0 THEN val ELSE IF val + c > 1 THEN val + c ELSE 1
      /\ old'[t] = val
  BY <1>0 DEF SignalManySet, Goto, TypeOK
<1>2. OnlyMoves(t) /\ c \in Nat /\ waiters \in Nat /\ val \in Int
  BY <1>0, <1>1 DEF SignalManySet, Goto, OnlyMoves, TypeOK
<1>3. /\ Finite' /\ Traded(Sleepy, 0, Sleepy', 0) /\ Traded(waitq, 0, waitq', 0)
      /\ Traded(Awake, 0, Awake', 0)
      /\ Traded(Checking, One(t \in Checking), Checking', One(t \in Checking'))
      /\ Traded(Promised, Share(t, Promising), Promised', Share(t, Promising)')
      /\ Traded(Due, Share(t, Owing), Due', Share(t, Owing)')
  BY <1>1, <1>2, SignalerChanges DEF Waiting
<1>4. /\ Traded(Promised, c, Promised', 0) /\ Traded(Due, 0, Due', c)
  BY <1>1, <1>2, <1>3 DEF Share, Promising, Owing
<1>5. Traded(Checking, 0, Checking', One(c = 0 /\ val = 0))
  <2>1. t \notin Checking /\ (t \in Checking' <=> c = 0 /\ val = 0)
    BY <1>1 DEF Checking
  <2>2. One(t \in Checking) = 0 /\ One(t \in Checking') = One(c = 0 /\ val = 0)
    BY <2>1 DEF One
  <2> QED
    BY <1>3, <2>2, Zenon
<1>6. Sweeping' <=> Sweeping
  BY <1>1, <1>2 DEF Sweeping, OnlyMoves, SweepLabels
<1>7. ASSUME ~stolen' PROVE LockStays' /\ SleepyCounted'
  <2>1. LockStays'
    BY <1>1, <1>2, <1>7 DEF Inv, Safe, LockStays, OnlyMoves
  <2>2. val' # 0
    BY <1>1, <1>2
  <2> QED
    BY <2>1, <2>2 DEF SleepyCounted
<1>8. ASSUME ~stolen', ~Sweeping' PROVE SleepersCounted' /\ Attended'
  <2>1. SleepersCounted /\ Attended
    BY <1>1, <1>6, <1>8 DEF Inv, Safe
  <2>2. SleepersCounted'
    BY <1>1, <1>2, <1>3, <1>4, <2>1 DEF SleepersCounted, Traded
  <2>3. Attended'
    <3> SUFFICES ASSUME waitq' # {} PROVE Attended'
      BY DEF Attended
    <3>1. waitq # {} /\ val >= 0
      BY <1>1, <2>1 DEF Attended
    <3>2. \/ val' = val + c
          \/ val' = 1 /\ val = 0 /\ c = 0 /\ One(c = 0 /\ val = 0) = 1
      BY <1>1, <1>2, <3>1 DEF One
    <3>3. One(c = 0 /\ val = 0) \in 0..1
      BY DEF One
    <3> HIDE DEF c
    <3>4. CASE val <= Cardinality(Due) + Cardinality(Checking) + Cardinality(Awake)
      BY <1>2, <1>3, <1>4, <1>5, <3>1, <3>2, <3>3, <3>4 DEF Attended, Traded
    <3>5. CASE Cardinality(waitq) <= Cardinality(Promised) + Cardinality(Due)
      BY <1>2, <1>3, <1>4, <3>1, <3>2, <3>5 DEF Attended, Traded
    <3> QED
      BY <2>1, <3>1, <3>4, <3>5 DEF Attended
  <2> QED
    BY <2>2, <2>3
<1> QED
  BY <1>3, <1>7, <1>8 DEF Safe

(* A second look misses no one: whoever sleeps uncounted is to be woken.   *)
LEMMA RecheckSafe ==
  ASSUME Inv, TypeOK', NEW t \in Threads, SignalManyRecheck(t)
  PROVE  Finite' /\ Safe'
<1>0. TypeOK
  BY DEF Inv
<1> DEFINE c == count[t]
<1>1. pc[t] = "manycheck" /\ UNCHANGED <<val, waitq, waiters, stolen>>
  BY DEF SignalManyRecheck, Goto, Return
<1>2. /\ OnlyMoves(t) /\ c \in Nat /\ waiters \in Nat /\ val \in Int
      /\ pc'[t] \in {"manywake", "idle"}
  BY <1>0, <1>1 DEF SignalManyRecheck, Goto, Return, OnlyMoves, TypeOK
<1>3. /\ Finite' /\ Traded(Sleepy, 0, Sleepy', 0) /\ Traded(waitq, 0, waitq', 0)
      /\ Traded(Awake, 0, Awake', 0)
      /\ Traded(Checking, One(t \in Checking), Checking', One(t \in Checking'))
      /\ Traded(Promised, Share(t, Promising), Promised', Share(t, Promising)')
      /\ Traded(Due, Share(t, Owing), Due', Share(t, Owing)')
  BY <1>1, <1>2, SignalerChanges DEF Waiting
<1>4. Traded(Promised, 0, Promised', 0)
  BY <1>1, <1>2, <1>3 DEF Share, Promising
<1>5. \/ Traded(Due, c, Due', c) /\ Traded(Checking, 0, Checking', 0)
      \/ Traded(Due, 0, Due', 1) /\ Traded(Checking, 1, Checking', 0)
      \/ waiters = 0 /\ Traded(Due, 0, Due', 0)
  <2>1. CASE c > 0 /\ pc'[t] = "manywake" /\ count'[t] = c
    BY <1>1, <1>2, <1>3, <2>1 DEF Share, Owing, One, Checking
  <2>2. CASE c = 0 /\ old[t] = 0 /\ pc'[t] = "manywake" /\ count'[t] = 1
    BY <1>1, <1>2, <1>3, <2>2 DEF Share, Owing, One, Checking
  <2>3. CASE c = 0 /\ old[t] # 0 /\ pc'[t] = "idle"
    BY <1>1, <1>2, <1>3, <2>3 DEF Share, Owing, One, Checking
  <2>4. CASE c = 0 /\ waiters = 0 /\ pc'[t] = "idle"
    BY <1>1, <1>2, <1>3, <2>4 DEF Share, Owing
  <2> QED
    BY <1>0, <2>1, <2>2, <2>3, <2>4 DEF SignalManyRecheck, Goto, Return, TypeOK
<1>6. Sweeping' <=> Sweeping
  BY <1>1, <1>2 DEF Sweeping, OnlyMoves, SweepLabels
<1>7. ASSUME ~stolen' PROVE LockStays' /\ SleepyCounted'
  <2>1. LockStays'
    BY <1>1, <1>2, <1>7 DEF Inv, Safe, LockStays, OnlyMoves
  <2> QED
    BY <1>1, <1>2, <1>3, <1>4, <1>7, <2>1 DEF Inv, Safe, SleepyCounted, Traded
<1>8. ASSUME ~stolen', ~Sweeping' PROVE SleepersCounted' /\ Attended'
  <2>1. SleepersCounted /\ Attended
    BY <1>1, <1>6, <1>8 DEF Inv, Safe
  <2>2. SleepersCounted'
    BY <1>1, <1>2, <1>3, <1>4, <1>5, <2>1 DEF SleepersCounted, Traded
  <2>3. Attended'
    BY <1>1, <1>2, <1>3, <1>4, <1>5, <2>1 DEF Attended, SleepersCounted, Traded
  <2> QED
    BY <2>2, <2>3
<1> QED
  BY <1>3, <1>7, <1>8 DEF Safe

(* eventSignalAll up to its wake-up: what it takes it adds tokens for, or  *)
(* the event is locked.                                                    *)
LEMMA SweepSafe ==
  ASSUME Inv, TypeOK', NEW t \in Threads,
         \/ SignalAll(t) \/ SignalLock(t) \/ SignalLockAll(t)
         \/ SignalAllSet(t) \/ SignalAllLate(t) \/ SignalAllLateSet(t)
  PROVE  Finite' /\ Safe'
<1>0. TypeOK
  BY DEF Inv
<1>1. /\ pc[t] \in {"idle"} \union SweepLabels /\ pc'[t] \in SweepLabels
      /\ OnlyMoves(t) /\ UNCHANGED <<waitq, stolen>>
  BY <1>0 DEF SignalAll, SignalLock, SignalLockAll, SignalAllSet, SignalAllLate,
              SignalAllLateSet, ClaimAll, Goto, OnlyMoves, TypeOK, SweepLabels
<1>2. val \in Int /\ waiters \in Nat /\ count[t] \in Nat
  BY <1>0 DEF TypeOK
<1>3. /\ Finite' /\ Traded(Sleepy, 0, Sleepy', 0)
      /\ Traded(Promised, Share(t, Promising), Promised', Share(t, Promising)')
  BY <1>1, SignalerChanges DEF Waiting, SweepLabels
<1>4. Sweeping'
  BY <1>1 DEF Sweeping
<1>5. ASSUME ~stolen' PROVE LockStays' /\ SleepyCounted'
  <2>1. LockStays /\ SleepyCounted
    BY <1>1, <1>5 DEF Inv, Safe
  <2>2. CASE SignalAll(t) \/ SignalLockAll(t)
    <3>1. /\ pc[t] \notin Promising /\ pc'[t] = "all" /\ count'[t] = waiters /\ waiters' = 0
          /\ UNCHANGED <<val, old>>
      BY <1>0, <2>2 DEF SignalAll, SignalLockAll, ClaimAll, Goto, TypeOK, Promising
    <3>2. Traded(Promised, 0, Promised', waiters)
      BY <1>3, <3>1 DEF Share, Promising
    <3>3. LockStays'
      BY <1>1, <2>1, <3>1 DEF LockStays, OnlyMoves
    <3> QED
      BY <1>2, <1>3, <2>1, <3>1, <3>2, <3>3 DEF SleepyCounted, Traded
  <2>3. CASE SignalLock(t)
    <3>1. val' = -1
      BY <2>3 DEF SignalLock
    <3> QED
      BY <3>1 DEF LockStays, SleepyCounted
  <2>4. CASE SignalAllSet(t) \/ SignalAllLateSet(t)
    <3>1. /\ pc[t] \in Promising /\ pc'[t] \notin Promising /\ UNCHANGED waiters
          /\ val' = IF val < 0 THEN val ELSE val + count[t]
          /\ pc'[t] = "late" => old'[t] = val
      BY <1>0, <2>4 DEF SignalAllSet, SignalAllLateSet, Goto, TypeOK, Promising
    <3>2. Traded(Promised, count[t], Promised', 0)
      BY <1>3, <3>1 DEF Share
    <3>3. LockStays'
      BY <1>1, <1>2, <2>1, <3>1 DEF LockStays, OnlyMoves
    <3> QED
      BY <1>2, <1>3, <2>1, <3>1, <3>2, <3>3 DEF SleepyCounted, Traded
  <2>5. CASE SignalAllLate(t)
    <3>1. /\ pc[t] = "late" /\ count'[t] = waiters /\ waiters' = 0 /\ UNCHANGED <<val, old>>
          /\ pc'[t] = IF waiters > 0 /\ old[t] >= 0 THEN "lateset" ELSE "allwake"
          /\ old[t] \in Int
      BY <1>0, <2>5 DEF SignalAllLate, Goto, TypeOK
    <3>2. LockStays'
      BY <1>1, <2>1, <3>1 DEF LockStays, OnlyMoves
    <3>3. CASE old[t] < 0
      BY <2>1, <3>1, <3>2, <3>3 DEF LockStays, SleepyCounted
    <3>4. CASE old[t] >= 0
      <4>1. Traded(Promised, 0, Promised', waiters)
        BY <1>2, <1>3, <3>1, <3>4 DEF Share, Promising
      <4> QED
        BY <1>2, <1>3, <2>1, <3>1, <3>2, <4>1 DEF SleepyCounted, Traded
    <3> QED
      BY <3>1, <3>3, <3>4
  <2> QED
    BY <2>2, <2>3, <2>4, <2>5
<1> QED
  BY <1>3, <1>4, <1>5 DEF Safe

(* Its wake-up leaves no sleeper.                                          *)
LEMMA AllWakeSafe ==
  ASSUME Inv, TypeOK', NEW t \in Threads, SignalAllWake(t)
  PROVE  Finite' /\ Safe'
<1>0. TypeOK /\ Finite
  BY DEF Inv
<1>1. /\ pc[t] = "allwake" /\ pc'[t] = "idle" /\ OthersStay(t) /\ waitq' = {}
      /\ UNCHANGED <<val, waiters, stolen>>
  BY <1>0 DEF SignalAllWake, Return, Goto, OthersStay, TypeOK, Ftx!FutexWakeAll
<1>2. /\ Traded(Sleepy, One(t \in Sleepy), Sleepy', One(t \in Sleepy'))
      /\ Traded(Promised, Share(t, Promising), Promised', Share(t, Promising)')
      /\ Traded(Due, Share(t, Owing), Due', Share(t, Owing)')
  BY <1>0, <1>1, StayChanges
<1>3. /\ Traded(Sleepy, 0, Sleepy', 0) /\ Traded(Promised, 0, Promised', 0)
      /\ Traded(Due, 0, Due', 0)
  BY <1>1, <1>2 DEF One, Share, Sleepy, Promising, Owing
<1>4. Finite'
  BY <1>3 DEF Traded, Finite
<1>5. Cardinality(waitq') = 0
  BY <1>1, FS_EmptySet
<1>6. ASSUME ~stolen' PROVE LockStays' /\ SleepyCounted' /\ SleepersCounted' /\ Attended'
  <2>1. LockStays'
    BY <1>1, <1>6 DEF Inv, Safe, LockStays, OthersStay
  <2>2. SleepyCounted'
    BY <1>0, <1>1, <1>3, <1>6 DEF Inv, Safe, SleepyCounted, Traded, TypeOK
  <2>3. SleepersCounted'
    BY <1>0, <1>1, <1>3, <1>5, <2>2 DEF SleepyCounted, SleepersCounted, Traded, TypeOK
  <2> QED
    BY <1>1, <2>1, <2>2, <2>3 DEF Attended
<1> QED
  BY <1>4, <1>6 DEF Safe

(* The wake-ups of eventSignalMany go to as many sleepers, or to all.      *)
LEMMA ManyWakeSafe ==
  ASSUME Inv, TypeOK', NEW t \in Threads, SignalManyWake(t)
  PROVE  Finite' /\ Safe'
<1>0. TypeOK /\ Finite /\ InStep
  BY DEF Inv
<1> DEFINE c == count[t]
<1>1. /\ pc[t] = "manywake" /\ pc'[t] = "idle" /\ OthersStay(t)
      /\ UNCHANGED <<val, waiters, stolen>>
  BY <1>0 DEF SignalManyWake, Return, Goto, OthersStay, TypeOK
<1>2. PICK W \in SUBSET waitq :
        /\ W = waitq \/ Cardinality(W) = c
        /\ waitq' = waitq \ W
  <2>1. Ftx!FutexWakeMany(c)
    BY DEF SignalManyWake
  <2>2. \A S : Ftx!Cardinality(S) = Cardinality(S)
    BY DEF Cardinality, Ftx!Cardinality
  <2> QED
    BY <2>1, <2>2, Zenon DEF Ftx!FutexWakeMany
<1>3. c \in Nat /\ val \in Int /\ waiters \in Nat
  BY <1>0 DEF TypeOK
<1>4. /\ Traded(Sleepy, One(t \in Sleepy), Sleepy', One(t \in Sleepy'))
      /\ Traded(Checking, One(t \in Checking), Checking', One(t \in Checking'))
      /\ Traded(Promised, Share(t, Promising), Promised', Share(t, Promising)')
      /\ Traded(Due, Share(t, Owing), Due', Share(t, Owing)')
  BY <1>0, <1>1, StayChanges
<1>5. /\ Traded(Sleepy, 0, Sleepy', 0) /\ Traded(Promised, 0, Promised', 0)
      /\ Traded(Due, c, Due', 0) /\ Traded(Checking, 0, Checking', 0)
  BY <1>1, <1>4 DEF One, Share, Sleepy, Promising, Owing, Checking
<1>6. Finite'
  BY <1>5 DEF Traded, Finite
<1>7. Sweeping' <=> Sweeping
  BY <1>1 DEF Sweeping, OthersStay, SweepLabels
<1>8. ASSUME ~stolen' PROVE LockStays' /\ SleepyCounted'
  <2>1. LockStays'
    BY <1>1, <1>8 DEF Inv, Safe, LockStays, OthersStay
  <2> QED
    BY <1>1, <1>3, <1>5, <1>8, <2>1 DEF Inv, Safe, SleepyCounted, Traded
<1>9. ASSUME ~stolen', ~Sweeping' PROVE SleepersCounted' /\ Attended'
  <2>1. SleepersCounted /\ Attended
    BY <1>1, <1>7, <1>9 DEF Inv, Safe
  <2>2. CASE W = waitq
    <3>1. waitq' = {}
      BY <1>2, <2>2
    <3>2. Cardinality(waitq') = 0
      BY <3>1, FS_EmptySet
    <3>3. SleepersCounted'
      BY <1>1, <1>3, <1>5, <1>8, <1>9, <3>2 DEF SleepyCounted, SleepersCounted, Traded
    <3> QED
      BY <3>1, <3>3 DEF Attended
  <2>3. CASE Cardinality(W) = c
    <3>1. /\ IsFiniteSet(waitq) /\ IsFiniteSet(W) /\ IsFiniteSet(waitq') /\ IsFiniteSet(Awake)
          /\ Cardinality(waitq') \in Nat /\ Cardinality(Awake) \in Nat
      <4>1. /\ waitq \in SUBSET Threads /\ W \in SUBSET Threads /\ waitq' \in SUBSET Threads
            /\ Awake \in SUBSET Threads
        BY <1>0, <1>2 DEF TypeOK, Threads, Awake
      <4>2. IsFiniteSet(Threads)
        BY EventAssumption, FS_Union DEF Threads
      <4> QED
        BY <4>1, <4>2, FS_Subset, FS_CardinalityType
    <3>2. Cardinality(waitq) = Cardinality(waitq') + c
      <4>1. waitq = waitq' \cup W /\ waitq' \cap W = {}
        BY <1>2
      <4>2. Cardinality(waitq' \cup W) = Cardinality(waitq') + Cardinality(W)
        BY <3>1, <4>1, DisjointSum
      <4> QED
        BY <2>3, <4>1, <4>2, Zenon
    <3>3. Cardinality(Awake') = Cardinality(Awake) + c
      <4>1. \A u \in W : u \in Threads /\ pc'[u] = "asleep"
        BY <1>0, <1>1, <1>2 DEF InStep, OthersStay, TypeOK, Threads
      <4>2. \A u \in Threads : pc'[u] \in Waiting <=> pc[u] \in Waiting
        BY <1>1 DEF OthersStay, Waiting
      <4>3. Awake' = Awake \cup W /\ Awake \cap W = {}
        BY <1>2, <4>1, <4>2 DEF Awake, Waiting
      <4>4. Cardinality(Awake \cup W) = Cardinality(Awake) + Cardinality(W)
        BY <3>1, <4>3, DisjointSum
      <4> QED
        BY <2>3, <4>3, <4>4, Zenon
    <3>4. SleepersCounted'
      BY <1>1, <1>3, <1>5, <2>1, <3>1, <3>2 DEF SleepersCounted, Traded
    <3>5. waitq' # {} => waitq # {}
      BY <1>2
    <3>6. Attended'
      BY <1>1, <1>3, <1>5, <2>1, <3>1, <3>2, <3>3, <3>5 DEF Attended, Traded
    <3> QED
      BY <3>4, <3>6
  <2> QED
    BY <1>2, <2>2, <2>3
<1> QED
  BY <1>6, <1>8, <1>9 DEF Safe

(* Every step of a signaler is one of these, or a reset, which steals any  *)
(* token that there is.                                                    *)
LEMMA SignalerSafe ==
  ASSUME Inv, TypeOK', NEW t \in Threads,
         RunSignal(t) \/ SignalMany(t) \/ SignalAll(t) \/ SignalLock(t) \/ Reset(t)
  PROVE  Finite' /\ Safe'
<1>1. CASE Reset(t)
  <2>1. UNCHANGED <<waitq, waiters, pc, count, old>> /\ val' = 0 /\ (~stolen' => val = 0 /\ ~stolen)
    BY <1>1 DEF Reset
  <2>2. /\ Finite' <=> Finite
        /\ Sleepy' = Sleepy /\ Awake' = Awake /\ Checking' = Checking /\ Promised' = Promised
        /\ Due' = Due /\ Sweeping' = Sweeping
    BY <2>1 DEF Finite, Sleepy, Awake, Checking, Promised, Due, Sweeping
  <2>3. ASSUME ~stolen'
        PROVE  LockStays' /\ SleepyCounted' /\ (~Sweeping' => SleepersCounted' /\ Attended')
    <3>1. LockStays /\ SleepyCounted /\ (~Sweeping => SleepersCounted /\ Attended) /\ val' = val
      BY <2>1, <2>3 DEF Inv, Safe
    <3> QED
      BY <2>1, <2>2, <3>1 DEF LockStays, SleepyCounted, SleepersCounted, Attended
  <2> QED
    BY <2>2, <2>3 DEF Inv, Safe
<1>2. CASE SignalManySet(t) \/ SignalManyRecheck(t) \/ SignalManyWake(t) \/ SignalMany(t)
  BY <1>2, ManySafe, ManySetSafe, RecheckSafe, ManyWakeSafe
<1>3. CASE \/ SignalAll(t) \/ SignalLock(t) \/ SignalLockAll(t)
           \/ SignalAllSet(t) \/ SignalAllLate(t) \/ SignalAllLateSet(t)
  BY <1>3, SweepSafe
<1>4. CASE SignalAllWake(t)
  BY <1>4, AllWakeSafe
<1> QED
  BY <1>1, <1>2, <1>3, <1>4 DEF RunSignal
----------------------------------------------------------------------------

(* The invariant holds at first ...                                        *)
LEMMA InitInv == Init => Inv
<1> SUFFICES ASSUME Init PROVE Inv
  OBVIOUS
<1>1. TypeOK /\ InStep
  <2>1. pc \in [Threads -> Labels]
    BY DEF Init, Labels
  <2>2. val \in Int /\ val >= -1 /\ waitq \subseteq Waiters /\ waiters \in Nat
    <3>1. val = 0 /\ waitq = {} /\ waiters = 0
      BY DEF Init
    <3> QED
      BY <3>1
  <2>3. count \in [Threads -> Nat] /\ old \in [Threads -> Int] /\ calls \in [Threads -> Nat]
    BY DEF Init
  <2>4. stolen \in BOOLEAN
    BY Zenon DEF Init
  <2>5. TypeOK
    BY <2>1, <2>2, <2>3, <2>4 DEF TypeOK
  <2>6. InStep
    BY DEF Init, InStep, Waiting
  <2> QED
    BY <2>5, <2>6
<1>2. Promised = {} /\ Due = {} /\ Sleepy = {} /\ waitq = {}
  BY DEF Init, Promised, Due, Sleepy, Tickets, Promising, Owing
<1>3. Finite
  BY <1>2, FS_EmptySet DEF Finite
<1>4. /\ Cardinality(Promised) = 0 /\ Cardinality(Due) = 0
      /\ Cardinality(Sleepy) = 0 /\ Cardinality(waitq) = 0
  BY <1>2, FS_EmptySet
<1>5. LockStays /\ SleepyCounted /\ SleepersCounted /\ Attended
  BY <1>2, <1>4 DEF Init, LockStays, SleepyCounted, SleepersCounted, Attended
<1> QED
  BY <1>1, <1>3, <1>5 DEF Inv, Safe

(* ... and every step keeps it.                                            *)
LEMMA StepKeepsInv == Inv /\ [Next]_vars => Inv'
<1> SUFFICES ASSUME Inv, [Next]_vars PROVE Inv'
  OBVIOUS
<1>1. TypeOK' /\ InStep'
  BY TypeStep, InStepStep DEF Inv
<1>2. Finite' /\ Safe'
  <2>1. CASE UNCHANGED vars
    BY <2>1 DEF vars, Inv, Finite, Safe, LockStays, SleepyCounted, SleepersCounted, Attended,
                Sleepy, Awake, Checking, Promised, Due, Sweeping
  <2>2. CASE \E t \in Threads : RunWait(t) \/ RunSignal(t) \/ Environment(t)
    BY <1>1, <2>2, WaiterSafe, SignalerSafe DEF Environment
  <2> QED
    BY <2>1, <2>2 DEF Next
<1> QED
  BY <1>1, <1>2 DEF Inv

(* The variables keep their types: a value below -1, or a count of waiters *)
(* below 0, which would be a huge number to the code, does not occur.      *)
THEOREM TypeCorrect == Spec => []TypeOK
<1>1. Inv => TypeOK
  BY DEF Inv
<1> QED
  BY <1>1, InitInv, StepKeepsInv, PTL DEF Spec

(* When every thread is out of the event or asleep on it, and someone      *)
(* sleeps, there is no token, as long as no token or announcement has been *)
(* taken from under another waiter: eventSignalMany and eventSignalAll     *)
(* wake a thread for each token that they add, or leave no thread to wake. *)
THEOREM NoStrandedWaiterHolds == Spec => []NoStrandedWaiterUnlessStolen
<1>1. Inv => NoStrandedWaiterUnlessStolen
  <2> SUFFICES ASSUME Inv, ~stolen, Quiet, waitq # {} PROVE val = 0
    BY DEF NoStrandedWaiterUnlessStolen, NoStrandedWaiter
  <2>1. \A t \in Threads : pc[t] \in {"idle", "asleep"} /\ (pc[t] = "asleep" => t \in waitq)
    BY DEF Quiet, Inv, InStep
  <2>2. Promised = {} /\ Due = {} /\ Checking = {} /\ Awake = {}
    BY <2>1 DEF Promised, Due, Checking, Awake, Tickets, Promising, Owing, Waiting
  <2>3. ~Sweeping
    BY <2>1 DEF Sweeping, SweepLabels
  <2>4. /\ Cardinality(Promised) = 0 /\ Cardinality(Due) = 0
        /\ Cardinality(Checking) = 0 /\ Cardinality(Awake) = 0
    BY <2>2, FS_EmptySet
  <2>5. Cardinality(waitq) \in Nat /\ Cardinality(waitq) # 0
    BY SetSize, EventAssumption DEF Inv, TypeOK
  <2> QED
    BY <2>3, <2>4, <2>5 DEF Inv, Safe, Attended, TypeOK
<1> QED
  BY <1>1, InitInv, StepKeepsInv, PTL DEF Spec
============================================================================
