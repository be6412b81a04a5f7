-------------------------- MODULE SemaphoreProofs --------------------------
(***************************************************************************)
(* Proofs about Semaphore: type correctness, in particular that the count  *)
(* never falls below 0, that no decrement or increment is lost or counted  *)
(* twice, and that no count waits next to a sleeper.                       *)
(***************************************************************************)
EXTENDS Semaphore, FiniteSetTheorems, TLAPS

(***************************************************************************)
(* How large a set is, and how that changes when one member comes or goes. *)
(***************************************************************************)
(* The sizes of A and B, which differ at most in whether t is a member.    *)
Swap(A, B, t) ==
  /\ Cardinality(A) \in Nat /\ Cardinality(B) \in Nat
  /\ t \in A /\ t \in B => Cardinality(B) = Cardinality(A)
  /\ t \notin A /\ t \notin B => Cardinality(B) = Cardinality(A)
  /\ t \notin A /\ t \in B => Cardinality(B) = Cardinality(A) + 1
  /\ t \in A /\ t \notin B => Cardinality(A) = Cardinality(B) + 1

(* At most t comes or goes.                                                *)
LEMMA SetSwap ==
  ASSUME NEW T, IsFiniteSet(T), NEW A \in SUBSET T, NEW B \in SUBSET T, NEW t,
         \A u \in T : u # t => (u \in A <=> u \in B)
  PROVE  Swap(A, B, t)
<1>1. IsFiniteSet(A) /\ IsFiniteSet(B)
  BY FS_Subset
<1>2. Cardinality(A) \in Nat /\ Cardinality(B) \in Nat
  BY <1>1, FS_CardinalityType
<1>3. (t \in A <=> t \in B) => A = B
  OBVIOUS
<1>4. ASSUME t \notin A, t \in B
      PROVE  Cardinality(B) = Cardinality(A) + 1
  <2>1. B = A \cup {t}
    BY <1>4
  <2> QED
    BY <1>1, <1>4, <2>1, FS_AddElement
<1>5. ASSUME t \in A, t \notin B
      PROVE  Cardinality(A) = Cardinality(B) + 1
  <2>1. A = B \cup {t}
    BY <1>5
  <2> QED
    BY <1>1, <1>5, <2>1, FS_AddElement
<1> QED
  BY <1>2, <1>3, <1>4, <1>5 DEF Swap

(* A subset of a finite set has no members exactly if its size is 0.       *)
LEMMA SetSize ==
  ASSUME NEW T, IsFiniteSet(T), NEW A \in SUBSET T
  PROVE  Cardinality(A) \in Nat /\ (Cardinality(A) = 0 <=> A = {})
BY FS_Subset, FS_CardinalityType, FS_EmptySet

(* Sets with nothing in common add up.                                     *)
LEMMA DisjointSum ==
  ASSUME NEW A, NEW B, IsFiniteSet(A), IsFiniteSet(B), A \cap B = {}
  PROVE  IsFiniteSet(A \cup B) /\ Cardinality(A \cup B) = Cardinality(A) + Cardinality(B)
<1>1. Cardinality(A) \in Nat /\ Cardinality(B) \in Nat
  BY FS_CardinalityType
<1>2. Cardinality(A \cap B) = 0
  <2>1. Cardinality({}) = 0
    BY FS_EmptySet
  <2> QED
    BY <2>1
<1>3. /\ IsFiniteSet(A \cup B)
      /\ Cardinality(A \cup B) = Cardinality(A) + Cardinality(B) - Cardinality(A \cap B)
  BY FS_Union
<1> QED
  BY <1>1, <1>2, <1>3

(* As many tickets for each member of P as f says.                         *)
Tickets(P, f) == UNION {{p} \X (1..f[p]) : p \in P}

(* One member with its tickets.                                            *)
LEMMA TicketsOf ==
  ASSUME NEW t, NEW n \in Nat
  PROVE  IsFiniteSet({t} \X (1..n)) /\ Cardinality({t} \X (1..n)) = n
<1>1. IsFiniteSet({t}) /\ Cardinality({t}) = 1
  BY FS_Singleton
<1> DEFINE N == 1..n
<1>2. IsFiniteSet(N) /\ Cardinality(N) = n
  BY FS_Interval
<1> HIDE DEF N
<1>3. IsFiniteSet({t} \X N) /\ Cardinality({t} \X N) = Cardinality({t}) * Cardinality(N)
  BY <1>1, <1>2, FS_Product
<1>4. Cardinality({t} \X N) = 1 * n
  BY <1>1, <1>2, <1>3, Zenon
<1>5. 1 * n = n
  OBVIOUS
<1>6. IsFiniteSet({t} \X N) /\ Cardinality({t} \X N) = n
  BY <1>3, <1>4, <1>5, Zenon
<1> QED
  BY <1>6 DEF N

(* A set of tickets S becomes R when one member's n tickets become m.      *)
Traded(S, n, R, m) ==
  /\ Cardinality(S) \in Nat /\ IsFiniteSet(R) /\ Cardinality(R) \in Nat
  /\ Cardinality(R) + n = Cardinality(S) + m

(* Only t joins or leaves, or has another number of tickets.               *)
LEMMA TicketsTraded ==
  ASSUME NEW P, NEW f, NEW Q, NEW g, NEW t, NEW n \in Nat, NEW m \in Nat,
         IsFiniteSet(Tickets(P, f)),
         \A p : p # t => (p \in P <=> p \in Q) /\ (p \in P => f[p] = g[p]),
         n = IF t \in P THEN f[t] ELSE 0,
         m = IF t \in Q THEN g[t] ELSE 0
  PROVE  Traded(Tickets(P, f), n, Tickets(Q, g), m)
<1> DEFINE S == Tickets(P, f)
           R == Tickets(Q, g)
           Rest == {q \in S : q \notin {t} \X (1..n)}
           A == {t} \X (1..n)
           B == {t} \X (1..m)
<1>1. \A q : q \in S <=> \E p \in P : q \in {p} \X (1..f[p])
  BY DEF Tickets
<1>2. \A q : q \in R <=> \E p \in Q : q \in {p} \X (1..g[p])
  BY DEF Tickets
<1>3. \A q : q \in Rest <=> \E p \in P : p # t /\ q \in {p} \X (1..f[p])
  BY <1>1
<1>4. S = Rest \cup A /\ Rest \cap A = {}
  <2>1. A \subseteq S
    BY <1>1
  <2> QED
    BY <2>1
<1>5. R = Rest \cup B /\ Rest \cap B = {}
  <2>1. ASSUME NEW q PROVE q \in R <=> q \in Rest \/ q \in B
    <3>1. CASE q \in R
      BY <1>2, <1>3, <3>1
    <3>2. CASE q \in Rest
      BY <1>2, <1>3, <3>2
    <3>3. CASE q \in B
      BY <1>2, <3>3
    <3> QED
      BY <3>1, <3>2, <3>3
  <2>2. Rest \cap B = {}
    BY <1>3
  <2> QED
    BY <2>1, <2>2
<1>6. IsFiniteSet(A) /\ Cardinality(A) = n /\ IsFiniteSet(B) /\ Cardinality(B) = m
  BY TicketsOf
<1>7. Rest \in SUBSET S /\ IsFiniteSet(S)
  OBVIOUS
<1> HIDE DEF S, R, Rest, A, B
<1>8. IsFiniteSet(Rest) /\ Cardinality(Rest) \in Nat
  BY <1>7, FS_Subset, FS_CardinalityType
<1>9. Cardinality(S) = Cardinality(Rest) + n
  <2>1. Cardinality(Rest \cup A) = Cardinality(Rest) + Cardinality(A)
    BY <1>4, <1>6, <1>8, DisjointSum
  <2> QED
    BY <1>4, <1>6, <2>1, Zenon
<1>10. IsFiniteSet(R) /\ Cardinality(R) = Cardinality(Rest) + m
  <2>1. /\ IsFiniteSet(Rest \cup B)
        /\ Cardinality(Rest \cup B) = Cardinality(Rest) + Cardinality(B)
    BY <1>5, <1>6, <1>8, DisjointSum
  <2> QED
    BY <1>5, <1>6, <2>1, Zenon
<1>11. Traded(S, n, R, m)
  BY <1>8, <1>9, <1>10 DEF Traded
<1> QED
  BY <1>11 DEF S, R

-----------------------------------------------------------------------------
(* An exchange is only tried with a value that was not 0 when loaded.      *)
CasPositive == \A t \in Threads : pc[t] = "cas" => lval[t] > 0

Inv == TypeOK /\ CasPositive

(* A load keeps both parts: the exchange is tried on a positive value.     *)
LEMMA LoadKeeps ==
  ASSUME Inv, NEW t \in Waiters, NEW from \in Labels, Load(t, from)
  PROVE  /\ pc' \in [Threads -> Labels] /\ lval' \in [Threads -> Nat]
         /\ CasPositive'
<1> USE DEF Inv, TypeOK, Labels, Threads
<1>1. pc' = [pc EXCEPT ![t] = IF val > 0 THEN "cas" ELSE "check"]
  BY DEF Load, Goto
<1>2. lval' = [lval EXCEPT ![t] = val]
  BY DEF Load
<1>3. CasPositive'
  BY <1>1, <1>2 DEF CasPositive
<1> QED
  BY <1>1, <1>2, <1>3

(* Both parts are inductive together.  TypeOK alone is not: the exchange   *)
(* of semaTryDecTimeout would take the count below 0 if it were tried on 0.*)
LEMMA StepKeepsInv == Inv /\ [Next]_vars => Inv'
<1> SUFFICES ASSUME Inv, [Next]_vars PROVE Inv'
  OBVIOUS
<1> USE SemaphoreAssumption DEF Inv, TypeOK, Labels, Threads
<1>1. CASE UNCHANGED vars
  BY <1>1 DEF vars, CasPositive
<1>2. ASSUME NEW t \in Waiters,
             \/ Dec(t) \/ DecCas(t) \/ DecContinue(t) \/ DecGiveUp(t)
             \/ DecSpin(t) \/ DecSleep(t) \/ DecWoken(t) \/ DecSleepEnds(t)
      PROVE  Inv'
  <2>1. CASE Dec(t)
    BY <2>1, LoadKeeps DEF Dec, StartCall
  <2>2. CASE DecCas(t)
    <3>1. CASE val = lval[t]
      <4>1. lval[t] > 0
        BY <2>2 DEF DecCas, CasPositive, Goto
      <4>2. TypeOK'
        BY <2>2, <3>1, <4>1 DEF DecCas, Goto
      <4>3. CasPositive'
        BY <2>2, <3>1 DEF DecCas, Goto, CasPositive
      <4> QED
        BY <4>2, <4>3
    <3>2. CASE val # lval[t]
      BY <2>2, <3>2 DEF DecCas, Goto, CasPositive
    <3> QED
      BY <3>1, <3>2
  <2>3. CASE DecContinue(t)
    BY <2>3 DEF DecContinue, Goto, CasPositive
  <2>4. CASE DecGiveUp(t)
    <3>1. swallowed' \in BOOLEAN
      BY <2>4, Zenon DEF DecGiveUp
    <3>2. CasPositive'
      BY <2>4 DEF DecGiveUp, Goto, CasPositive
    <3> QED
      BY <2>4, <3>1, <3>2 DEF DecGiveUp, Goto
  <2>5. CASE DecSpin(t)
    BY <2>5, LoadKeeps DEF DecSpin
  <2>6. CASE DecSleep(t)
    BY <2>6 DEF DecSleep, Ftx!FutexWait, Goto, CasPositive
  <2>7. CASE DecWoken(t)
    BY <2>7, LoadKeeps DEF DecWoken
  <2>8. CASE DecSleepEnds(t)
    BY <2>8, LoadKeeps DEF DecSleepEnds, Ftx!FutexEnd
  <2> QED
    BY <1>2, <2>1, <2>2, <2>3, <2>4, <2>5, <2>6, <2>7, <2>8
<1>3. ASSUME NEW t \in Producers, Inc(t) \/ IncWake(t)
      PROVE  Inv'
  <2>1. CASE Inc(t)
    <3>1. PICK n \in Counts : /\ val' = val + n /\ added' = added + n
                              /\ count' = [count EXCEPT ![t] = n]
      BY <2>1 DEF Inc
    <3>2. CasPositive'
      BY <2>1 DEF Inc, Goto, CasPositive
    <3> QED
      BY <2>1, <3>1, <3>2 DEF Inc, Goto, StartCall
  <2>2. CASE IncWake(t)
    BY <2>2 DEF IncWake, Ftx!FutexWakeMany, Goto, CasPositive
  <2> QED
    BY <1>3, <2>1, <2>2
<1> QED
  BY <1>1, <1>2, <1>3 DEF Next

(* The invariant holds in every reachable state.                           *)
LEMMA InvHolds == Spec => []Inv
<1>1. Init => Inv
  <2>1. Init => swallowed \in BOOLEAN
    BY Zenon DEF Init
  <2> QED
    BY <2>1, SemaphoreAssumption DEF Init, Inv, TypeOK, Labels, CasPositive, Threads
<1> QED
  BY <1>1, StepKeepsInv, PTL DEF Spec

(* The count is a natural number in every state: no interleaving of        *)
(* decrements takes it below 0.                                            *)
THEOREM TypeCorrect == Spec => []TypeOK
BY InvHolds, PTL DEF Inv

(* The count is exact, for any number of threads, whatever exchanges raced *)
(* and whichever calls gave up: it is what was there and was added, less   *)
(* what semaDec and its timed form have taken.                             *)
THEOREM CountExactHolds == Spec => []CountExact
<1>1. Init => CountExact
  BY SemaphoreAssumption DEF Init, CountExact
<1>2. Inv /\ CountExact /\ [Next]_vars => CountExact'
  <2> SUFFICES ASSUME Inv, CountExact, [Next]_vars PROVE CountExact'
    OBVIOUS
  <2> USE SemaphoreAssumption DEF Inv, TypeOK, CountExact
  <2>1. CASE UNCHANGED vars
    BY <2>1 DEF vars
  <2>2. ASSUME NEW t \in Waiters, DecCas(t) PROVE CountExact'
    BY <2>2 DEF DecCas
  <2>3. ASSUME NEW t \in Waiters,
               \/ Dec(t) \/ DecContinue(t) \/ DecGiveUp(t)
               \/ DecSpin(t) \/ DecSleep(t) \/ DecWoken(t) \/ DecSleepEnds(t)
        PROVE  CountExact'
    BY <2>3 DEF Dec, DecContinue, DecGiveUp, DecSpin, DecSleep, DecWoken, DecSleepEnds
  <2>4. ASSUME NEW t \in Producers, Inc(t) PROVE CountExact'
    BY <2>4 DEF Inc
  <2>5. ASSUME NEW t \in Producers, IncWake(t) PROVE CountExact'
    BY <2>5 DEF IncWake
  <2> QED
    BY <2>1, <2>2, <2>3, <2>4, <2>5 DEF Next
<1> QED
  BY <1>1, <1>2, InvHolds, PTL DEF Spec
----------------------------------------------------------------------------

(* Waiters that will try to take a count before they sleep or give up:     *)
(* they have seen one, or have been woken for one.                         *)
Hungry ==
  {t \in Waiters : \/ pc[t] = "cas"
                   \/ pc[t] = "check" /\ lval[t] > 0
                   \/ pc[t] = "asleep" /\ t \notin waitq}

(* The wake-ups that increments still owe, one for each count they added.  *)
Owed == Tickets({p \in Producers : pc[p] = "wake"}, count)

(* Every count that is left is attended to, while somebody sleeps: by a    *)
(* wake-up to come or by a waiter that is awake.                           *)
Attended == waitq # {} /\ ~swallowed => val <= Cardinality(Owed) + Cardinality(Hungry)

Wakeful ==
  /\ Inv
  /\ \A t \in waitq : pc[t] = "asleep"
  /\ IsFiniteSet(Owed)
  /\ Attended

(* What t is to these sets decides how many waiters are hungry.            *)
LEMMA HungrySwap ==
  ASSUME NEW t \in Waiters,
         \A u \in Waiters : u # t => /\ pc'[u] = pc[u] /\ lval'[u] = lval[u]
                                     /\ u \in waitq' <=> u \in waitq
  PROVE  Swap(Hungry, Hungry', t)
<1>1. Hungry \in SUBSET Waiters /\ Hungry' \in SUBSET Waiters
  BY DEF Hungry
<1>2. \A u \in Waiters : u # t => (u \in Hungry <=> u \in Hungry')
  BY DEF Hungry
<1> QED
  BY <1>1, <1>2, SetSwap, SemaphoreAssumption

(* The wake-ups that are owed change only by who is about to wake.         *)
LEMMA SameOwed ==
  ASSUME \A p \in Producers : /\ pc'[p] = "wake" <=> pc[p] = "wake"
                              /\ pc[p] = "wake" => count'[p] = count[p]
  PROVE  Owed' = Owed
<1> DEFINE P == {p \in Producers : pc[p] = "wake"}
<1>1. {p \in Producers : pc'[p] = "wake"} = P
  OBVIOUS
<1>2. \A p \in P : {p} \X (1..count'[p]) = {p} \X (1..count[p])
  OBVIOUS
<1>3. {{p} \X (1..count'[p]) : p \in P} = {{p} \X (1..count[p]) : p \in P}
  BY <1>2
<1> QED
  BY <1>1, <1>3 DEF Owed, Tickets

(* A step of a waiter that leaves no count unattended: the count is 0, or  *)
(* the waiter takes one, or it does not become indifferent.                *)
LEMMA WaiterAttends ==
  ASSUME Wakeful, NEW t \in Waiters, NEW from, NEW to \in Labels, Goto(t, from, to),
         from # "wake", to # "wake", UNCHANGED count, val' \in Nat,
         \A u \in Waiters : u # t => lval'[u] = lval[u] /\ (u \in waitq' <=> u \in waitq),
         \/ val' = 0
         \/ /\ waitq' # {} => waitq # {}
            /\ swallowed => swallowed'
            /\ \/ val' = val /\ (t \in Hungry => t \in Hungry')
               \/ val' = val - 1
         \/ swallowed'
  PROVE  IsFiniteSet(Owed') /\ Attended'
<1>1. pc \in [Threads -> Labels] /\ val \in Nat /\ t \in Threads
  BY DEF Wakeful, Inv, TypeOK, Threads
<1>2. pc[t] = from /\ pc'[t] = to /\ \A u \in Threads : u # t => pc'[u] = pc[u]
  BY <1>1 DEF Goto
<1>3. Owed' = Owed
  <2>1. \A p \in Producers : /\ pc'[p] = "wake" <=> pc[p] = "wake"
                             /\ pc[p] = "wake" => count'[p] = count[p]
    BY <1>2 DEF Threads
  <2> QED
    BY <2>1, SameOwed
<1>4. Swap(Hungry, Hungry', t)
  <2>1. \A u \in Waiters : u # t => /\ pc'[u] = pc[u] /\ lval'[u] = lval[u]
                                    /\ u \in waitq' <=> u \in waitq
    BY <1>2 DEF Threads
  <2> QED
    BY <2>1, HungrySwap
<1>5. /\ IsFiniteSet(Owed) /\ Cardinality(Owed) \in Nat
      /\ Cardinality(Owed') = Cardinality(Owed)
  BY <1>3, FS_CardinalityType DEF Wakeful
<1>6. IsFiniteSet(Owed')
  BY <1>3, <1>5
<1>7. Attended'
  BY <1>1, <1>4, <1>5 DEF Attended, Wakeful, Swap
<1> QED
  BY <1>6, <1>7

(* A load keeps a count attended: whoever sees one tries to take it.       *)
LEMMA LoadAttends ==
  ASSUME Wakeful, NEW t \in Waiters, NEW from \in {"idle", "sleep", "asleep"}, Load(t, from),
         UNCHANGED <<val, count, swallowed>>, waitq' \in SUBSET waitq,
         \A u \in Waiters : u # t => (u \in waitq' <=> u \in waitq)
  PROVE  IsFiniteSet(Owed') /\ Attended'
<1>1. /\ pc \in [Threads -> Labels] /\ lval \in [Threads -> Nat] /\ val \in Nat /\ val' \in Nat
      /\ t \in Threads /\ Waiters \subseteq Threads
  BY DEF Wakeful, Inv, TypeOK, Threads
<1>2. PICK to \in {"cas", "check"} : Goto(t, from, to) /\ (val > 0 => to = "cas")
  BY DEF Load
<1>3. to \in Labels /\ from # "wake" /\ to # "wake"
  BY DEF Labels
<1>4. \A u \in Waiters : u # t => lval'[u] = lval[u]
  BY <1>1 DEF Load
<1>5. val' = 0 \/ (val' = val /\ t \in Hungry')
  BY <1>1, <1>2 DEF Goto, Hungry
<1> QED
  BY <1>1, <1>2, <1>3, <1>4, <1>5, WaiterAttends

(* An increment owes as many wake-ups as it adds.                          *)
LEMMA IncAttends ==
  ASSUME Wakeful, NEW t \in Producers, Inc(t)
  PROVE  IsFiniteSet(Owed') /\ Attended'
<1>1. /\ pc \in [Threads -> Labels] /\ count \in [Threads -> Nat] /\ val \in Nat
      /\ t \in Threads /\ Producers \subseteq Threads
  BY DEF Wakeful, Inv, TypeOK, Threads
<1>2. PICK n \in Counts : val' = val + n /\ count' = [count EXCEPT ![t] = n]
  BY DEF Inc
<1>3. n \in Nat
  BY <1>2, SemaphoreAssumption
<1>4. pc[t] = "idle" /\ pc' = [pc EXCEPT ![t] = "wake"] /\ UNCHANGED <<waitq, lval, swallowed>>
  BY DEF Inc, Goto
<1>8. Cardinality(Owed) \in Nat
  BY FS_CardinalityType DEF Wakeful
<1>9. IsFiniteSet(Owed') /\ Cardinality(Owed') = Cardinality(Owed) + n
  <2> DEFINE P == {p \in Producers : pc[p] = "wake"}
             Q == {p \in Producers : pc'[p] = "wake"}
  <2>1. \A p : p # t => (p \in P <=> p \in Q) /\ (p \in P => count[p] = count'[p])
    BY <1>1, <1>2, <1>4
  <2>2. t \notin P /\ t \in Q /\ count'[t] = n
    BY <1>1, <1>2, <1>4
  <2>3. IsFiniteSet(Tickets(P, count))
    BY DEF Wakeful, Owed
  <2> HIDE DEF P, Q
  <2>4. Traded(Tickets(P, count), 0, Tickets(Q, count'), n)
    BY <1>3, <2>1, <2>2, <2>3, TicketsTraded
  <2>5. Traded(Owed, 0, Owed', n)
    BY <2>4 DEF Owed, P, Q
  <2> QED
    BY <1>3, <1>8, <2>5 DEF Traded
<1>10. Hungry' = Hungry
  BY <1>1, <1>4 DEF Hungry
<1>11. Hungry \in SUBSET Waiters
  BY DEF Hungry
<1>12. Cardinality(Hungry) \in Nat /\ Cardinality(Hungry') = Cardinality(Hungry)
  BY <1>10, <1>11, SetSize, SemaphoreAssumption
<1> QED
  BY <1>1, <1>2, <1>3, <1>4, <1>8, <1>9, <1>12 DEF Attended, Wakeful

(* The wake-ups go to as many sleepers, or to all of them.                 *)
LEMMA IncWakeAttends ==
  ASSUME Wakeful, NEW t \in Producers, IncWake(t)
  PROVE  IsFiniteSet(Owed') /\ Attended'
<1>1. /\ pc \in [Threads -> Labels] /\ count \in [Threads -> Nat] /\ val \in Nat
      /\ t \in Threads /\ Producers \subseteq Threads /\ Waiters \subseteq Threads /\ waitq \subseteq Waiters
  BY DEF Wakeful, Inv, TypeOK, Threads
<1>2. /\ pc[t] = "wake" /\ pc' = [pc EXCEPT ![t] = "idle"] /\ count' = [count EXCEPT ![t] = 0]
      /\ UNCHANGED <<val, lval, swallowed>>
  BY DEF IncWake, Goto
<1>3. PICK W \in SUBSET waitq :
        /\ W = waitq \/ Cardinality(W) = count[t]
        /\ waitq' = waitq \ W
  <2>1. Ftx!FutexWakeMany(count[t])
    BY DEF IncWake
  <2>2. \A S : Ftx!Cardinality(S) = Cardinality(S)
    BY DEF Cardinality, Ftx!Cardinality
  <2> QED
    BY <2>1, <2>2, Zenon DEF Ftx!FutexWakeMany
<1>4. count[t] \in Nat
  BY <1>1
<1>7. /\ IsFiniteSet(Owed') /\ Cardinality(Owed) \in Nat /\ Cardinality(Owed') \in Nat
      /\ Cardinality(Owed') = Cardinality(Owed) - count[t]
  <2> DEFINE P == {p \in Producers : pc[p] = "wake"}
             Q == {p \in Producers : pc'[p] = "wake"}
  <2>1. \A p : p # t => (p \in P <=> p \in Q) /\ (p \in P => count[p] = count'[p])
    BY <1>1, <1>2
  <2>2. t \in P /\ t \notin Q
    BY <1>1, <1>2
  <2>3. IsFiniteSet(Tickets(P, count))
    BY DEF Wakeful, Owed
  <2> HIDE DEF P, Q
  <2>4. Traded(Tickets(P, count), count[t], Tickets(Q, count'), 0)
    BY <1>4, <2>1, <2>2, <2>3, TicketsTraded
  <2>5. Traded(Owed, count[t], Owed', 0)
    BY <2>4 DEF Owed, P, Q
  <2> QED
    BY <1>4, <2>5 DEF Traded
<1>9. CASE W = waitq
  BY <1>3, <1>7, <1>9 DEF Attended
<1>10. CASE Cardinality(W) = count[t]
  <2>1. \A u \in W : pc[u] = "asleep" /\ u # t /\ pc'[u] = "asleep" /\ u \in Waiters
    BY <1>1, <1>2, <1>3 DEF Wakeful
  <2>2. Hungry' = Hungry \cup W
    <3>1. \A u \in Waiters : u \notin W => (u \in waitq' <=> u \in waitq)
      BY <1>3
    <3>2. \A u \in Waiters : pc'[u] \in {"cas", "check", "asleep"} => pc'[u] = pc[u]
      BY <1>1, <1>2
    <3>3. \A u \in Waiters : pc[u] \in {"cas", "check", "asleep"} => pc'[u] = pc[u]
      BY <1>1, <1>2
    <3>4. W \in SUBSET Hungry'
      BY <1>3, <2>1 DEF Hungry
    <3>5. Hungry \in SUBSET Hungry'
      BY <1>2, <1>3, <3>3 DEF Hungry
    <3>6. Hungry' \in SUBSET (Hungry \cup W)
      BY <1>2, <3>1, <3>2 DEF Hungry
    <3> QED
      BY <3>4, <3>5, <3>6
  <2>3. Hungry \cap W = {}
    BY <1>3, <2>1 DEF Hungry
  <2>4. IsFiniteSet(Hungry) /\ IsFiniteSet(W) /\ Cardinality(Hungry) \in Nat
    <3>1. Hungry \in SUBSET Waiters /\ W \in SUBSET Waiters
      BY <1>1 DEF Hungry
    <3> QED
      BY <3>1, SemaphoreAssumption, FS_Subset, FS_CardinalityType
  <2>5. Cardinality(Hungry') = Cardinality(Hungry) + count[t]
    <3>1. Cardinality(Hungry \cup W) = Cardinality(Hungry) + Cardinality(W)
      BY <2>3, <2>4, DisjointSum
    <3> QED
      BY <1>10, <2>2, <3>1, Zenon
  <2>6. waitq' # {} => waitq # {}
    BY <1>3
  <2> QED
    BY <1>1, <1>2, <1>4, <1>7, <2>4, <2>5, <2>6 DEF Attended, Wakeful
<1> QED
  BY <1>3, <1>9, <1>10

(* Every step keeps every count attended to.                               *)
LEMMA StepKeepsWakeful == Wakeful /\ [Next]_vars => Wakeful'
<1> SUFFICES ASSUME Wakeful, [Next]_vars PROVE Wakeful'
  OBVIOUS
<1>1. Inv' /\ Inv
  BY StepKeepsInv DEF Wakeful
<1>2. /\ pc \in [Threads -> Labels] /\ lval \in [Threads -> Nat] /\ val \in Nat /\ val' \in Nat
      /\ Waiters \subseteq Threads /\ Producers \subseteq Threads /\ waitq \subseteq Waiters
      /\ \A u \in waitq : pc[u] = "asleep"
  BY <1>1 DEF Wakeful, Inv, TypeOK, Threads
<1>3. CASE UNCHANGED vars
  <2>1. Owed' = Owed /\ Hungry' = Hungry
    BY <1>3 DEF vars, Owed, Hungry
  <2> QED
    BY <1>1, <1>3, <2>1 DEF vars, Wakeful, Attended
<1>4. ASSUME NEW t \in Producers, Inc(t) \/ IncWake(t)
      PROVE  Wakeful'
  <2>1. \A u \in waitq' : pc'[u] = "asleep"
    <3>1. waitq' \in SUBSET waitq
      BY <1>4 DEF Inc, IncWake, Ftx!FutexWakeMany
    <3>2. pc[t] # "asleep" /\ \A u \in Threads : u # t => pc'[u] = pc[u]
      BY <1>2, <1>4 DEF Inc, IncWake, Goto
    <3> QED
      BY <1>2, <3>1, <3>2
  <2> QED
    BY <1>1, <1>4, <2>1, IncAttends, IncWakeAttends DEF Wakeful
<1>5. ASSUME NEW t \in Waiters,
             \/ Dec(t) \/ DecCas(t) \/ DecContinue(t) \/ DecGiveUp(t)
             \/ DecSpin(t) \/ DecSleep(t) \/ DecWoken(t) \/ DecSleepEnds(t)
      PROVE  Wakeful'
  <2>1. \A u \in waitq' : pc'[u] = "asleep"
    BY <1>2, <1>5 DEF Dec, DecCas, DecContinue, DecGiveUp, DecSpin, DecSleep, DecWoken, DecSleepEnds,
                      Load, Goto, Ftx!FutexWait, Ftx!FutexEnd
  <2>2. IsFiniteSet(Owed') /\ Attended'
    <3>1. CASE Dec(t)
      BY <3>1, LoadAttends DEF Dec
    <3>2. CASE DecCas(t)
      <4>1. CASE val = lval[t]
        <5>1. Goto(t, "cas", "idle") /\ val' = val - 1 /\ UNCHANGED <<count, waitq, swallowed>>
          BY <3>2, <4>1 DEF DecCas
        <5>2. \A u \in Waiters : u # t => lval'[u] = lval[u] /\ (u \in waitq' <=> u \in waitq)
          BY <1>2, <3>2 DEF DecCas
        <5>3. "idle" \in Labels
          BY DEF Labels
        <5> QED
          BY <1>2, <5>1, <5>2, <5>3, WaiterAttends
      <4>2. CASE val # lval[t]
        <5>1. Goto(t, "cas", "check") /\ UNCHANGED <<val, count, waitq, swallowed>>
              /\ lval' = [lval EXCEPT ![t] = val]
          BY <3>2, <4>2 DEF DecCas
        <5>2. \A u \in Waiters : u # t => lval'[u] = lval[u] /\ (u \in waitq' <=> u \in waitq)
          BY <1>2, <5>1
        <5>3. val' = 0 \/ t \in Hungry'
          BY <1>2, <5>1 DEF Hungry, Goto
        <5>4. "check" \in Labels
          BY DEF Labels
        <5> QED
          BY <1>2, <5>1, <5>2, <5>3, <5>4, WaiterAttends
      <4> QED
        BY <4>1, <4>2
    <3>3. CASE DecContinue(t)
      <4>1. PICK to \in {"sleep", "cas"} : Goto(t, "check", to) /\ (lval[t] > 0 => to = "cas")
        BY <1>2, <3>3 DEF DecContinue
      <4>2. UNCHANGED <<val, count, waitq, lval, swallowed>>
        BY <3>3 DEF DecContinue
      <4>3. t \in Hungry => t \in Hungry'
        BY <1>2, <4>1, <4>2 DEF Hungry, Goto
      <4>4. to \in Labels /\ to # "wake"
        BY DEF Labels
      <4> QED
        BY <1>2, <4>1, <4>2, <4>3, <4>4, WaiterAttends
    <3>4. CASE DecGiveUp(t)
      <4>1. Goto(t, "check", "idle") /\ UNCHANGED <<val, count, waitq>>
        BY <3>4 DEF DecGiveUp
      <4>2. swallowed' = (swallowed \/ lval[t] > 0)
        BY <3>4 DEF DecGiveUp
      <4>3. swallowed' \/ (t \notin Hungry /\ (swallowed => swallowed'))
        BY <1>2, <4>1, <4>2 DEF Hungry, Goto
      <4>4. \A u \in Waiters : u # t => lval'[u] = lval[u] /\ (u \in waitq' <=> u \in waitq)
        BY <1>2, <3>4 DEF DecGiveUp
      <4>5. "idle" \in Labels
        BY DEF Labels
      <4> QED
        BY <1>2, <4>1, <4>3, <4>4, <4>5, WaiterAttends
    <3>5. CASE DecSpin(t)
      BY <3>5, LoadAttends DEF DecSpin
    <3>6. CASE DecSleep(t)
      <4>1. /\ Goto(t, "sleep", "asleep") /\ UNCHANGED <<val, count, lval>>
            /\ val = 0 /\ waitq' = waitq \union {t}
        BY <3>6 DEF DecSleep, Ftx!FutexWait
      <4>2. "asleep" \in Labels
        BY DEF Labels
      <4> QED
        BY <1>2, <4>1, <4>2, WaiterAttends
    <3>7. CASE DecWoken(t)
      BY <3>7, LoadAttends DEF DecWoken
    <3>8. CASE DecSleepEnds(t)
      <4>1. Load(t, "asleep") /\ UNCHANGED <<val, count, swallowed>> /\ waitq' = waitq \ {t}
        BY <3>8 DEF DecSleepEnds, Ftx!FutexEnd
      <4> QED
        BY <4>1, LoadAttends
    <3> QED
      BY <1>5, <3>1, <3>2, <3>3, <3>4, <3>5, <3>6, <3>7, <3>8
  <2> QED
    BY <1>1, <2>1, <2>2 DEF Wakeful
<1> QED
  BY <1>3, <1>4, <1>5 DEF Next

(* When every thread is out of the semaphore or asleep on it, a count that *)
(* is left has no sleeper, unless a call gave up next to one: for any      *)
(* number of threads, and increments by any counts.                        *)
THEOREM NoStrandedWaiterHolds == Spec => []NoStrandedWaiter
<1>1. Init => Wakeful
  <2> SUFFICES ASSUME Init PROVE Wakeful
    OBVIOUS
  <2>1. Inv
    <3>1. swallowed \in BOOLEAN
      BY Zenon DEF Init
    <3> QED
      BY <3>1, SemaphoreAssumption DEF Init, Inv, TypeOK, Labels, CasPositive, Threads
  <2>2. waitq = {}
    BY DEF Init
  <2>3. Owed = {}
    BY DEF Init, Owed, Tickets, Threads
  <2> QED
    BY <2>1, <2>2, <2>3, FS_EmptySet DEF Wakeful, Attended
<1>2. Wakeful => NoStrandedWaiter
  <2> SUFFICES ASSUME Wakeful, waitq # {}, ~swallowed,
                      \A t \in Threads : pc[t] = "idle" \/ t \in waitq
               PROVE  val = 0
    BY DEF NoStrandedWaiter
  <2>1. Owed = {}
    BY DEF Owed, Tickets, Threads, Wakeful
  <2>2. Hungry = {}
    BY DEF Hungry, Threads, Wakeful
  <2>3. val \in Nat /\ val <= 0 + 0
    <3>1. val <= Cardinality(Owed) + Cardinality(Hungry)
      BY DEF Wakeful, Attended
    <3>2. Cardinality(Owed) = 0 /\ Cardinality(Hungry) = 0
      BY <2>1, <2>2, FS_EmptySet
    <3> QED
      BY <3>1, <3>2 DEF Wakeful, Inv, TypeOK
  <2> QED
    BY <2>3
<1> QED
  BY <1>1, <1>2, StepKeepsWakeful, PTL DEF Spec
============================================================================
