--------------------------- MODULE RWLockProofs ----------------------------
(***************************************************************************)
(* Proofs about RWLock: the counts of the packed word are exact, the       *)
(* grants are what the releases promised, and the lock implements          *)
(* AbstractRWLock, all until a timed write acquisition gives up.           *)
(***************************************************************************)
EXTENDS RWLock, FiniteSetTheorems, TLAPS

(***************************************************************************)
(* How many threads are at a set of labels, and how that number changes    *)
(* when one thread moves.                                                  *)
(***************************************************************************)
(* The members of T that f puts into S.                                    *)
AtSet(T, f, S) == {t \in T : f[t] \in S}

CountOf(T, f, S) == Cardinality(AtSet(T, f, S))

(* A count over a finite set is a natural number, 0 when no thread counts. *)
LEMMA CountType ==
  ASSUME NEW T, IsFiniteSet(T), NEW f, NEW S
  PROVE  /\ CountOf(T, f, S) \in Nat
         /\ CountOf(T, f, S) = 0 <=> \A t \in T : f[t] \notin S
<1>1. AtSet(T, f, S) \in SUBSET T
  BY DEF AtSet
<1>2. IsFiniteSet(AtSet(T, f, S))
  BY <1>1, FS_Subset
<1>3. CountOf(T, f, S) \in Nat
  BY <1>2, FS_CardinalityType DEF CountOf
<1>4. CountOf(T, f, S) = 0 <=> AtSet(T, f, S) = {}
  BY <1>2, FS_EmptySet DEF CountOf
<1> QED
  BY <1>3, <1>4 DEF AtSet

(* n and m count the threads in S before and after one of them moves.      *)
Shifted(n, m, from, to, S) ==
  /\ n \in Nat /\ m \in Nat
  /\ from \in S /\ to \in S => m = n
  /\ from \notin S /\ to \notin S => m = n
  /\ from \notin S /\ to \in S => m = n + 1
  /\ from \in S /\ to \notin S => n = m + 1

(* One thread moves: the count changes by one if it enters or leaves S.    *)
LEMMA CountMove ==
  ASSUME NEW T, IsFiniteSet(T), NEW L, NEW f \in [T -> L], NEW S,
         NEW t \in T, NEW to
  PROVE  Shifted(CountOf(T, f, S), CountOf(T, [f EXCEPT ![t] = to], S), f[t], to, S)
<1> DEFINE g == [f EXCEPT ![t] = to]
<1> DEFINE A == AtSet(T, f, S)
           B == AtSet(T, g, S)
<1>1. A \in SUBSET T /\ B \in SUBSET T
  BY DEF AtSet
<1>2. IsFiniteSet(A) /\ IsFiniteSet(B)
  BY <1>1, FS_Subset
<1>3. Cardinality(A) \in Nat /\ Cardinality(B) \in Nat
  BY <1>2, FS_CardinalityType
<1>4. (f[t] \in S <=> to \in S) => A = B
  BY DEF AtSet
<1>5. ASSUME f[t] \notin S, to \in S
      PROVE  Cardinality(B) = Cardinality(A) + 1
  <2>1. B = A \cup {t} /\ t \notin A
    BY <1>5 DEF AtSet
  <2> QED
    BY <2>1, <1>2, FS_AddElement
<1>6. ASSUME f[t] \in S, to \notin S
      PROVE  Cardinality(A) = Cardinality(B) + 1
  <2>1. A = B \cup {t} /\ t \notin B
    BY <1>6 DEF AtSet
  <2> QED
    BY <2>1, <1>2, FS_AddElement
<1> QED
  BY <1>3, <1>4, <1>5, <1>6 DEF CountOf, Shifted

-----------------------------------------------------------------------------
(* How many threads are at the labels S.                                   *)
N(S) == CountOf(Threads, pc, S)

Granting == {"rgrant", "dgrant"}
ReadingAt == {"read", "dgrant", "dwake"}
WritersAt == {"wwait", "wsleep", "write"}
WaitingAt == {"rwait", "rsleep"}

(* At most one thread is between its write release and the adding of the   *)
(* read grants it owes, and it owes some unless it downgraded.             *)
OneGranter ==
  /\ \A t, u \in Threads : pc[t] \in Granting /\ pc[u] \in Granting => t = u
  /\ \A t \in Threads : pc[t] = "rgrant" => rwait[t] > 0

(* The readers of the word are the threads that read and the read grants   *)
(* not yet taken, those still owed included.                               *)
ReadersExact ==
  /\ (\A t \in Threads : pc[t] \notin Granting) => readers = N(ReadingAt) + rftx
  /\ \A t \in Threads : pc[t] \in Granting => readers = N(ReadingAt) + rftx + rwait[t]

(* The right to write, inside or as a grant, is given once, never while    *)
(* the word has readers, and only to a thread counted as a writer.         *)
WriteRight == N({"write"}) + wftx + N({"wgrant"})

OneWriteRight ==
  /\ WriteRight <= 1
  /\ readers > 0 => WriteRight = 0
  /\ WriteRight <= writers

(* Every waiting reader is registered, or has a grant to take.  It may be  *)
(* registered and have one: a call that gives up may withdraw another's    *)
(* registration and leave its own grant.                                   *)
WaitersRegistered ==
  /\ (\A t \in Threads : pc[t] \notin Granting) => N(WaitingAt) <= readwait + rftx
  /\ \A t \in Threads : pc[t] \in Granting => N(WaitingAt) <= readwait + rftx + rwait[t]
  /\ readwait > 0 => writers > 0

Turns == OneGranter /\ ReadersExact /\ OneWriteRight /\ WaitersRegistered

(* The writers of the word are the threads that write or wait to.          *)
WritersExact == writers = N(WritersAt)

Inv == TypeOK /\ ("write" \notin expired => WritersExact /\ Turns)
----------------------------------------------------------------------------

(* What the move of one thread does to a count.                            *)
LEMMA Moves ==
  ASSUME TypeOK, NEW t \in Threads, NEW from, NEW to, Goto(t, from, to), NEW S
  PROVE  Shifted(N(S), N(S)', from, to, S)
<1>1. pc \in [Threads -> Labels] /\ IsFiniteSet(Threads)
  BY RWLockAssumption DEF TypeOK
<1>2. pc[t] = from /\ pc' = [pc EXCEPT ![t] = to]
  BY DEF Goto
<1>3. N(S) = CountOf(Threads, pc, S) /\ N(S)' = CountOf(Threads, [pc EXCEPT ![t] = to], S)
  BY <1>2 DEF N
<1>4. Shifted(CountOf(Threads, pc, S), CountOf(Threads, [pc EXCEPT ![t] = to], S),
              pc[t], to, S)
  BY <1>1, CountMove, Zenon
<1> QED
  BY <1>2, <1>3, <1>4

(* A count is a natural number; a thread at one of the labels makes it     *)
(* positive.                                                               *)
LEMMA NType ==
  ASSUME NEW S
  PROVE  /\ N(S) \in Nat
         /\ N(S) = 0 <=> \A t \in Threads : pc[t] \notin S
BY CountType, RWLockAssumption DEF N

(* While the counts are exact, a thread that reads is one of the readers   *)
(* of the word, so its release has one to subtract ...                     *)
LEMMA ReaderCounted ==
  ASSUME TypeOK, Turns, NEW t \in Threads, pc[t] = "read"
  PROVE  readers > 0
<1>1. N(ReadingAt) \in Nat /\ N(ReadingAt) # 0
  BY NType DEF ReadingAt
<1>2. rftx \in Nat /\ rwait \in [Threads -> Nat]
  BY DEF TypeOK
<1>3. CASE \A u \in Threads : pc[u] \notin Granting
  BY <1>1, <1>2, <1>3 DEF Turns, ReadersExact
<1>4. ASSUME NEW u \in Threads, pc[u] \in Granting
      PROVE  readers > 0
  <2>1. readers = N(ReadingAt) + rftx + rwait[u] /\ rwait[u] \in Nat
    BY <1>2, <1>4 DEF Turns, ReadersExact
  <2> QED
    BY <1>1, <1>2, <2>1
<1> QED
  BY <1>3, <1>4

(* ... and a thread that writes is one of its writers.                     *)
LEMMA WriterCounted ==
  ASSUME TypeOK, Turns, NEW t \in Threads, pc[t] = "write"
  PROVE  writers > 0
<1>1. N({"write"}) \in Nat /\ N({"wgrant"}) \in Nat /\ N({"write"}) # 0
  BY NType
<1>2. N({"write"}) + wftx + N({"wgrant"}) <= writers
  BY DEF Turns, OneWriteRight, WriteRight
<1> QED
  BY <1>1, <1>2, RWLockAssumption DEF TypeOK

(* A reader that is counted leaves without borrowing.                      *)
LEMMA ReleaseReadExact ==
  ASSUME TypeOK, Turns, NEW t \in Threads, ReleaseRead(t)
  PROVE  /\ readers > 0 /\ readers' = readers - 1
         /\ UNCHANGED <<readwait, writers, rftx, wftx, rwait, expired>>
<1>1. readers > 0
  BY ReaderCounted DEF ReleaseRead, Goto
<1>2. readers \in Nat /\ readwait \in Nat
  BY RWLockAssumption DEF TypeOK
<1> QED
  BY <1>1, <1>2 DEF ReleaseRead, SubtractReader, OneLess, rfutex, wfutex

(* A writer that is counted finds itself in the word.                      *)
LEMMA ReleaseWriteExact ==
  ASSUME TypeOK, Turns, NEW t \in Threads, NEW downgrade \in BOOLEAN, NEW kept,
         ReleaseWriteInternal(t, downgrade, kept)
  PROVE  /\ writers > 0 /\ writers' = writers - 1
         /\ rwait' = [rwait EXCEPT ![t] = readwait]
         /\ UNCHANGED <<rftx, wftx>> /\ pc[t] = "write"
         /\ \/ /\ readwait > 0 \/ downgrade
               /\ readwait' = 0 /\ readers' = readwait + kept
               /\ Goto(t, "write", IF downgrade THEN "dgrant" ELSE "rgrant")
            \/ /\ readwait = 0 /\ ~downgrade
               /\ Goto(t, "write", IF writers > 1 THEN "wgrant" ELSE "idle")
               /\ UNCHANGED <<readwait, readers>>
<1>1. pc[t] = "write"
  BY DEF ReleaseWriteInternal, Goto
<1>2. writers > 0 /\ writers # 0
  BY <1>1, WriterCounted, RWLockAssumption DEF TypeOK
<1> QED
  BY <1>1, <1>2 DEF ReleaseWriteInternal, rfutex, wfutex

(* A Goto keeps the type of pc.                                            *)
LEMMA GotoType ==
  ASSUME pc \in [Threads -> Labels],
         NEW t \in Threads, NEW from, NEW to \in Labels, Goto(t, from, to)
  PROVE  pc' \in [Threads -> Labels]
BY DEF Goto

(* The types hold after a step: the word's counts stay within their masks. *)
LEMMA StepType ==
  ASSUME TypeOK, Next
  PROVE  TypeOK'
<1> USE RWLockAssumption DEF TypeOK
<1>1. PICK t \in Threads : Run(t) \/ Environment(t)
  BY DEF Next
<1>2. CASE ReadTake(t)
  BY <1>2, GotoType DEF ReadTake, word, wfutex, Labels
<1>3. CASE ReadSleep(t)
  BY <1>3, GotoType DEF ReadSleep, word, wfutex, RFtx!FutexWait, Labels
<1>4. CASE ReadWoken(t)
  BY <1>4, GotoType DEF ReadWoken, word, rfutex, wfutex, Labels
<1>5. CASE ReadSleepEnds(t)
  BY <1>5, GotoType DEF ReadSleepEnds, word, wfutex, RFtx!FutexEnd, Labels
<1>6. CASE WriteTake(t)
  BY <1>6, GotoType DEF WriteTake, word, rfutex, Labels
<1>7. CASE WriteSleep(t)
  BY <1>7, GotoType DEF WriteSleep, word, rfutex, WFtx!FutexWait, Labels
<1>8. CASE WriteWoken(t)
  BY <1>8, GotoType DEF WriteWoken, word, rfutex, wfutex, Labels
<1>9. CASE WriteSleepEnds(t)
  BY <1>9, GotoType DEF WriteSleepEnds, word, rfutex, WFtx!FutexEnd, Labels
<1>10. CASE ReleaseRead(t)
  <2>1. pc' \in [Threads -> Labels]
    BY <1>10, GotoType DEF ReleaseRead, Labels
  <2>2. readers' \in 0..ReaderMax /\ readwait' \in 0..ReadwaitMax /\ writers' \in 0..WriterMax
    BY <1>10 DEF ReleaseRead, SubtractReader, OneLess
  <2>3. UNCHANGED <<rftx, rsleep, wftx, wsleep, rwait, calls, expired>>
    BY <1>10 DEF ReleaseRead, rfutex, wfutex
  <2> QED
    BY <2>1, <2>2, <2>3
<1>11. CASE ReleaseWriteGrantRead(t)
  BY <1>11, GotoType DEF ReleaseWriteGrantRead, word, wfutex, Labels
<1>12. CASE ReleaseWriteWakeRead(t)
  BY <1>12, GotoType DEF ReleaseWriteWakeRead, word, wfutex, RFtx!FutexWakeAll, Labels
<1>13. CASE GrantWrite(t)
  BY <1>13, GotoType DEF GrantWrite, word, rfutex, Labels
<1>14. CASE WakeWrite(t)
  BY <1>14, GotoType DEF WakeWrite, word, rfutex, WFtx!FutexWake, Labels
<1>15. CASE ReadGiveUp(t)
  BY <1>15, GotoType DEF ReadGiveUp, rfutex, wfutex, Labels
<1>16. CASE ReleaseWrite(t) \/ DowngradeWrite(t)
  <2>1. PICK downgrade \in BOOLEAN, kept \in {0, 1} : ReleaseWriteInternal(t, downgrade, kept)
    BY <1>16 DEF ReleaseWrite, DowngradeWrite
  <2>2. pc' \in [Threads -> Labels]
    BY <2>1, GotoType DEF ReleaseWriteInternal, Labels
  <2>3. readers' \in 0..ReaderMax /\ readwait' \in 0..ReadwaitMax /\ writers' \in 0..WriterMax
    BY <2>1 DEF ReleaseWriteInternal, word
  <2>4. rwait' \in [Threads -> Nat] /\ UNCHANGED <<rftx, rsleep, wftx, wsleep, calls, expired>>
    BY <2>1 DEF ReleaseWriteInternal, rfutex, wfutex
  <2> QED
    BY <2>2, <2>3, <2>4
<1>17. CASE AcquireRead(t)
  <2>1. pc' \in [Threads -> Labels]
    BY <1>17, GotoType DEF AcquireRead, Labels
  <2>2. readers' \in 0..ReaderMax /\ readwait' \in 0..ReadwaitMax /\ writers' \in 0..WriterMax
    BY <1>17 DEF AcquireRead, word
  <2>3. calls' \in [Threads -> 0..MaxCalls]
    BY <1>17 DEF AcquireRead, StartCall
  <2>4. UNCHANGED <<rftx, rsleep, wftx, wsleep, rwait, expired>>
    BY <1>17 DEF AcquireRead, rfutex, wfutex
  <2> QED
    BY <2>1, <2>2, <2>3, <2>4
<1>18. CASE AcquireWrite(t)
  <2>1. pc' \in [Threads -> Labels]
    BY <1>18, GotoType DEF AcquireWrite, Labels
  <2>2. writers' \in 0..WriterMax
    BY <1>18 DEF AcquireWrite
  <2>3. calls' \in [Threads -> 0..MaxCalls]
    BY <1>18 DEF AcquireWrite, StartCall
  <2>4. UNCHANGED <<readers, readwait, rftx, rsleep, wftx, wsleep, rwait, expired>>
    BY <1>18 DEF AcquireWrite, rfutex, wfutex
  <2> QED
    BY <2>1, <2>2, <2>3, <2>4
<1>19. CASE WriteGiveUp(t)
  BY <1>19, GotoType DEF WriteGiveUp, OneLess, rfutex, wfutex, Labels
<1> QED
  BY <1>1, <1>2, <1>3, <1>4, <1>5, <1>6, <1>7, <1>8, <1>9, <1>10, <1>11,
     <1>12, <1>13, <1>14, <1>15, <1>16, <1>17, <1>18, <1>19 DEF Run, Environment

(* Every step that counts or stops counting a writer moves the thread in   *)
(* or out of the labels of a writer.                                       *)
LEMMA StepCounted ==
  ASSUME TypeOK, WritersExact, Turns, Next, "write" \notin expired'
  PROVE  WritersExact'
<1> USE DEF Shifted, WritersExact
<1>1. PICK t \in Threads : Run(t) \/ Environment(t)
  BY DEF Next
<1>2. CASE ReadTake(t) \/ ReadSleep(t) \/ ReadWoken(t) \/ ReadSleepEnds(t)
  BY <1>2, Moves DEF ReadTake, ReadSleep, ReadWoken, ReadSleepEnds, word, WritersAt
<1>3. CASE WriteTake(t) \/ WriteSleep(t) \/ WriteWoken(t) \/ WriteSleepEnds(t)
  BY <1>3, Moves DEF WriteTake, WriteSleep, WriteWoken, WriteSleepEnds, word, WritersAt
<1>4. CASE ReleaseRead(t)
  <2>1. PICK to \in {"wgrant", "idle"} : Goto(t, "read", to)
    BY <1>4 DEF ReleaseRead
  <2>2. writers' = writers
    BY <1>4, ReleaseReadExact
  <2> QED
    BY <2>1, <2>2, Moves DEF WritersAt
<1>5. CASE ReleaseWrite(t) \/ DowngradeWrite(t)
  <2>1. PICK to \in {"dgrant", "rgrant", "wgrant", "idle"} : Goto(t, "write", to)
    BY <1>5 DEF ReleaseWrite, DowngradeWrite, ReleaseWriteInternal
  <2>2. CASE ReleaseWriteInternal(t, FALSE, 0)
    <3>1. writers' = writers - 1
      BY <2>2, ReleaseWriteExact
    <3> QED
      BY <2>1, <3>1, Moves, RWLockAssumption DEF WritersAt, TypeOK
  <2>3. CASE ReleaseWriteInternal(t, TRUE, 1)
    <3>1. writers' = writers - 1
      BY <2>3, ReleaseWriteExact
    <3> QED
      BY <2>1, <3>1, Moves, RWLockAssumption DEF WritersAt, TypeOK
  <2> QED
    BY <1>5, <2>2, <2>3 DEF ReleaseWrite, DowngradeWrite
<1>6. CASE ReleaseWriteGrantRead(t) \/ ReleaseWriteWakeRead(t)
  BY <1>6, Moves DEF ReleaseWriteGrantRead, ReleaseWriteWakeRead, word, WritersAt
<1>7. CASE GrantWrite(t) \/ WakeWrite(t)
  BY <1>7, Moves DEF GrantWrite, WakeWrite, word, WritersAt
<1>8. CASE AcquireRead(t)
  <2>1. writers' = writers
    BY <1>8 DEF AcquireRead, word
  <2>2. CASE UNCHANGED pc
    BY <2>1, <2>2 DEF N
  <2>3. CASE Goto(t, "idle", "read") \/ Goto(t, "idle", "rwait")
    BY <2>1, <2>3, Moves DEF WritersAt
  <2> QED
    BY <1>8, <2>2, <2>3 DEF AcquireRead
<1>9. CASE AcquireWrite(t)
  <2>1. CASE UNCHANGED <<writers, pc>>
    BY <2>1 DEF N
  <2>2. CASE writers' = writers + 1 /\ (Goto(t, "idle", "write") \/ Goto(t, "idle", "wwait"))
    BY <2>2, Moves DEF WritersAt
  <2> QED
    BY <1>9, <2>1, <2>2 DEF AcquireWrite
<1>10. CASE ReadGiveUp(t)
  BY <1>10, Moves DEF ReadGiveUp, WritersAt
<1>11. ~WriteGiveUp(t)
  BY DEF WriteGiveUp
<1> QED
  BY <1>1, <1>2, <1>3, <1>4, <1>5, <1>6, <1>7, <1>8, <1>9, <1>10, <1>11
     DEF Run, Environment
----------------------------------------------------------------------------

(* The four counts of Turns, before and after a move.                      *)
Shifts(from, to) ==
  /\ Shifted(N(ReadingAt), N(ReadingAt)', from, to, ReadingAt)
  /\ Shifted(N(WaitingAt), N(WaitingAt)', from, to, WaitingAt)
  /\ Shifted(N({"write"}), N({"write"})', from, to, {"write"})
  /\ Shifted(N({"wgrant"}), N({"wgrant"})', from, to, {"wgrant"})

NatCounts ==
  /\ N(ReadingAt) \in Nat /\ N(WaitingAt) \in Nat
  /\ N({"write"}) \in Nat /\ N({"wgrant"}) \in Nat

(* How every count changes when one thread moves.                          *)
LEMMA MovesAll ==
  ASSUME TypeOK, NEW t \in Threads, NEW from, NEW to, Goto(t, from, to)
  PROVE  /\ Shifts(from, to)
         /\ pc[t] = from
         /\ pc'[t] = to
         /\ \A u \in Threads : u # t => pc'[u] = pc[u]
<1>1. Shifts(from, to)
  BY Moves, Zenon DEF Shifts
<1> QED
  BY <1>1 DEF Goto, TypeOK

(* The pairs of labels a thread can move between with no count changing.   *)
QuietMoves ==
  {<<"rwait", "rsleep">>, <<"rsleep", "rwait">>, <<"wwait", "wsleep">>, <<"wsleep", "wwait">>,
   <<"wwake", "idle">>, <<"rwake", "idle">>, <<"dwake", "read">>}

(* Going to sleep, waking up and waking others change nothing of Turns.    *)
LEMMA QuietKeepsTurns ==
  ASSUME TypeOK, Turns, NEW t \in Threads, NEW from, NEW to, <<from, to>> \in QuietMoves,
         Goto(t, from, to), UNCHANGED <<readers, readwait, writers, rftx, wftx, rwait>>
  PROVE  Turns'
<1>1. /\ N(ReadingAt)' = N(ReadingAt) /\ N(WaitingAt)' = N(WaitingAt)
      /\ N({"write"})' = N({"write"}) /\ N({"wgrant"})' = N({"wgrant"})
  BY MovesAll DEF QuietMoves, Shifts, Shifted, ReadingAt, WaitingAt
<1>2. \A u \in Threads : (pc'[u] \in Granting <=> pc[u] \in Granting)
                         /\ (pc'[u] = "rgrant" <=> pc[u] = "rgrant")
  BY MovesAll DEF QuietMoves, Granting
<1>3. OneGranter'
  BY <1>2 DEF Turns, OneGranter
<1>4. ReadersExact'
  BY <1>1, <1>2 DEF Turns, ReadersExact
<1>5. OneWriteRight'
  BY <1>1 DEF Turns, OneWriteRight, WriteRight
<1>6. WaitersRegistered'
  BY <1>1, <1>2 DEF Turns, WaitersRegistered
<1> QED
  BY <1>3, <1>4, <1>5, <1>6 DEF Turns

(* Taking a read grant: the thread is a reader of the word already.        *)
LEMMA ReadTakeKeepsTurns ==
  ASSUME Inv, Turns, NEW t \in Threads, ReadTake(t)
  PROVE  Turns'
<1> USE RWLockAssumption DEF Inv, TypeOK, NatCounts
<1>1. Goto(t, "rwait", "read")
  BY DEF ReadTake
<1>2. /\ NatCounts /\ NatCounts'
      /\ N(ReadingAt)' = N(ReadingAt) + 1 /\ N(WaitingAt) = N(WaitingAt)' + 1
      /\ N({"write"})' = N({"write"}) /\ N({"wgrant"})' = N({"wgrant"})
  BY <1>1, MovesAll DEF Shifts, Shifted, ReadingAt, WaitingAt
<1>3. \A u \in Threads : /\ pc'[u] \in Granting <=> pc[u] \in Granting
                         /\ pc'[u] = "rgrant" <=> pc[u] = "rgrant"
  BY <1>1, MovesAll DEF Granting
<1>4. rftx' = rftx - 1 /\ rftx > 0 /\ UNCHANGED <<readers, readwait, writers, wftx, rwait>>
  BY <1>1 DEF ReadTake, word, wfutex
<1>5. OneGranter'
  BY <1>3, <1>4 DEF Turns, OneGranter
<1>6. ReadersExact'
  BY <1>2, <1>3, <1>4 DEF Turns, ReadersExact
<1>7. OneWriteRight'
  BY <1>2, <1>4 DEF Turns, OneWriteRight, WriteRight
<1>8. WaitersRegistered'
  BY <1>2, <1>3, <1>4 DEF Turns, WaitersRegistered
<1> QED
  BY <1>5, <1>6, <1>7, <1>8 DEF Turns

(* Taking the write grant: the right to write moves from the futex to the  *)
(* thread.                                                                 *)
LEMMA WriteTakeKeepsTurns ==
  ASSUME Inv, Turns, NEW t \in Threads, WriteTake(t)
  PROVE  Turns'
<1> USE RWLockAssumption DEF Inv, TypeOK, NatCounts
<1>1. Goto(t, "wwait", "write")
  BY DEF WriteTake
<1>2. /\ NatCounts /\ NatCounts'
      /\ N(ReadingAt)' = N(ReadingAt) /\ N(WaitingAt)' = N(WaitingAt)
      /\ N({"write"})' = N({"write"}) + 1 /\ N({"wgrant"})' = N({"wgrant"})
  BY <1>1, MovesAll DEF Shifts, Shifted, ReadingAt, WaitingAt
<1>3. \A u \in Threads : /\ pc'[u] \in Granting <=> pc[u] \in Granting
                         /\ pc'[u] = "rgrant" <=> pc[u] = "rgrant"
  BY <1>1, MovesAll DEF Granting
<1>4. wftx' = wftx - 1 /\ wftx > 0 /\ UNCHANGED <<readers, readwait, writers, rftx, rwait>>
  BY <1>1 DEF WriteTake, word, rfutex
<1>5. OneGranter'
  BY <1>3, <1>4 DEF Turns, OneGranter
<1>6. ReadersExact'
  BY <1>2, <1>3, <1>4 DEF Turns, ReadersExact
<1>7. OneWriteRight'
  BY <1>2, <1>4 DEF Turns, OneWriteRight, WriteRight
<1>8. WaitersRegistered'
  BY <1>2, <1>3, <1>4 DEF Turns, WaitersRegistered
<1> QED
  BY <1>5, <1>6, <1>7, <1>8 DEF Turns

(* Granting the write lock: the right moves from the thread to the futex.  *)
LEMMA GrantWriteKeepsTurns ==
  ASSUME Inv, Turns, NEW t \in Threads, GrantWrite(t)
  PROVE  Turns'
<1> USE RWLockAssumption DEF Inv, TypeOK, NatCounts
<1>1. Goto(t, "wgrant", "wwake")
  BY DEF GrantWrite
<1>2. /\ NatCounts /\ NatCounts'
      /\ N(ReadingAt)' = N(ReadingAt) /\ N(WaitingAt)' = N(WaitingAt)
      /\ N({"write"})' = N({"write"}) /\ N({"wgrant"}) = N({"wgrant"})' + 1
  BY <1>1, MovesAll DEF Shifts, Shifted, ReadingAt, WaitingAt
<1>3. \A u \in Threads : /\ pc'[u] \in Granting <=> pc[u] \in Granting
                         /\ pc'[u] = "rgrant" <=> pc[u] = "rgrant"
  BY <1>1, MovesAll DEF Granting
<1>4. wftx' = wftx + 1 /\ UNCHANGED <<readers, readwait, writers, rftx, rwait>>
  BY <1>1 DEF GrantWrite, word, rfutex
<1>5. OneGranter'
  BY <1>3, <1>4 DEF Turns, OneGranter
<1>6. ReadersExact'
  BY <1>2, <1>3, <1>4 DEF Turns, ReadersExact
<1>7. OneWriteRight'
  BY <1>2, <1>4 DEF Turns, OneWriteRight, WriteRight
<1>8. WaitersRegistered'
  BY <1>2, <1>3, <1>4 DEF Turns, WaitersRegistered
<1> QED
  BY <1>5, <1>6, <1>7, <1>8 DEF Turns

(* A reader that gives up withdraws a registration, its own or another's.  *)
LEMMA ReadGiveUpKeepsTurns ==
  ASSUME Inv, Turns, NEW t \in Threads, ReadGiveUp(t)
  PROVE  Turns'
<1> USE RWLockAssumption DEF Inv, TypeOK, NatCounts
<1>1. Goto(t, "rwait", "idle")
  BY DEF ReadGiveUp
<1>2. /\ NatCounts /\ NatCounts'
      /\ N(ReadingAt)' = N(ReadingAt) /\ N(WaitingAt) = N(WaitingAt)' + 1
      /\ N({"write"})' = N({"write"}) /\ N({"wgrant"})' = N({"wgrant"})
  BY <1>1, MovesAll DEF Shifts, Shifted, ReadingAt, WaitingAt
<1>3. \A u \in Threads : /\ pc'[u] \in Granting <=> pc[u] \in Granting
                         /\ pc'[u] = "rgrant" <=> pc[u] = "rgrant"
  BY <1>1, MovesAll DEF Granting
<1>4. /\ readwait > 0 => readwait' = readwait - 1
      /\ readwait = 0 => readwait' = 0
      /\ UNCHANGED <<readers, writers, rftx, wftx, rwait>>
  BY <1>1 DEF ReadGiveUp, rfutex, wfutex
<1>5. OneGranter'
  BY <1>3, <1>4 DEF Turns, OneGranter
<1>6. ReadersExact'
  BY <1>2, <1>3, <1>4 DEF Turns, ReadersExact
<1>7. OneWriteRight'
  BY <1>2, <1>4 DEF Turns, OneWriteRight, WriteRight
<1>8. WaitersRegistered'
  BY <1>2, <1>3, <1>4 DEF Turns, WaitersRegistered
<1> QED
  BY <1>5, <1>6, <1>7, <1>8 DEF Turns

(* A step that changes nothing keeps the turns.                            *)
LEMMA StutterKeepsTurns ==
  ASSUME Turns, UNCHANGED <<readers, readwait, writers, rftx, wftx, rwait, pc>>
  PROVE  Turns'
<1>1. /\ N(ReadingAt)' = N(ReadingAt) /\ N(WaitingAt)' = N(WaitingAt)
      /\ N({"write"})' = N({"write"}) /\ N({"wgrant"})' = N({"wgrant"})
  BY DEF N
<1>2. OneGranter' /\ ReadersExact'
  BY <1>1 DEF Turns, OneGranter, ReadersExact
<1>3. OneWriteRight' /\ WaitersRegistered'
  BY <1>1 DEF Turns, OneWriteRight, WriteRight, WaitersRegistered
<1> QED
  BY <1>2, <1>3 DEF Turns

(* A reader gets in at once only when no writer is counted, so nobody has  *)
(* the right to write; otherwise it registers behind a counted writer.     *)
LEMMA AcquireReadKeepsTurns ==
  ASSUME Inv, Turns, NEW t \in Threads, AcquireRead(t)
  PROVE  Turns'
<1> USE RWLockAssumption DEF Inv, TypeOK, NatCounts
<1>1. UNCHANGED <<writers, rftx, wftx, rwait>>
  BY DEF AcquireRead, word, rfutex, wfutex
<1>2. CASE /\ writers = 0 /\ readers' = readers + 1 /\ readwait' = readwait
           /\ Goto(t, "idle", "read")
  <2>1. /\ NatCounts /\ NatCounts'
        /\ N(ReadingAt)' = N(ReadingAt) + 1 /\ N(WaitingAt)' = N(WaitingAt)
        /\ N({"write"})' = N({"write"}) /\ N({"wgrant"})' = N({"wgrant"})
    BY <1>2, MovesAll DEF Shifts, Shifted, ReadingAt, WaitingAt
  <2>2. \A u \in Threads : /\ pc'[u] \in Granting <=> pc[u] \in Granting
                           /\ pc'[u] = "rgrant" <=> pc[u] = "rgrant"
    BY <1>2, MovesAll DEF Granting
  <2>3. OneGranter'
    BY <1>1, <2>2 DEF Turns, OneGranter
  <2>4. ReadersExact'
    BY <1>1, <1>2, <2>1, <2>2 DEF Turns, ReadersExact
  <2>5. OneWriteRight'
    BY <1>1, <1>2, <2>1 DEF Turns, OneWriteRight, WriteRight
  <2>6. WaitersRegistered'
    BY <1>1, <1>2, <2>1, <2>2 DEF Turns, WaitersRegistered
  <2> QED
    BY <2>3, <2>4, <2>5, <2>6 DEF Turns
<1>3. CASE /\ writers > 0 /\ readers' = readers /\ readwait' = readwait + 1
           /\ Goto(t, "idle", "rwait")
  <2>1. /\ NatCounts /\ NatCounts'
        /\ N(ReadingAt)' = N(ReadingAt) /\ N(WaitingAt)' = N(WaitingAt) + 1
        /\ N({"write"})' = N({"write"}) /\ N({"wgrant"})' = N({"wgrant"})
    BY <1>3, MovesAll DEF Shifts, Shifted, ReadingAt, WaitingAt
  <2>2. \A u \in Threads : /\ pc'[u] \in Granting <=> pc[u] \in Granting
                           /\ pc'[u] = "rgrant" <=> pc[u] = "rgrant"
    BY <1>3, MovesAll DEF Granting
  <2>3. OneGranter'
    BY <1>1, <2>2 DEF Turns, OneGranter
  <2>4. ReadersExact'
    BY <1>1, <1>3, <2>1, <2>2 DEF Turns, ReadersExact
  <2>5. OneWriteRight'
    BY <1>1, <1>3, <2>1 DEF Turns, OneWriteRight, WriteRight
  <2>6. WaitersRegistered'
    BY <1>1, <1>3, <2>1, <2>2 DEF Turns, WaitersRegistered
  <2> QED
    BY <2>3, <2>4, <2>5, <2>6 DEF Turns
<1>4. CASE UNCHANGED <<word, pc>>
  BY <1>1, <1>4, StutterKeepsTurns DEF word
<1> QED
  BY <1>2, <1>3, <1>4 DEF AcquireRead

(* A writer gets in at once only when the word is empty; otherwise it only *)
(* counts.                                                                 *)
LEMMA AcquireWriteKeepsTurns ==
  ASSUME Inv, Turns, NEW t \in Threads, AcquireWrite(t)
  PROVE  Turns'
<1> USE RWLockAssumption DEF Inv, TypeOK, NatCounts
<1>1. UNCHANGED <<readers, readwait, rftx, wftx, rwait>>
  BY DEF AcquireWrite, rfutex, wfutex
<1>2. ASSUME NEW to \in {"write", "wwait"}, Goto(t, "idle", to), writers' = writers + 1,
             to = "write" => readers = 0 /\ writers = 0
      PROVE  Turns'
  <2>1. /\ NatCounts /\ NatCounts'
        /\ N(ReadingAt)' = N(ReadingAt) /\ N(WaitingAt)' = N(WaitingAt)
        /\ to = "write" => N({"write"})' = N({"write"}) + 1
        /\ to = "wwait" => N({"write"})' = N({"write"})
        /\ N({"wgrant"})' = N({"wgrant"})
    BY <1>2, MovesAll DEF Shifts, Shifted, ReadingAt, WaitingAt
  <2>2. \A u \in Threads : /\ pc'[u] \in Granting <=> pc[u] \in Granting
                           /\ pc'[u] = "rgrant" <=> pc[u] = "rgrant"
    BY <1>2, MovesAll DEF Granting
  <2>3. OneGranter'
    BY <1>1, <2>2 DEF Turns, OneGranter
  <2>4. ReadersExact'
    BY <1>1, <2>1, <2>2 DEF Turns, ReadersExact
  <2>5. OneWriteRight'
    BY <1>1, <1>2, <2>1 DEF Turns, OneWriteRight, WriteRight
  <2>6. WaitersRegistered'
    BY <1>1, <1>2, <2>1, <2>2 DEF Turns, WaitersRegistered
  <2> QED
    BY <2>3, <2>4, <2>5, <2>6 DEF Turns
<1>3. CASE UNCHANGED <<writers, pc>>
  BY <1>1, <1>3, StutterKeepsTurns
<1> QED
  BY <1>2, <1>3 DEF AcquireWrite

(* The last reader leaves with the right to write if a writer waits.       *)
LEMMA ReleaseReadKeepsTurns ==
  ASSUME Inv, Turns, NEW t \in Threads, ReleaseRead(t)
  PROVE  Turns'
<1> USE RWLockAssumption DEF Inv, TypeOK, NatCounts
<1>1. /\ UNCHANGED <<readwait, writers, rftx, wftx, rwait>>
      /\ readers > 0 /\ readers' = readers - 1
  BY ReleaseReadExact
<1>2. PICK to \in {"wgrant", "idle"} :
        Goto(t, "read", to) /\ (to = "wgrant" => readers = 1 /\ writers > 0)
  BY DEF ReleaseRead
<1>3. /\ NatCounts /\ NatCounts'
      /\ N(ReadingAt) = N(ReadingAt)' + 1 /\ N(WaitingAt)' = N(WaitingAt)
      /\ N({"write"})' = N({"write"})
      /\ to = "wgrant" => N({"wgrant"})' = N({"wgrant"}) + 1
      /\ to = "idle" => N({"wgrant"})' = N({"wgrant"})
  BY <1>2, MovesAll DEF Shifts, Shifted, ReadingAt, WaitingAt
<1>4. \A u \in Threads : /\ pc'[u] \in Granting <=> pc[u] \in Granting
                         /\ pc'[u] = "rgrant" <=> pc[u] = "rgrant"
  BY <1>2, MovesAll DEF Granting
<1>5. OneGranter'
  BY <1>1, <1>4 DEF Turns, OneGranter
<1>6. ReadersExact'
  BY <1>1, <1>3, <1>4 DEF Turns, ReadersExact
<1>7. OneWriteRight'
  BY <1>1, <1>2, <1>3 DEF Turns, OneWriteRight, WriteRight
<1>8. WaitersRegistered'
  BY <1>1, <1>3, <1>4 DEF Turns, WaitersRegistered
<1> QED
  BY <1>5, <1>6, <1>7, <1>8 DEF Turns

(* A word with no readers: nobody reads and no read grant is out or owed.  *)
LEMMA NoReaders ==
  ASSUME Inv, Turns, readers = 0
  PROVE  /\ rftx = 0 /\ N(ReadingAt) = 0
         /\ \A u \in Threads : pc[u] \notin Granting
<1> USE DEF Inv, TypeOK
<1>1. N(ReadingAt) \in Nat
  BY NType
<1>2. \A u \in Threads : pc[u] \notin Granting
  <2> SUFFICES ASSUME NEW u \in Threads, pc[u] \in Granting PROVE FALSE
    OBVIOUS
  <2>1. N(ReadingAt) = 0 /\ rwait[u] = 0
    BY <1>1 DEF Turns, ReadersExact
  <2>2. pc[u] # "dgrant"
    BY <2>1, NType DEF ReadingAt
  <2>3. pc[u] # "rgrant"
    BY <2>1 DEF Turns, OneGranter
  <2> QED
    BY <2>2, <2>3 DEF Granting
<1> QED
  BY <1>1, <1>2 DEF Turns, ReadersExact

(* While a writer is inside, the word has no readers and no other thread   *)
(* has the right to write.                                                 *)
LEMMA WriterExcludes ==
  ASSUME Inv, Turns, NEW t \in Threads, pc[t] = "write"
  PROVE  /\ readers = 0 /\ wftx = 0 /\ N({"write"}) = 1 /\ N({"wgrant"}) = 0
<1>1. N({"write"}) \in Nat /\ N({"wgrant"}) \in Nat /\ N({"write"}) # 0
  BY NType
<1> QED
  BY <1>1, RWLockAssumption DEF Inv, TypeOK, Turns, OneWriteRight, WriteRight

(* The writer's release turns the waiting readers into readers it owes     *)
(* grants to, or passes on the right to write, or leaves the word empty.   *)
LEMMA ReleaseWriteKeepsTurns ==
  ASSUME Inv, Turns, NEW t \in Threads, ReleaseWrite(t) \/ DowngradeWrite(t)
  PROVE  Turns'
<1> USE RWLockAssumption DEF Inv, TypeOK, NatCounts
<1>1. ReleaseWriteInternal(t, FALSE, 0) \/ ReleaseWriteInternal(t, TRUE, 1)
  BY DEF ReleaseWrite, DowngradeWrite
<1>2. /\ writers > 0 /\ writers' = writers - 1
      /\ rwait' = [rwait EXCEPT ![t] = readwait]
      /\ UNCHANGED <<rftx, wftx>> /\ pc[t] = "write"
  BY <1>1, ReleaseWriteExact
<1>3. /\ readers = 0 /\ rftx = 0 /\ wftx = 0
      /\ N(ReadingAt) = 0 /\ N({"write"}) = 1 /\ N({"wgrant"}) = 0
      /\ \A u \in Threads : pc[u] \notin Granting
  BY <1>2, WriterExcludes, NoReaders
<1>4. ASSUME NEW to \in Granting, NEW kept \in {0, 1}, Goto(t, "write", to),
             readwait' = 0, readers' = readwait + kept,
             to = "dgrant" <=> kept = 1, readwait > 0 \/ kept = 1
      PROVE  Turns'
  <2>1. /\ NatCounts /\ NatCounts'
        /\ to = "dgrant" => N(ReadingAt)' = 1
        /\ to = "rgrant" => N(ReadingAt)' = 0
        /\ N(WaitingAt)' = N(WaitingAt)
        /\ N({"write"})' = 0 /\ N({"wgrant"})' = 0
    BY <1>3, <1>4, MovesAll DEF Shifts, Shifted, ReadingAt, WaitingAt, Granting
  <2>2. pc'[t] = to /\ \A u \in Threads : u # t => pc'[u] \notin Granting
    BY <1>3, <1>4, MovesAll
  <2>3. rwait'[t] = readwait
    BY <1>2
  <2>4. OneGranter'
    BY <1>4, <2>2, <2>3 DEF OneGranter, Granting
  <2>5. ReadersExact'
    BY <1>2, <1>3, <1>4, <2>1, <2>2, <2>3 DEF ReadersExact, Granting
  <2>6. OneWriteRight'
    BY <1>2, <1>3, <2>1 DEF OneWriteRight, WriteRight
  <2>7. WaitersRegistered'
    BY <1>2, <1>3, <1>4, <2>1, <2>2, <2>3 DEF Turns, WaitersRegistered, Granting
  <2> QED
    BY <2>4, <2>5, <2>6, <2>7 DEF Turns
<1>5. ASSUME NEW to \in {"wgrant", "idle"}, Goto(t, "write", to),
             readwait = 0, UNCHANGED <<readwait, readers>>, to = "wgrant" => writers > 1
      PROVE  Turns'
  <2>1. /\ NatCounts /\ NatCounts'
        /\ N(ReadingAt)' = 0 /\ N(WaitingAt)' = N(WaitingAt) /\ N({"write"})' = 0
        /\ to = "wgrant" => N({"wgrant"})' = 1
        /\ to = "idle" => N({"wgrant"})' = 0
    BY <1>3, <1>5, MovesAll DEF Shifts, Shifted, ReadingAt, WaitingAt
  <2>2. \A u \in Threads : pc'[u] \notin Granting /\ pc'[u] # "rgrant"
    BY <1>3, <1>5, MovesAll DEF Granting
  <2>3. OneGranter'
    BY <2>2 DEF OneGranter
  <2>4. ReadersExact'
    BY <1>2, <1>3, <1>5, <2>1, <2>2 DEF ReadersExact
  <2>5. OneWriteRight'
    BY <1>2, <1>3, <1>5, <2>1 DEF OneWriteRight, WriteRight
  <2>6. WaitersRegistered'
    BY <1>2, <1>3, <1>5, <2>1, <2>2 DEF Turns, WaitersRegistered
  <2> QED
    BY <2>3, <2>4, <2>5, <2>6 DEF Turns
<1>6. CASE ReleaseWriteInternal(t, TRUE, 1)
  <2>1. Goto(t, "write", "dgrant") /\ readwait' = 0 /\ readers' = readwait + 1
    BY <1>6, ReleaseWriteExact
  <2> QED
    BY <1>4, <2>1 DEF Granting
<1>7. CASE ReleaseWriteInternal(t, FALSE, 0) /\ readwait > 0
  <2>1. Goto(t, "write", "rgrant") /\ readwait' = 0 /\ readers' = readwait + 0
    <3>1. readwait # 0
      BY <1>7
    <3> QED
      BY <1>7, <3>1, ReleaseWriteExact
  <2> QED
    BY <1>4, <1>7, <2>1 DEF Granting
<1>8. CASE ReleaseWriteInternal(t, FALSE, 0) /\ readwait = 0
  <2>1. Goto(t, "write", IF writers > 1 THEN "wgrant" ELSE "idle")
        /\ UNCHANGED <<readwait, readers>>
    <3>1. ~(readwait > 0)
      BY <1>8
    <3> QED
      BY <1>8, <3>1, ReleaseWriteExact
  <2> QED
    BY <1>5, <1>8, <2>1
<1>9. readwait > 0 \/ readwait = 0
  OBVIOUS
<1> QED
  BY <1>1, <1>6, <1>7, <1>8, <1>9, Zenon

(* The grants owed become grants to take.                                  *)
LEMMA GrantReadKeepsTurns ==
  ASSUME Inv, Turns, NEW t \in Threads, ReleaseWriteGrantRead(t)
  PROVE  Turns'
<1> USE RWLockAssumption DEF Inv, TypeOK, NatCounts
<1>1. rftx' = rftx + rwait[t] /\ UNCHANGED <<readers, readwait, writers, wftx, rwait>>
  BY DEF ReleaseWriteGrantRead, word, wfutex
<1>2. PICK from \in Granting, to \in {"rwake", "dwake"} :
        Goto(t, from, to) /\ (from = "rgrant" <=> to = "rwake")
  BY DEF ReleaseWriteGrantRead, Granting
<1>3. /\ NatCounts /\ NatCounts'
      /\ N(ReadingAt)' = N(ReadingAt) /\ N(WaitingAt)' = N(WaitingAt)
      /\ N({"write"})' = N({"write"}) /\ N({"wgrant"})' = N({"wgrant"})
  BY <1>2, MovesAll DEF Shifts, Shifted, ReadingAt, WaitingAt, Granting
<1>4. pc[t] \in Granting /\ \A u \in Threads : pc'[u] \notin Granting /\ pc'[u] # "rgrant"
  BY <1>2, MovesAll DEF Turns, OneGranter, Granting
<1>5. OneGranter'
  BY <1>4 DEF OneGranter
<1>6. ReadersExact'
  BY <1>1, <1>3, <1>4 DEF Turns, ReadersExact
<1>7. OneWriteRight'
  BY <1>1, <1>3 DEF Turns, OneWriteRight, WriteRight
<1>8. WaitersRegistered'
  BY <1>1, <1>3, <1>4 DEF Turns, WaitersRegistered
<1> QED
  BY <1>5, <1>6, <1>7, <1>8 DEF Turns

(* Every step keeps the turns unless a write call has given up.            *)
LEMMA StepTurns ==
  ASSUME Inv, Next, "write" \notin expired'
  PROVE  "write" \notin expired /\ Turns'
<1>1. PICK t \in Threads : Run(t) \/ Environment(t)
  BY DEF Next
<1>2. ~WriteGiveUp(t)
  BY DEF WriteGiveUp
<1>3. expired \subseteq expired'
  BY <1>1, <1>2 DEF Run, Environment, ReadTake, ReadSleep, ReadWoken, ReadSleepEnds,
       WriteTake, WriteSleep, WriteWoken, WriteSleepEnds, ReleaseRead, ReleaseWrite,
       DowngradeWrite, ReleaseWriteInternal, ReleaseWriteGrantRead, ReleaseWriteWakeRead,
       GrantWrite, WakeWrite, AcquireRead, AcquireWrite, ReadGiveUp
<1>4. "write" \notin expired /\ Turns /\ TypeOK
  BY <1>3 DEF Inv
<1>5. CASE ReadSleep(t) \/ ReadWoken(t) \/ ReadSleepEnds(t)
  BY <1>4, <1>5, QuietKeepsTurns DEF ReadSleep, ReadWoken, ReadSleepEnds, QuietMoves,
       word, rfutex, wfutex
<1>6. CASE WriteSleep(t) \/ WriteWoken(t) \/ WriteSleepEnds(t)
  BY <1>4, <1>6, QuietKeepsTurns DEF WriteSleep, WriteWoken, WriteSleepEnds, QuietMoves,
       word, rfutex, wfutex
<1>7. CASE WakeWrite(t) \/ ReleaseWriteWakeRead(t)
  BY <1>4, <1>7, QuietKeepsTurns DEF WakeWrite, ReleaseWriteWakeRead, QuietMoves,
       word, rfutex, wfutex
<1> QED
  BY <1>1, <1>2, <1>4, <1>5, <1>6, <1>7, ReadTakeKeepsTurns, WriteTakeKeepsTurns,
     GrantWriteKeepsTurns, ReadGiveUpKeepsTurns, AcquireReadKeepsTurns,
     AcquireWriteKeepsTurns, ReleaseReadKeepsTurns, ReleaseWriteKeepsTurns,
     GrantReadKeepsTurns DEF Run, Environment
----------------------------------------------------------------------------

(* Every step keeps the invariant.                                         *)
LEMMA StepKeepsInv == Inv /\ [Next]_vars => Inv'
<1> SUFFICES ASSUME Inv, [Next]_vars PROVE Inv'
  OBVIOUS
<1>1. CASE Next
  <2>1. TypeOK'
    BY <1>1, StepType DEF Inv
  <2>2. ASSUME "write" \notin expired' PROVE WritersExact' /\ Turns'
    <3>1. "write" \notin expired /\ Turns'
      BY <1>1, <2>2, StepTurns
    <3>2. WritersExact'
      BY <1>1, <2>2, <3>1, StepCounted DEF Inv
    <3> QED
      BY <3>1, <3>2
  <2> QED
    BY <2>1, <2>2 DEF Inv
<1>2. CASE UNCHANGED vars
  <2>1. TypeOK'
    BY <1>2 DEF Inv, vars, TypeOK
  <2>2. "write" \notin expired' => WritersExact' /\ Turns'
    BY <1>2, StutterKeepsTurns DEF Inv, vars, WritersExact, N
  <2> QED
    BY <2>1, <2>2 DEF Inv
<1> QED
  BY <1>1, <1>2

(* The invariant holds in every reachable state.                           *)
LEMMA InvHolds == Spec => []Inv
<1>1. Init => Inv
  <2> SUFFICES ASSUME Init PROVE Inv
    OBVIOUS
  <2>1. TypeOK
    BY RWLockAssumption DEF Init, TypeOK, Labels
  <2>2. \A t \in Threads : pc[t] = "idle"
    BY DEF Init
  <2>3. /\ N(ReadingAt) = 0 /\ N(WaitingAt) = 0 /\ N(WritersAt) = 0
        /\ N({"write"}) = 0 /\ N({"wgrant"}) = 0
    BY <2>2, NType DEF ReadingAt, WaitingAt, WritersAt
  <2>4. WritersExact
    BY <2>3 DEF Init, WritersExact
  <2>5. Turns
    BY <2>2, <2>3 DEF Init, Turns, OneGranter, ReadersExact, OneWriteRight, WriteRight,
                      WaitersRegistered, Granting
  <2> QED
    BY <2>1, <2>4, <2>5 DEF Inv
<1> QED
  BY <1>1, StepKeepsInv, PTL DEF Spec

(* Each count of the packed word stays within its mask: every addition is  *)
(* checked against the limit first, and the subtractions of                *)
(* rwlockReleaseRead and of a write timeout, which are not, wrap around.   *)
THEOREM TypeCorrect == Spec => []TypeOK
BY InvHolds, PTL DEF Inv

(* Until a write call gives up, the word's writers are the threads that    *)
(* hold the write lock or wait for it, and its readers those that read and *)
(* the read grants out or owed: no subtraction from the word finds its     *)
(* count empty, and none borrows from the next.                            *)
THEOREM CountsExactHolds == Spec => []CountsExact
<1>1. Inv => CountsExact
  <2>1. /\ N(WritersAt) = Cardinality({t \in Threads : pc[t] \in {"wwait", "wsleep", "write"}})
        /\ N(ReadingAt) = Cardinality(Reading)
    BY DEF N, CountOf, AtSet, WritersAt, ReadingAt, Reading
  <2> QED
    BY <2>1 DEF Inv, CountsExact, WritersExact, Turns, ReadersExact, Granting
<1> QED
  BY <1>1, InvHolds, PTL

(* Until a write call gives up, the write grant is out at most once, and   *)
(* never while a writer is inside: the value rwlockReleaseRead adds to is  *)
(* always 0.                                                               *)
THEOREM SingleWriteGrantHolds == Spec => []SingleWriteGrant
<1>1. Inv => SingleWriteGrant
  <2> SUFFICES ASSUME Inv, "write" \notin expired
               PROVE  /\ wftx + Cardinality({t \in Threads : pc[t] = "wgrant"}) <= 1
                      /\ wftx = 1 => Writing = {}
    BY DEF SingleWriteGrant
  <2>1. N({"write"}) \in Nat /\ N({"wgrant"}) \in Nat /\ wftx \in Nat
    BY NType DEF Inv, TypeOK
  <2>2. N({"write"}) + wftx + N({"wgrant"}) <= 1
    BY DEF Inv, Turns, OneWriteRight, WriteRight
  <2>3. Cardinality({t \in Threads : pc[t] = "wgrant"}) = N({"wgrant"})
    BY DEF N, CountOf, AtSet
  <2>4. N({"write"}) = 0 => Writing = {}
    BY NType DEF Writing
  <2> QED
    BY <2>1, <2>2, <2>3, <2>4
<1> QED
  BY <1>1, InvHolds, PTL

(* Until a write call gives up, a reader that waits has a counted writer   *)
(* in front of it or a grant on its way: no release forgets one.           *)
THEOREM NoStrandedReaderHolds == Spec => []NoStrandedReader
<1>1. Inv => NoStrandedReader
  <2> SUFFICES ASSUME Inv, "write" \notin expired,
                      NEW t \in Threads, pc[t] \in WaitingAt,
                      \A u \in Threads : pc[u] \notin Granting
               PROVE  writers > 0 \/ rftx > 0
    BY DEF NoStrandedReader, WaitingAt, Granting
  <2>1. N(WaitingAt) \in Nat /\ N(WaitingAt) # 0
    BY NType
  <2>2. N(WaitingAt) <= readwait + rftx /\ (readwait > 0 => writers > 0)
    BY DEF Inv, Turns, WaitersRegistered
  <2> QED
    BY <2>1, <2>2, RWLockAssumption DEF Inv, TypeOK
<1> QED
  BY <1>1, InvHolds, PTL
----------------------------------------------------------------------------

(* What the move of one thread does to the holders of the lock.            *)
LEMMA HoldersMove ==
  ASSUME TypeOK, NEW t \in Threads, NEW from, NEW to, Goto(t, from, to)
  PROVE  /\ Reading' = IF to \in ReadingAt THEN Reading \union {t} ELSE Reading \ {t}
         /\ Writing' = IF to = "write" THEN Writing \union {t} ELSE Writing \ {t}
         /\ t \in Reading <=> from \in ReadingAt
         /\ t \in Writing <=> from = "write"
BY MovesAll DEF Reading, Writing, ReadingAt

(* A grant to read excludes writers, and one to write excludes everybody.  *)
LEMMA GrantExcludes ==
  ASSUME Inv, Turns
  PROVE  /\ readers > 0 => Writing = {}
         /\ rftx > 0 => readers > 0
         /\ wftx > 0 => readers = 0 /\ Writing = {}
         /\ writers = 0 => Writing = {}
         /\ readers = 0 => Reading = {}
<1> USE DEF Inv, TypeOK
<1>1. /\ N({"write"}) \in Nat /\ N({"wgrant"}) \in Nat
      /\ N({"write"}) = 0 => Writing = {}
  BY NType DEF Writing
<1>2. readers > 0 => Writing = {}
  BY <1>1 DEF Turns, OneWriteRight, WriteRight
<1>3. rftx > 0 => readers > 0
  BY NoReaders, RWLockAssumption
<1>4. wftx > 0 => readers = 0 /\ Writing = {}
  BY <1>1, RWLockAssumption DEF Turns, OneWriteRight, WriteRight
<1>5. writers = 0 => Writing = {}
  BY <1>1 DEF Turns, OneWriteRight, WriteRight
<1>6. readers = 0 => Reading = {}
  BY NoReaders, NType DEF Reading, ReadingAt
<1> QED
  BY <1>2, <1>3, <1>4, <1>5, <1>6

(* Each step is a step of the abstract lock or leaves its state alone.     *)
LEMMA StepImplements ==
  ASSUME Inv, Next, "write" \notin expired
  PROVE  Lock!Next \/ UNCHANGED <<Reading, Writing>>
<1>1. PICK t \in Threads : Run(t) \/ Environment(t)
  BY DEF Next
<1>2. Turns /\ TypeOK
  BY DEF Inv
<1> USE DEF ReadingAt
<1>3. CASE ReadSleep(t) \/ ReadWoken(t) \/ ReadSleepEnds(t) \/ ReadGiveUp(t)
  <2>1. PICK from, to \in {"rwait", "rsleep", "idle"} : Goto(t, from, to)
    BY <1>3 DEF ReadSleep, ReadWoken, ReadSleepEnds, ReadGiveUp
  <2> QED
    BY <1>2, <2>1, HoldersMove
<1>4. CASE WriteSleep(t) \/ WriteWoken(t) \/ WriteSleepEnds(t) \/ WriteGiveUp(t)
  <2>1. PICK from, to \in {"wwait", "wsleep", "idle"} : Goto(t, from, to)
    BY <1>4 DEF WriteSleep, WriteWoken, WriteSleepEnds, WriteGiveUp
  <2> QED
    BY <1>2, <2>1, HoldersMove
<1>5. CASE ReleaseWriteGrantRead(t) \/ ReleaseWriteWakeRead(t) \/ GrantWrite(t) \/ WakeWrite(t)
  BY <1>2, <1>5, HoldersMove DEF ReleaseWriteGrantRead, ReleaseWriteWakeRead,
                                 GrantWrite, WakeWrite
<1>6. CASE ReadTake(t)
  <2>1. Writing = {}
    BY <1>2, <1>6, GrantExcludes DEF ReadTake
  <2>2. Reading' = Reading \union {t} /\ Writing' = Writing \ {t} /\ t \notin Reading
    BY <1>2, <1>6, HoldersMove DEF ReadTake
  <2> QED
    BY <2>1, <2>2 DEF Lock!Next, Lock!AcquireRead
<1>7. CASE WriteTake(t)
  <2>1. Writing = {} /\ Reading = {}
    BY <1>2, <1>7, GrantExcludes DEF WriteTake
  <2>2. Writing' = Writing \union {t} /\ Reading' = Reading \ {t}
    BY <1>2, <1>7, HoldersMove DEF WriteTake
  <2> QED
    BY <2>1, <2>2 DEF Lock!Next, Lock!AcquireWrite
<1>8. CASE ReleaseRead(t)
  <2>1. Reading' = Reading \ {t} /\ Writing' = Writing \ {t}
        /\ t \in Reading /\ t \notin Writing
    BY <1>2, <1>8, HoldersMove DEF ReleaseRead
  <2> QED
    BY <2>1 DEF Lock!Next, Lock!ReleaseRead
<1>9. CASE ReleaseWrite(t)
  <2>1. PICK to \in {"rgrant", "wgrant", "idle"} : Goto(t, "write", to)
    BY <1>9 DEF ReleaseWrite, ReleaseWriteInternal
  <2>2. Reading' = Reading \ {t} /\ Writing' = Writing \ {t}
        /\ t \notin Reading /\ t \in Writing
    BY <1>2, <2>1, HoldersMove
  <2> QED
    BY <2>2 DEF Lock!Next, Lock!ReleaseWrite
<1>10. CASE DowngradeWrite(t)
  <2>1. Goto(t, "write", "dgrant")
    BY <1>2, <1>10, ReleaseWriteExact DEF DowngradeWrite
  <2>2. Reading' = Reading \union {t} /\ Writing' = Writing \ {t} /\ t \in Writing
    BY <1>2, <2>1, HoldersMove
  <2> QED
    BY <2>2 DEF Lock!Next, Lock!Downgrade
<1>11. CASE AcquireRead(t)
  <2>1. CASE writers = 0 /\ Goto(t, "idle", "read")
    <3>1. Writing = {}
      BY <1>2, <2>1, GrantExcludes
    <3>2. Reading' = Reading \union {t} /\ Writing' = Writing \ {t} /\ t \notin Reading
      BY <1>2, <2>1, HoldersMove
    <3> QED
      BY <3>1, <3>2 DEF Lock!Next, Lock!AcquireRead
  <2>2. CASE Goto(t, "idle", "rwait")
    BY <1>2, <2>2, HoldersMove
  <2>3. CASE UNCHANGED <<word, pc>>
    BY <2>3 DEF Reading, Writing
  <2> QED
    BY <1>11, <2>1, <2>2, <2>3 DEF AcquireRead
<1>12. CASE AcquireWrite(t)
  <2>1. CASE readers = 0 /\ writers = 0 /\ Goto(t, "idle", "write")
    <3>1. Writing = {} /\ Reading = {}
      BY <1>2, <2>1, GrantExcludes
    <3>2. Writing' = Writing \union {t} /\ Reading' = Reading \ {t}
      BY <1>2, <2>1, HoldersMove
    <3> QED
      BY <3>1, <3>2 DEF Lock!Next, Lock!AcquireWrite
  <2>2. CASE Goto(t, "idle", "wwait")
    BY <1>2, <2>2, HoldersMove
  <2>3. CASE UNCHANGED <<writers, pc>>
    BY <2>3 DEF Reading, Writing
  <2> QED
    BY <1>12, <2>1, <2>2, <2>3 DEF AcquireWrite
<1> QED
  BY <1>1, <1>3, <1>4, <1>5, <1>6, <1>7, <1>8, <1>9, <1>10, <1>11, <1>12
     DEF Run, Environment

(* The lock implements the abstract reader/writer lock, for any number of  *)
(* threads and any limits, until the first write call gives up: no reader  *)
(* next to a writer, no two writers, and nobody in between a downgrade.    *)
THEOREM ImplementsHolds == Spec => ImplementsUntilWriteExpires
<1>1. Init => Lock!Init
  BY DEF Init, Lock!Init, Reading, Writing
<1>2. Inv /\ [Next]_vars => [Lock!Next \/ "write" \in expired]_<<Reading, Writing>>
  <2>1. UNCHANGED vars => UNCHANGED <<Reading, Writing>>
    BY DEF vars, Reading, Writing
  <2> QED
    BY <2>1, StepImplements
<1> QED
  BY <1>1, <1>2, InvHolds, PTL DEF Spec, ImplementsUntilWriteExpires

(* Readers that a write release let through have their turn before the     *)
(* next writer gets in, until a write call gives up.                       *)
THEOREM TakeTurnsHolds == Spec => TakeTurns
<1> DEFINE Turn == \A t \in Threads :
              (t \notin Writing /\ t \in Writing' /\ "write" \notin expired) =>
                /\ rftx = 0
                /\ \A u \in Threads : pc[u] \notin {"rgrant", "dgrant"}
<1>1. Inv /\ Next => Turn
  <2> SUFFICES ASSUME Inv, Next, "write" \notin expired,
                      NEW t \in Threads, t \notin Writing, t \in Writing'
               PROVE  readers = 0
    BY NoReaders DEF Inv, Granting
  <2>1. PICK u \in Threads : Run(u) \/ Environment(u)
    BY DEF Next
  <2>2. TypeOK /\ Turns
    BY DEF Inv
  <2>3. \A from, to : Goto(u, from, to) => to = "write"
    BY <2>2, HoldersMove
  <2>4. pc' # pc
    BY DEF Writing
  <2>5. WriteTake(u) \/ AcquireWrite(u)
    <3>1. ~(ReadTake(u) \/ ReadSleep(u) \/ ReadWoken(u) \/ ReadSleepEnds(u) \/ ReadGiveUp(u))
      BY <2>3 DEF ReadTake, ReadSleep, ReadWoken, ReadSleepEnds, ReadGiveUp
    <3>2. ~(WriteSleep(u) \/ WriteWoken(u) \/ WriteSleepEnds(u) \/ WriteGiveUp(u))
      BY <2>3 DEF WriteSleep, WriteWoken, WriteSleepEnds, WriteGiveUp
    <3>3. ~(ReleaseRead(u) \/ ReleaseWriteGrantRead(u) \/ ReleaseWriteWakeRead(u)
            \/ GrantWrite(u) \/ WakeWrite(u))
      BY <2>3 DEF ReleaseRead, ReleaseWriteGrantRead, ReleaseWriteWakeRead, GrantWrite, WakeWrite
    <3>4. ~(ReleaseWrite(u) \/ DowngradeWrite(u))
      <4>1. \A to \in {"dgrant", "rgrant", "wgrant", "idle"} : ~Goto(u, "write", to)
        BY <2>3
      <4> QED
        BY <4>1 DEF ReleaseWrite, DowngradeWrite, ReleaseWriteInternal
    <3>5. ~AcquireRead(u)
      BY <2>3, <2>4 DEF AcquireRead
    <3> QED
      BY <2>1, <3>1, <3>2, <3>3, <3>4, <3>5 DEF Run, Environment
  <2>6. CASE WriteTake(u)
    BY <2>2, <2>6, GrantExcludes DEF WriteTake
  <2>7. CASE AcquireWrite(u)
    BY <2>3, <2>4, <2>7 DEF AcquireWrite
  <2> QED
    BY <2>5, <2>6, <2>7
<1>2. Inv /\ [Next]_vars => [Turn]_vars
  BY <1>1
<1> QED
  BY <1>2, InvHolds, PTL DEF Spec, TakeTurns
============================================================================
