------------------------------ MODULE RWLock -------------------------------
(***************************************************************************)
(* The reader/writer lock of cx/thread/rwlock.[ch].  One word packs three  *)
(* counts: readers, readers waiting, and writers holding or waiting; two   *)
(* futexes carry the grants, a token each, that a release hands to waiting *)
(* readers (rftx) or to one waiting writer (wftx).                         *)
(*                                                                         *)
(* A load followed by a compare-exchange loop on the packed word, or on a  *)
(* futex value, is one atomic step here: what is written and whether to    *)
(* loop depend only on the value that the exchange compares.  The spin     *)
(* before a sleep changes nothing the lock can see, and the clock is a     *)
(* free choice of whether a call with a finite timeout has expired.        *)
(***************************************************************************)
EXTENDS Naturals, FiniteSets

CONSTANTS
  Threads,       \* threads that use the lock
  TimedReads,    \* threads whose read acquisitions have a finite timeout
  TimedWrites,   \* threads whose write acquisitions have a finite timeout
  ReaderMax,     \* RWLOCK_READER_MAX
  ReadwaitMax,   \* RWLOCK_READWAIT_MAX
  WriterMax,     \* RWLOCK_WRITER_MAX
  MaxCalls       \* bound on the acquisitions each thread starts

ASSUME RWLockAssumption ==
  /\ IsFiniteSet(Threads)
  /\ TimedReads \subseteq Threads
  /\ TimedWrites \subseteq Threads
  /\ ReaderMax \in Nat /\ ReadwaitMax \in Nat /\ WriterMax \in Nat
  /\ ReadwaitMax < ReaderMax    \* each limit is the mask of its count
  /\ MaxCalls \in Nat

VARIABLES
  readers, readwait, writers,   \* the three counts of l->state
  rftx, rsleep,                 \* l->rftx: read grants, threads asleep
  wftx, wsleep,                 \* l->wftx: write grants, threads asleep
  pc,                           \* where each thread is
  rwait,                        \* the local rwait of _rwlockReleaseWriteInternal
  calls,                        \* acquisitions started so far
  expired                       \* calls that have given up, if any: {"read", "write"}
                                \* (history, read by properties only)

vars == <<readers, readwait, writers, rftx, rsleep, wftx, wsleep, pc, rwait, calls, expired>>

word == <<readers, readwait, writers>>
rfutex == <<rftx, rsleep>>
wfutex == <<wftx, wsleep>>

RFtx == INSTANCE Futex WITH val <- rftx, waitq <- rsleep
WFtx == INSTANCE Futex WITH val <- wftx, waitq <- wsleep

Labels == {"idle", "rwait", "rsleep", "read", "wgrant", "wwake",
           "wwait", "wsleep", "write", "rgrant", "rwake", "dgrant", "dwake"}

(* The type of the state.  Each count is within its mask because a borrow  *)
(* wraps it around, not because none happens: that is CountsExact.  The    *)
(* additions never carry, each being checked against the count's limit.    *)
TypeOK ==
  /\ readers \in 0..ReaderMax
  /\ readwait \in 0..ReadwaitMax
  /\ writers \in 0..WriterMax
  /\ rftx \in Nat /\ rsleep \subseteq Threads
  /\ wftx \in Nat /\ wsleep \subseteq Threads
  /\ pc \in [Threads -> Labels]
  /\ rwait \in [Threads -> Nat]
  /\ calls \in [Threads -> 0..MaxCalls]
  /\ expired \subseteq {"read", "write"}

(* _rwlockInit *)
Init ==
  /\ readers = 0 /\ readwait = 0 /\ writers = 0
  /\ rftx = 0 /\ rsleep = {}
  /\ wftx = 0 /\ wsleep = {}
  /\ pc = [t \in Threads |-> "idle"]
  /\ rwait = [t \in Threads |-> 0]
  /\ calls = [t \in Threads |-> 0]
  /\ expired = {}

----------------------------------------------------------------------------

Goto(t, from, to) == pc[t] = from /\ pc' = [pc EXCEPT ![t] = to]

(* A count of the word one lower, modulo its bits.                         *)
OneLess(n, max) == IF n > 0 THEN n - 1 ELSE max

StartCall(t) == calls[t] < MaxCalls /\ calls' = [calls EXCEPT ![t] = @ + 1]

(* Mutant: a reader waits however many others do.                          *)
AcquireReadUnlimited(t) ==
  /\ StartCall(t)
  /\ \/ writers = 0 /\ readers' = readers + 1 /\ Goto(t, "idle", "read") /\ UNCHANGED readwait
     \/ writers > 0 /\ readwait' = readwait + 1 /\ Goto(t, "idle", "rwait") /\ UNCHANGED readers
  /\ UNCHANGED <<writers, rfutex, wfutex, rwait, expired>>

(* rwlockTryAcquireReadTimeout: register as a reader, or as a waiting one  *)
(* if there is any writer, or return false at the limit.                   *)
(* rwlockTryAcquireRead takes the first alternative or returns false.      *)
AcquireRead(t) ==
  /\ StartCall(t)
  /\ \/ /\ writers = 0 /\ readers < ReaderMax
        /\ readers' = readers + 1
        /\ Goto(t, "idle", "read")
        /\ UNCHANGED <<readwait, writers>>
     \/ /\ writers > 0 /\ readwait < ReadwaitMax
        /\ readwait' = readwait + 1
        /\ Goto(t, "idle", "rwait")
        /\ UNCHANGED <<readers, writers>>
     \/ /\ \/ writers > 0 /\ readwait = ReadwaitMax
           \/ writers = 0 /\ readers = ReaderMax
        /\ pc[t] = "idle"
        /\ UNCHANGED <<word, pc>>
  /\ UNCHANGED <<rfutex, wfutex, rwait, expired>>

(* The waiting reader takes a grant.                                       *)
ReadTake(t) ==
  /\ rftx > 0 /\ rftx' = rftx - 1
  /\ Goto(t, "rwait", "read")
  /\ UNCHANGED <<word, rsleep, wfutex, rwait, calls, expired>>

(* No grant and no spins left: futexWait.  If a grant has just come it     *)
(* returns at once, which changes nothing.                                 *)
ReadSleep(t) ==
  /\ RFtx!FutexWait(t, 0)
  /\ Goto(t, "rwait", "rsleep")
  /\ UNCHANGED <<word, rftx, wfutex, rwait, calls, expired>>

ReadWoken(t) ==
  /\ t \notin rsleep
  /\ Goto(t, "rsleep", "rwait")
  /\ UNCHANGED <<word, rfutex, wfutex, rwait, calls, expired>>

(* futexWait returns by itself: timed out, or interrupted by a signal.     *)
ReadSleepEnds(t) ==
  /\ RFtx!FutexEnd(t)
  /\ Goto(t, "rsleep", "rwait")
  /\ UNCHANGED <<word, rftx, wfutex, rwait, calls, expired>>

(* Mutant: the reader withdraws from readwait even if it has been emptied. *)
ReadGiveUpUnchecked(t) ==
  /\ t \in TimedReads
  /\ readwait' = OneLess(readwait, ReadwaitMax)
  /\ writers' = IF readwait > 0 THEN writers ELSE OneLess(writers, WriterMax)
  /\ Goto(t, "rwait", "idle")
  /\ expired' = expired \union {"read"}
  /\ UNCHANGED <<readers, rfutex, wfutex, rwait, calls>>

(* aspinTimeout says yes: withdraw from readwait unless a writer's release *)
(* has already emptied it, and return false.                               *)
ReadGiveUp(t) ==
  /\ t \in TimedReads
  /\ readwait' = IF readwait > 0 THEN readwait - 1 ELSE readwait
  /\ Goto(t, "rwait", "idle")
  /\ expired' = expired \union {"read"}
  /\ UNCHANGED <<readers, writers, rfutex, wfutex, rwait, calls>>

(* Mutant: a writer that finds no other writer does not wait for readers.  *)
AcquireWriteIgnoresReaders(t) ==
  /\ StartCall(t)
  /\ writers < WriterMax
  /\ writers' = writers + 1
  /\ Goto(t, "idle", IF writers = 0 THEN "write" ELSE "wwait")
  /\ UNCHANGED <<readers, readwait, rfutex, wfutex, rwait, expired>>

(* rwlockTryAcquireWriteTimeout: count as a writer, which holds the lock   *)
(* at once if there was no reader and no other writer, or return false at  *)
(* the limit.  rwlockTryAcquireWrite takes the first alternative or        *)
(* returns false.                                                          *)
AcquireWrite(t) ==
  /\ StartCall(t)
  /\ \/ /\ writers < WriterMax
        /\ writers' = writers + 1
        /\ \/ readers = 0 /\ writers = 0 /\ Goto(t, "idle", "write")
           \/ readers + writers > 0 /\ Goto(t, "idle", "wwait")
     \/ writers = WriterMax /\ pc[t] = "idle" /\ UNCHANGED <<writers, pc>>
  /\ UNCHANGED <<readers, readwait, rfutex, wfutex, rwait, expired>>

(* The waiting writer takes a grant.                                       *)
WriteTake(t) ==
  /\ wftx > 0 /\ wftx' = wftx - 1
  /\ Goto(t, "wwait", "write")
  /\ UNCHANGED <<word, rfutex, wsleep, rwait, calls, expired>>

WriteSleep(t) ==
  /\ WFtx!FutexWait(t, 0)
  /\ Goto(t, "wwait", "wsleep")
  /\ UNCHANGED <<word, rfutex, wftx, rwait, calls, expired>>

WriteWoken(t) ==
  /\ t \notin wsleep
  /\ Goto(t, "wsleep", "wwait")
  /\ UNCHANGED <<word, rfutex, wfutex, rwait, calls, expired>>

WriteSleepEnds(t) ==
  /\ WFtx!FutexEnd(t)
  /\ Goto(t, "wsleep", "wwait")
  /\ UNCHANGED <<word, rfutex, wftx, rwait, calls, expired>>

(* aspinTimeout says yes: stop counting as a writer and return false.  The *)
(* subtraction is on the whole word and is not preceded by a check; writers *)
(* are its top bits.                                                       *)
WriteGiveUp(t) ==
  /\ t \in TimedWrites
  /\ writers' = OneLess(writers, WriterMax)
  /\ Goto(t, "wwait", "idle")
  /\ expired' = expired \union {"write"}
  /\ UNCHANGED <<readers, readwait, rfutex, wfutex, rwait, calls>>
----------------------------------------------------------------------------

(* Subtracting RWLOCK_READ_ADD from the word: where there is no reader to  *)
(* subtract, one is borrowed from the waiting readers, and from the        *)
(* writers where none waits.                                               *)
SubtractReader ==
  /\ readers' = OneLess(readers, ReaderMax)
  /\ readwait' = IF readers > 0 THEN readwait ELSE OneLess(readwait, ReadwaitMax)
  /\ writers' = IF readers + readwait > 0 THEN writers ELSE OneLess(writers, WriterMax)

(* Mutant: the last reader leaves without looking for waiting writers.     *)
ReleaseReadSilently(t) ==
  /\ SubtractReader
  /\ Goto(t, "read", "idle")
  /\ UNCHANGED <<rfutex, wfutex, rwait, calls, expired>>

(* Mutant: any reader that leaves grants a waiting writer the lock.        *)
ReleaseReadAlwaysGrants(t) ==
  /\ SubtractReader
  /\ \/ writers > 0 /\ Goto(t, "read", "wgrant")
     \/ writers = 0 /\ Goto(t, "read", "idle")
  /\ UNCHANGED <<rfutex, wfutex, rwait, calls, expired>>

(* rwlockReleaseRead: the last reader will grant a waiting writer.  That   *)
(* there is a reader to subtract is asserted in development builds only.   *)
ReleaseRead(t) ==
  /\ SubtractReader
  /\ \/ readers = 1 /\ writers > 0 /\ Goto(t, "read", "wgrant")
     \/ ~(readers = 1 /\ writers > 0) /\ Goto(t, "read", "idle")
  /\ UNCHANGED <<rfutex, wfutex, rwait, calls, expired>>

(* The exchange of _rwlockReleaseWriteInternal.  If readers wait, or the   *)
(* lock is downgraded, the waiting readers become readers, and the caller  *)
(* one more if kept is 1; otherwise the next writer will be granted the    *)
(* lock, if there is one.  Nothing is done if the word has no writer.      *)
ReleaseWriteInternal(t, downgrade, kept) ==
  /\ \/ /\ writers > 0
        /\ writers' = writers - 1
        /\ rwait' = [rwait EXCEPT ![t] = readwait]
        /\ \/ /\ readwait > 0 \/ downgrade
              /\ readwait' = 0
              /\ readers' = readwait + kept
              /\ Goto(t, "write", IF downgrade THEN "dgrant" ELSE "rgrant")
           \/ /\ readwait = 0 /\ ~downgrade
              /\ Goto(t, "write", IF writers > 1 THEN "wgrant" ELSE "idle")
              /\ UNCHANGED <<readwait, readers>>
     \/ writers = 0 /\ Goto(t, "write", "idle") /\ UNCHANGED <<word, rwait>>
  /\ UNCHANGED <<rfutex, wfutex, calls, expired>>

(* Mutant: the release only subtracts a writer, whoever waits to read.     *)
ReleaseWriteIgnoresReaders(t) ==
  /\ writers > 0
  /\ writers' = writers - 1
  /\ Goto(t, "write", IF writers > 1 THEN "wgrant" ELSE "idle")
  /\ UNCHANGED <<readers, readwait, rfutex, wfutex, rwait, calls, expired>>

(* rwlockReleaseWrite *)
ReleaseWrite(t) == ReleaseWriteInternal(t, FALSE, 0)

(* Mutant: the downgraded writer is not counted as a reader.               *)
DowngradeWriteUncounted(t) == ReleaseWriteInternal(t, TRUE, 0)

(* rwlockDowngradeWrite *)
DowngradeWrite(t) == ReleaseWriteInternal(t, TRUE, 1)

(* The read grants are added ...                                           *)
ReleaseWriteGrantRead(t) ==
  /\ rftx' = rftx + rwait[t]
  /\ \/ Goto(t, "rgrant", "rwake") \/ Goto(t, "dgrant", "dwake")
  /\ UNCHANGED <<word, rsleep, wfutex, rwait, calls, expired>>

(* ... and futexWakeAll wakes the readers; a downgraded writer now reads.  *)
ReleaseWriteWakeRead(t) ==
  /\ RFtx!FutexWakeAll
  /\ \/ Goto(t, "rwake", "idle") \/ Goto(t, "dwake", "read")
  /\ UNCHANGED <<word, rftx, wfutex, rwait, calls, expired>>

(* The write grant of either kind of release, then futexWake.              *)
GrantWrite(t) ==
  /\ wftx' = wftx + 1
  /\ Goto(t, "wgrant", "wwake")
  /\ UNCHANGED <<word, rfutex, wsleep, rwait, calls, expired>>

WakeWrite(t) ==
  /\ WFtx!FutexWake
  /\ Goto(t, "wwake", "idle")
  /\ UNCHANGED <<word, rfutex, wftx, rwait, calls, expired>>
----------------------------------------------------------------------------

(* The steps of a thread that is inside a call and can run, or holds the   *)
(* lock.                                                                   *)
Run(t) ==
  \/ ReadTake(t) \/ ReadSleep(t) \/ ReadWoken(t)
  \/ WriteTake(t) \/ WriteSleep(t) \/ WriteWoken(t)
  \/ ReleaseRead(t) \/ ReleaseWrite(t)
  \/ ReleaseWriteGrantRead(t) \/ ReleaseWriteWakeRead(t)
  \/ GrantWrite(t) \/ WakeWrite(t)

(* The steps that the caller, the clock or a signal chooses.               *)
Environment(t) ==
  \/ AcquireRead(t) \/ AcquireWrite(t) \/ DowngradeWrite(t)
  \/ ReadGiveUp(t) \/ WriteGiveUp(t)
  \/ ReadSleepEnds(t) \/ WriteSleepEnds(t)

Next == \E t \in Threads : Run(t) \/ Environment(t)

Spec == Init /\ [][Next]_vars

(* Every runnable thread is scheduled, and a holder releases in the end.   *)
FairSpec == Spec /\ \A t \in Threads : WF_vars(Run(t))
----------------------------------------------------------------------------

Reading == {t \in Threads : pc[t] \in {"read", "dgrant", "dwake"}}
Writing == {t \in Threads : pc[t] = "write"}

(* The lock implements the abstract one: no reader next to a writer, never *)
(* two writers, and a downgrade that lets no one in between.               *)
Lock == INSTANCE AbstractRWLock WITH reading <- Reading, writing <- Writing

ImplementsRWLock == Lock!Spec

(* What the code keeps of that when write acquisitions may time out: the   *)
(* abstract lock, until the first of them gives up.                        *)
ImplementsUntilWriteExpires ==
  /\ Lock!Init
  /\ [][Lock!Next \/ "write" \in expired]_<<Reading, Writing>>

(* A write grant is outstanding at most once, rwlockReleaseRead's          *)
(* devVerify that the value it adds to was 0, and never while a writer is  *)
(* inside.  A write call that gives up can break this.                     *)
SingleWriteGrant ==
  "write" \notin expired =>
    /\ wftx + Cardinality({t \in Threads : pc[t] = "wgrant"}) <= 1
    /\ wftx = 1 => Writing = {}

(* The word is exact: its writers are the threads that hold the write lock *)
(* or wait for it, and its readers those that read and the read grants not *)
(* yet taken, the ones still owed included.  So no release subtracts what  *)
(* is not there, rwlockReleaseRead's devAssert, and nothing borrows from a *)
(* neighbouring count.  A write call that gives up can break this.         *)
CountsExact ==
  "write" \notin expired =>
    /\ writers = Cardinality({t \in Threads : pc[t] \in {"wwait", "wsleep", "write"}})
    /\ (\A t \in Threads : pc[t] \notin {"rgrant", "dgrant"}) =>
         readers = Cardinality(Reading) + rftx
    /\ \A t \in Threads : pc[t] \in {"rgrant", "dgrant"} =>
         readers = Cardinality(Reading) + rftx + rwait[t]

(* A reader that waits has someone to wait for: a writer that is counted   *)
(* and whose release will turn it into a reader, or a grant already given. *)
(* A write call that gives up can break this.                              *)
NoStrandedReader ==
  /\ "write" \notin expired
  /\ \E t \in Threads : pc[t] \in {"rwait", "rsleep"}
  => \/ writers > 0
     \/ rftx > 0
     \/ \E t \in Threads : pc[t] \in {"rgrant", "dgrant"}

(* Readers and writers take turns: a writer never gets in while readers    *)
(* that an earlier write release let through have not had their turn.      *)
TakeTurns ==
  [][\A t \in Threads :
       (t \notin Writing /\ t \in Writing' /\ "write" \notin expired) =>
         /\ rftx = 0
         /\ \A u \in Threads : pc[u] \notin {"rgrant", "dgrant"}]_vars

(* Every call returns and every holder gets to release: no reader or       *)
(* writer waits for ever once the others stop coming, as long as no call   *)
(* has given up.                                                           *)
CallsReturnUnlessExpired ==
  \A t \in Threads : pc[t] # "idle" ~> (pc[t] = "idle" \/ expired # {})
============================================================================
