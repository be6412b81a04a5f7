-------------------------- MODULE TaskQueueProofs --------------------------
(***************************************************************************)
(* Proofs about TaskQueue, for any number of tasks, clients and workers:   *)
(* references are exact, a task is in one place, a cancel sticks, finished *)
(* tasks are attended to and stop leaves nothing behind.                   *)
(***************************************************************************)
EXTENDS TaskQueue, FiniteSetTheorems, SequenceTheorems, TLAPS

(***************************************************************************)
(* How large a set is, and how that changes when one member comes or goes. *)
(***************************************************************************)
(* The sizes of A and B, which differ at most in whether t is a member.    *)
Swap(A, B, t) ==
  /\ Cardinality(A) \in Nat /\ Cardinality(B) \in Nat
  /\ t \in A /\ t \in B => Cardinality(B) = Cardinality(A)
  /\ t \notin A /\ t \notin B => Cardinality(B) = Cardinality(A)
  /\ t \notin A /\ t \in B => Cardinality(B) = Cardinality(A) + 1
  /\ t \in A /\ t \notin B => Cardinality(A) = Cardinality(B) + 1

(* At most t comes or goes.                                                *)
LEMMA SetSwap ==
  ASSUME NEW T, IsFiniteSet(T), NEW A \in SUBSET T, NEW B \in SUBSET T, NEW t,
         \A u \in T : u # t => (u \in A <=> u \in B)
  PROVE  Swap(A, B, t)
<1>1. IsFiniteSet(A) /\ IsFiniteSet(B)
  BY FS_Subset
<1>2. Cardinality(A) \in Nat /\ Cardinality(B) \in Nat
  BY <1>1, FS_CardinalityType
<1>3. (t \in A <=> t \in B) => A = B
  OBVIOUS
<1>4. ASSUME t \notin A, t \in B
      PROVE  Cardinality(B) = Cardinality(A) + 1
  <2>1. B = A \cup {t}
    BY <1>4
  <2> QED
    BY <1>1, <1>4, <2>1, FS_AddElement
<1>5. ASSUME t \in A, t \notin B
      PROVE  Cardinality(A) = Cardinality(B) + 1
  <2>1. A = B \cup {t}
    BY <1>5
  <2> QED
    BY <1>1, <1>5, <2>1, FS_AddElement
<1> QED
  BY <1>2, <1>3, <1>4, <1>5 DEF Swap

(* A subset of a finite set has no members exactly if its size is 0.       *)
LEMMA SetSize ==
  ASSUME NEW T, IsFiniteSet(T), NEW A \in SUBSET T
  PROVE  Cardinality(A) \in Nat /\ (Cardinality(A) = 0 <=> A = {})
BY FS_Subset, FS_CardinalityType, FS_EmptySet

(* A set without two different members has at most one.                    *)
LEMMA AtMostOne ==
  ASSUME NEW S, \A a, b \in S : a = b
  PROVE  Cardinality(S) \in 0..1 /\ (Cardinality(S) = 0 <=> S = {})
<1>1. CASE S = {}
  BY <1>1, FS_EmptySet
<1>2. ASSUME NEW a \in S
      PROVE  Cardinality(S) = 1
  <2>1. S = {a}
    OBVIOUS
  <2> QED
    BY <2>1, FS_Singleton
<1> QED
  BY <1>1, <1>2

-----------------------------------------------------------------------------
(* The labels at which a worker has a task in its hands.                   *)
Holding == {"load", "cas", "drop", "dropcas", "release", "run", "resload", "rescas", "pushdone"}

(* What a client keeps: a task while it is in a call, and, between the     *)
(* load and the exchange of BasicTask__setState, a valid transition.       *)
ClientLocal(c) ==
  /\ pc[c] \in ClientLabels
  /\ task[c] \in Tasks <=> pc[c] # "idle"
  /\ pc[c] = "addcas" => snap[c].state = "Created" /\ snap[c].new = "Waiting"

(* What a worker keeps.  The tick of the in-worker manager is done once in *)
(* each round of the loop.                                                 *)
WorkerLocal(w) ==
  /\ pc[w] \in WorkerLabels
  /\ task[w] \in Tasks <=> pc[w] \in Holding
  /\ pc[w] = "cas" => snap[w].state = "Waiting" /\ snap[w].new = "Running"
  /\ pc[w] = "dropcas" => snap[w].state \notin Finished /\ snap[w].new = "Failed"
  /\ pc[w] \in {"resload", "rescas"} => snap[w].new \in Finished
  /\ pc[w] = "rescas" => snap[w].state # snap[w].new /\ Allowed(snap[w].state, snap[w].new)
  /\ pc[w] \in {"none", "loop", "pretask", "resize", "wait", "park"} => ~ticked[w]

Locals ==
  /\ \A c \in Clients : ClientLocal(c)
  /\ \A w \in Workers : WorkerLocal(w)

(* How far the queue has come, and what that says of its threads.          *)
Lifecycle ==
  /\ ctl = "init" => qstate = "Init" /\ \A w \in Workers : pc[w] = "none"
  /\ qstate \in {"Init", "Starting"} =>
       /\ ctl \in {"init", "starting"}
       /\ runq = <<>> /\ doneq = <<>>
       /\ \A w \in Workers : pc[w] \in {"none", "loop", "park"}
       /\ \A c \in Clients : pc[c] \in {"idle", "cancelcas"}
  /\ ctl = "starting" => qstate = "Starting" /\ attached
  /\ qstate = "Running" => ctl = "running" /\ attached
  /\ ctl \in {"clear", "stopped"} /\ ~expired => \A w \in Workers : pc[w] = "stopped"
  /\ ctl = "stopped" /\ ~expired => doneq = <<>>

(* A worker is on the task, other than to put it on the done queue; a      *)
(* client is about to put it on the run queue.                             *)
Runs(w, t) == task[w] = t /\ pc[w] # "pushdone"
Adds(c, t) == task[c] = t /\ pc[c] = "addpush"

(* The state of a task says where the task is, ...                         *)
Stage(t) ==
  /\ Count(runq, t) > 0 => tstate[t] = "Waiting"
  /\ \A c \in Clients : Adds(c, t) => tstate[t] = "Waiting"
  /\ \A w \in Workers : task[w] = t =>
       /\ pc[w] \in {"load", "cas"} => tstate[t] = "Waiting"
       /\ pc[w] \in {"run", "resload", "rescas"} => tstate[t] = "Running"
       /\ pc[w] \notin {"drop", "dropcas", "release"}
       /\ pc[w] = "pushdone" /\ t \notin early => tstate[t] \in Finished

(* ... it is in one place, ...                                             *)
Alone(t) ==
  /\ Count(runq, t) <= 1
  /\ \A w \in Workers : Runs(w, t) =>
       /\ Count(runq, t) = 0
       /\ \A u \in Workers : Runs(u, t) => u = w
       /\ \A c \in Clients : ~Adds(c, t)
  /\ \A c \in Clients : Adds(c, t) =>
       /\ Count(runq, t) = 0
       /\ \A d \in Clients : Adds(d, t) => d = c

(* ... and it is finished when it comes to the done queue.                 *)
Ended(t) == t \notin early /\ Count(doneq, t) > 0 => tstate[t] \in Finished

Settled(t) == Stage(t) /\ Alone(t) /\ Ended(t)

(* All this unless setState has gone wrong on the task.                    *)
AllSettled == \A t \in Tasks \ raced : Settled(t)

(* A worker that waits, or will before it looks at needrun again.          *)
Lapsed(w) ==
  \/ pc[w] \in {"wait", "park"}
  \/ pc[w] = "pop" /\ ticked[w] /\ waittime[w] # NoWait

(* Finished tasks are being released, or someone is going to look whether  *)
(* they have to be.                                                        *)
Attended ==
  qstate = "Running" /\ doneq # <<>> =>
    IF inworker
    THEN \/ \E w \in Workers : pc[w] \in {"notify", "clear", "done"}
         \/ needrun /\ \E w \in Workers : ~Lapsed(w)
    ELSE mgr # "wait" \/ mgrnotify \/ \E w \in Workers : pc[w] = "notify"

(* The inductive invariant.                                                *)
Inv ==
  /\ TypeOK /\ Locals /\ Lifecycle
  /\ RefsExact /\ Attended /\ CancelSticksUnlessRaced /\ AllSettled
----------------------------------------------------------------------------

(* The places of t in a queue are finitely many; none in an empty one.     *)
LEMMA CountNat ==
  ASSUME NEW s \in Seq(Tasks), NEW t
  PROVE  /\ IsFiniteSet({i \in DOMAIN s : s[i] = t})
         /\ Count(s, t) \in Nat
         /\ s = <<>> => Count(s, t) = 0
<1> DEFINE A == {i \in DOMAIN s : s[i] = t}
<1>1. Len(s) \in Nat /\ DOMAIN s = 1..Len(s)
  BY LenProperties
<1>2. IsFiniteSet(1..Len(s))
  BY <1>1, FS_Interval
<1>3. A \in SUBSET (1..Len(s))
  BY <1>1
<1>4. IsFiniteSet(A)
  BY <1>2, <1>3, FS_Subset
<1>5. s = <<>> => A = {}
  OBVIOUS
<1> HIDE DEF A
<1>6. Cardinality(A) \in Nat /\ (A = {} => Cardinality(A) = 0)
  BY <1>4, FS_CardinalityType, FS_EmptySet
<1> QED
  BY <1>4, <1>5, <1>6 DEF A, Count

(* A push adds one place of what is pushed ...                             *)
LEMMA CountAppend ==
  ASSUME NEW s \in Seq(Tasks), NEW x \in Tasks, NEW t
  PROVE  /\ Append(s, x) \in Seq(Tasks) /\ Append(s, x) # <<>>
         /\ Count(Append(s, x), t) = IF x = t THEN Count(s, t) + 1 ELSE Count(s, t)
<1> DEFINE r == Append(s, x)
           A == {i \in DOMAIN s : s[i] = t}
           B == {i \in DOMAIN r : r[i] = t}
           n == Len(s) + 1
<1>1. Len(s) \in Nat /\ DOMAIN s = 1..Len(s)
  BY LenProperties
<1>2. /\ r \in Seq(Tasks) /\ r # <<>> /\ Len(r) = n
      /\ \A i \in 1..Len(s) : r[i] = s[i]
      /\ r[n] = x
  BY AppendProperties
<1>3. DOMAIN r = 1..n
  BY <1>2, LenProperties
<1> HIDE DEF r
<1>4. x = t => B = A \cup {n} /\ n \notin A
  BY <1>1, <1>2, <1>3
<1>5. x # t => B = A
  BY <1>1, <1>2, <1>3
<1>6. IsFiniteSet(A)
  BY CountNat
<1> HIDE DEF A, B, n
<1>7. x = t => Cardinality(B) = Cardinality(A) + 1
  BY <1>4, <1>6, FS_AddElement
<1> QED
  BY <1>2, <1>5, <1>7 DEF A, B, r, Count

(* ... and a pop takes away one of what it returns.                        *)
LEMMA CountTail ==
  ASSUME NEW s \in Seq(Tasks), s # <<>>, NEW t
  PROVE  /\ Head(s) \in Tasks /\ Tail(s) \in Seq(Tasks)
         /\ Count(s, t) = IF Head(s) = t THEN Count(Tail(s), t) + 1 ELSE Count(Tail(s), t)
<1> DEFINE r == Tail(s)
           A == {i \in DOMAIN s : s[i] = t}
           B == {i \in DOMAIN r : r[i] = t}
           C == A \ {1}
<1>1. Len(s) \in Nat \ {0} /\ DOMAIN s = 1..Len(s)
  BY LenProperties, EmptySeq
<1>2. /\ Head(s) \in Tasks /\ r \in Seq(Tasks) /\ Len(r) = Len(s) - 1
      /\ \A i \in 1..Len(r) : r[i] = s[i + 1]
  BY HeadTailProperties
<1>3. DOMAIN r = 1..(Len(s) - 1)
  BY <1>2, LenProperties
<1>4. Head(s) = s[1]
  OBVIOUS
<1> HIDE DEF r
<1>5. IsFiniteSet(B)
  BY <1>2, CountNat
<1>6. ExistsBijection(B, C)
  <2> DEFINE f == [i \in B |-> i + 1]
  <2>1. f \in [B -> C]
    BY <1>1, <1>2, <1>3
  <2>2. \A i, j \in B : f[i] = f[j] => i = j
    BY <1>1, <1>3
  <2>3. \A k \in C : \E i \in B : f[i] = k
    <3> SUFFICES ASSUME NEW k \in C PROVE \E i \in B : f[i] = k
      OBVIOUS
    <3>1. k - 1 \in B /\ (k - 1) + 1 = k
      BY <1>1, <1>2, <1>3
    <3> QED
      BY <3>1
  <2> HIDE DEF f
  <2>4. f \in Bijection(B, C)
    BY <2>1, <2>2, <2>3 DEF Bijection, Injection, Surjection, IsInjective
  <2> QED
    BY <2>4 DEF ExistsBijection
<1> HIDE DEF B
<1>7. Head(s) = t => A = C \cup {1} /\ 1 \notin C
  BY <1>1, <1>4
<1>8. Head(s) # t => A = C
  BY <1>1, <1>4
<1> HIDE DEF A, C
<1>9. IsFiniteSet(C) /\ Cardinality(C) = Cardinality(B)
  BY <1>5, <1>6, FS_Bijection
<1>10. Head(s) = t => Cardinality(A) = Cardinality(B) + 1
  <2>1. Cardinality(C \cup {1}) = Cardinality(C) + 1 \/ 1 \in C
    BY <1>9, FS_AddElement
  <2> QED
    BY <1>7, <1>9, <2>1
<1> QED
  BY <1>2, <1>8, <1>9, <1>10 DEF A, B, r, Count

(* The type invariant, by what the steps change together.                  *)
WordsOK ==
  /\ tstate \in [Tasks -> States] /\ cancelled \in [Tasks -> BOOLEAN]
  /\ wants \subseteq Tasks /\ raced \subseteq Tasks /\ early \subseteq Tasks
  /\ snap \in [Threads -> [state : States, cancel : BOOLEAN, new : States]]

QueuesOK == runq \in Seq(Tasks) /\ doneq \in Seq(Tasks) /\ refs \in [Tasks -> Nat]

ThreadsOK ==
  /\ pc \in [Threads -> ClientLabels \union WorkerLabels]
  /\ task \in [Threads -> Tasks \union {Nobody}]
  /\ waittime \in [Workers -> NoWait..Forever] /\ ticked \in [Workers -> BOOLEAN]
  /\ calls \in [Clients -> Nat]

ManagerOK ==
  /\ inworker \in BOOLEAN
  /\ qstate \in {"Init", "Starting", "Running", "Stopping"}
  /\ workev \in {"unset", "set", "locked"}
  /\ needrun \in BOOLEAN /\ mgrlock \in Workers \union {Controller, Nobody}
  /\ mgr \in {"none", "loop", "done", "wait", "exited"} /\ mgrnotify \in BOOLEAN
  /\ attached \in BOOLEAN
  /\ ctl \in {"init", "starting", "running", "lock", "manager", "runner", "clear", "stopped"}
  /\ expired \in BOOLEAN

(* The parts make up the whole.                                            *)
LEMMA TypeParts == TypeOK <=> WordsOK /\ QueuesOK /\ ThreadsOK /\ ManagerOK
BY DEF TypeOK, WordsOK, QueuesOK, ThreadsOK, ManagerOK


(* The load of BasicTask__setState is about one thread's snapshot and one  *)
(* task ...                                                                *)
LEMMA LoadWords ==
  ASSUME WordsOK, NEW p \in Threads, NEW t \in Tasks, NEW new \in States,
         NEW from, NEW okay, NEW cas, NEW fail,
         SetStateLoad(p, t, new, from, okay, cas, fail)
  PROVE  WordsOK'
<1>1. NoSnap \in [state : States, cancel : BOOLEAN, new : States]
  BY DEF NoSnap, States
<1>2. PICK s \in [state : States, cancel : BOOLEAN, new : States] : snap' = [snap EXCEPT ![p] = s]
  <2>1. [state |-> tstate[t], cancel |-> cancelled[t], new |-> new]
           \in [state : States, cancel : BOOLEAN, new : States]
    BY DEF WordsOK
  <2> QED
    BY <1>1, <2>1 DEF SetStateLoad
<1>3. UNCHANGED <<tstate, cancelled, wants, early>> /\ raced' \in SUBSET Tasks
  BY DEF SetStateLoad, WordsOK
<1> QED
  BY <1>2, <1>3 DEF WordsOK

(* ... and so is its exchange.                                             *)
LEMMA CasWords ==
  ASSUME WordsOK, NEW p \in Threads, NEW t \in Tasks, NEW from, NEW to,
         SetStateCas(p, t, from, to)
  PROVE  WordsOK'
BY DEF SetStateCas, WordsOK, NoSnap, States


(* Every step keeps the types of the state words ...                       *)
LEMMA WordsStep ==
  ASSUME WordsOK, Locals, [Next]_vars
  PROVE  WordsOK'
<1>1. CASE UNCHANGED vars
  BY <1>1
     DEF vars, taskvars, queues, mgrvars, loopvars, control, WordsOK, Locals, ClientLocal,
         WorkerLocal, Holding, NoSnap, States, Finished
<1>2. ASSUME NEW c \in Clients, ClientStep(c) \/ Add(c) \/ Cancel(c) \/ Reset(c)
      PROVE  WordsOK'
  <2>0. c \in Threads
    BY DEF Threads
  <2>1. CASE AddLoad(c)
    <3>1. SetStateLoad(c, task[c], "Waiting", "addload", "addpush", "addcas", "idle")
      BY <2>1 DEF AddLoad
    <3>2. task[c] \in Tasks /\ "Waiting" \in States
      BY <2>0, <2>1
         DEF AddLoad, SetStateLoad, Locals, ClientLocal, WorkerLocal, Holding, States, WordsOK
    <3> QED
      BY <2>0, <3>1, <3>2, LoadWords
  <2>2. CASE AddCas(c)
    <3>1. SetStateCas(c, task[c], "addcas", "addpush")
      BY <2>2 DEF AddCas
    <3>2. task[c] \in Tasks
      BY <2>2 DEF AddCas, SetStateCas, Goto, Locals, ClientLocal, WorkerLocal, Holding
    <3> QED
      BY <2>0, <3>1, <3>2, CasWords
  <2>3. CASE \/ AddPush(c) \/ AddSignal(c) \/ Add(c) \/ Cancel(c)
    <3>1. UNCHANGED <<taskvars, snap>>
      BY <2>3
         DEF AddPush, Goto, taskvars, queues, mgrvars, loopvars, control, AddSignal, Notify,
             Add, StartCall, Cancel
    <3> QED
      BY <3>1 DEF WordsOK, taskvars
  <2>4. CASE CancelCas(c)
    BY <2>4, <2>0
       DEF CancelCas, Goto, taskvars, queues, mgrvars, loopvars, control, WordsOK, Locals,
           ClientLocal, WorkerLocal, Holding, NoSnap, States, Finished
  <2>5. CASE Reset(c)
    BY <2>5, <2>0
       DEF Reset, StartCall, taskvars, queues, mgrvars, loopvars, control, WordsOK, Locals,
           ClientLocal, WorkerLocal, Holding, NoSnap, States, Finished
  <2> QED
    BY <1>2, <2>1, <2>2, <2>3, <2>4, <2>5 DEF ClientStep
<1>3. ASSUME NEW w \in Workers, WorkerStep(w) \/ WorkerWaitEnds(w)
      PROVE  WordsOK'
  <2>0. w \in Threads
    BY DEF Threads
  <2>1. CASE \/ WorkerLoop(w) \/ WorkerPretask(w) \/ WorkerPretaskUnlock(w) \/ WorkerWait(w)
           \/ WorkerWaitEnds(w) \/ WorkerPop(w) \/ WorkerRelease(w) \/ WorkerPushDone(w)
           \/ WorkerNotify(w) \/ WorkerTick(w) \/ WorkerTickClear(w) \/ WorkerProcessDone(w)
           \/ WorkerProcessed(w) \/ WorkerTickUnlock(w) \/ WorkerTickCheck(w)
    <3>1. UNCHANGED <<taskvars, snap>>
      BY <2>1
         DEF WorkerLoop, Goto, taskvars, queues, mgrvars, loopvars, control, WorkerPretask,
             WorkerPretaskUnlock, WorkerWait, WorkerWaitEnds, WorkerPop, EndTick, WorkerRelease,
             WorkerPushDone, WorkerNotify, Notify, WorkerTick, WorkerTickClear,
             WorkerProcessDone, ReleaseDone, WorkerProcessed, WorkerTickUnlock, WorkerTickCheck
    <3> QED
      BY <3>1 DEF WordsOK, taskvars
  <2>2. CASE WorkerRunLoad(w)
    <3>1. SetStateLoad(w, task[w], "Running", "load", "run", "cas", "drop")
      BY <2>2 DEF WorkerRunLoad
    <3>2. task[w] \in Tasks /\ "Running" \in States
      BY <2>0, <2>2
         DEF WorkerRunLoad, SetStateLoad, Locals, ClientLocal, WorkerLocal, Holding, States,
             WordsOK
    <3> QED
      BY <2>0, <3>1, <3>2, LoadWords
  <2>3. CASE WorkerRunCas(w)
    <3>1. SetStateCas(w, task[w], "cas", "run")
      BY <2>3 DEF WorkerRunCas
    <3>2. task[w] \in Tasks
      BY <2>3 DEF WorkerRunCas, SetStateCas, Goto, Locals, ClientLocal, WorkerLocal, Holding
    <3> QED
      BY <2>0, <3>1, <3>2, CasWords
  <2>4. CASE WorkerFailLoad(w)
    <3>1. SetStateLoad(w, task[w], "Failed", "drop", "release", "dropcas", "release")
      BY <2>4 DEF WorkerFailLoad
    <3>2. task[w] \in Tasks /\ "Failed" \in States
      BY <2>0, <2>4
         DEF WorkerFailLoad, SetStateLoad, Locals, ClientLocal, WorkerLocal, Holding, States,
             WordsOK
    <3> QED
      BY <2>0, <3>1, <3>2, LoadWords
  <2>5. CASE WorkerFailCas(w)
    <3>1. SetStateCas(w, task[w], "dropcas", "release")
      BY <2>5 DEF WorkerFailCas
    <3>2. task[w] \in Tasks
      BY <2>5 DEF WorkerFailCas, SetStateCas, Goto, Locals, ClientLocal, WorkerLocal, Holding
    <3> QED
      BY <2>0, <3>1, <3>2, CasWords
  <2>6. CASE WorkerRun(w)
    BY <2>6, <2>0
       DEF WorkerRun, Goto, taskvars, queues, mgrvars, loopvars, control, WordsOK, Locals,
           ClientLocal, WorkerLocal, Holding, NoSnap, States, Finished
  <2>7. CASE WorkerResultLoad(w)
    <3>1. SetStateLoad(w, task[w], snap[w].new, "resload", "pushdone", "rescas", "pushdone")
      BY <2>7 DEF WorkerResultLoad
    <3>2. task[w] \in Tasks /\ snap[w].new \in States
      BY <2>0, <2>7
         DEF WorkerResultLoad, SetStateLoad, Locals, ClientLocal, WorkerLocal, Holding,
             States, WordsOK
    <3> QED
      BY <2>0, <3>1, <3>2, LoadWords
  <2>8. CASE WorkerResultCas(w)
    <3>1. SetStateCas(w, task[w], "rescas", "pushdone")
      BY <2>8 DEF WorkerResultCas
    <3>2. task[w] \in Tasks
      BY <2>8 DEF WorkerResultCas, SetStateCas, Goto, Locals, ClientLocal, WorkerLocal, Holding
    <3> QED
      BY <2>0, <3>1, <3>2, CasWords
  <2> QED
    BY <1>3, <2>1, <2>2, <2>3, <2>4, <2>5, <2>6, <2>7, <2>8 DEF WorkerStep
<1>4. CASE ManagerStep \/ ManagerWaitEnds
  <2>1. CASE \/ ManagerLoop \/ ManagerProcessDone \/ ManagerTickEnds \/ ManagerWait
           \/ ManagerWaitEnds
    <3>1. UNCHANGED <<taskvars, snap>>
      BY <2>1
         DEF ManagerLoop, taskvars, queues, mgrvars, loopvars, control, ManagerProcessDone,
             ReleaseDone, ManagerTickEnds, ManagerWait, ManagerWaitEnds
    <3> QED
      BY <3>1 DEF WordsOK, taskvars
  <2> QED
    BY <1>4, <2>1 DEF ManagerStep
<1>5. CASE ControlStep \/ StopManagerExpires \/ StopRunnerExpires \/ Start \/ Stop
  <2>1. CASE \/ Start \/ StartDone \/ Stop \/ StopLock \/ StopManager \/ StopManagerExpires
           \/ StopRunner \/ StopRunnerExpires \/ StopClear \/ StopDone
    <3>1. UNCHANGED <<taskvars, snap>>
      BY <2>1
         DEF Start, taskvars, queues, mgrvars, loopvars, control, StartDone, Stop, StopLock,
             StopManager, StopManagerExpires, StopRunner, StopRunnerExpires, StopClear,
             ReleaseDone, StopDone
    <3> QED
      BY <3>1 DEF WordsOK, taskvars
  <2> QED
    BY <1>5, <2>1 DEF ControlStep
<1> QED
  BY <1>1, <1>2, <1>3, <1>4, <1>5 DEF Next, Environment

(* ... and of what each thread keeps.                                      *)
LEMMA ThreadsStep ==
  ASSUME ThreadsOK, QueuesOK, ManagerOK, [Next]_vars
  PROVE  ThreadsOK'
<1>1. CASE UNCHANGED vars
  BY <1>1 DEF vars, loopvars, ThreadsOK
<1>2. ASSUME NEW c \in Clients, ClientStep(c) \/ Add(c) \/ Cancel(c) \/ Reset(c)
      PROVE  ThreadsOK'
  <2>0. c \in Threads
    BY DEF Threads
  <2>1. CASE AddLoad(c)
    BY <2>1, <2>0, TaskQueueAssumption
       DEF AddLoad, SetStateLoad, Goto, taskvars, queues, mgrvars, loopvars, control,
           ThreadsOK, QueuesOK, Threads, ClientLabels, WorkerLabels, NoWait, Interval, Forever
  <2>2. CASE AddCas(c)
    BY <2>2, <2>0, TaskQueueAssumption
       DEF AddCas, SetStateCas, Goto, taskvars, queues, mgrvars, loopvars, control,
           ThreadsOK, QueuesOK, Threads, ClientLabels, WorkerLabels, NoWait, Interval, Forever
  <2>3. CASE AddPush(c)
    BY <2>3, <2>0, TaskQueueAssumption
       DEF AddPush, Goto, taskvars, queues, mgrvars, loopvars, control, ThreadsOK, QueuesOK,
           Threads, ClientLabels, WorkerLabels, NoWait, Interval, Forever
  <2>4. CASE AddSignal(c)
    BY <2>4, <2>0, TaskQueueAssumption
       DEF AddSignal, Goto, Notify, taskvars, queues, mgrvars, loopvars, control, ThreadsOK,
           QueuesOK, Threads, ClientLabels, WorkerLabels, NoWait, Interval, Forever
  <2>5. CASE CancelCas(c)
    BY <2>5, <2>0, TaskQueueAssumption
       DEF CancelCas, Goto, taskvars, queues, mgrvars, loopvars, control, ThreadsOK,
           QueuesOK, Threads, ClientLabels, WorkerLabels, NoWait, Interval, Forever
  <2>6. CASE Add(c)
    BY <2>6, <2>0, TaskQueueAssumption
       DEF Add, Goto, StartCall, taskvars, queues, mgrvars, loopvars, control, ThreadsOK,
           QueuesOK, Threads, ClientLabels, WorkerLabels, NoWait, Interval, Forever
  <2>7. CASE Cancel(c)
    BY <2>7, <2>0, TaskQueueAssumption
       DEF Cancel, Goto, StartCall, taskvars, queues, mgrvars, loopvars, control, ThreadsOK,
           QueuesOK, Threads, ClientLabels, WorkerLabels, NoWait, Interval, Forever
  <2>8. CASE Reset(c)
    BY <2>8, <2>0, TaskQueueAssumption
       DEF Reset, StartCall, taskvars, queues, mgrvars, loopvars, control, ThreadsOK,
           QueuesOK, Threads, ClientLabels, WorkerLabels, NoWait, Interval, Forever
  <2> QED
    BY <1>2, <2>1, <2>2, <2>3, <2>4, <2>5, <2>6, <2>7, <2>8 DEF ClientStep
<1>3. ASSUME NEW w \in Workers, WorkerStep(w) \/ WorkerWaitEnds(w)
      PROVE  ThreadsOK'
  <2>0. w \in Threads
    BY DEF Threads
  <2>1. CASE WorkerLoop(w)
    BY <2>1, <2>0, TaskQueueAssumption
       DEF WorkerLoop, Goto, taskvars, queues, mgrvars, loopvars, control, ThreadsOK,
           QueuesOK, Threads, ClientLabels, WorkerLabels, NoWait, Interval, Forever
  <2>2. CASE WorkerPretask(w)
    BY <2>2, <2>0, TaskQueueAssumption
       DEF WorkerPretask, Goto, taskvars, queues, mgrvars, loopvars, control, ThreadsOK,
           QueuesOK, Threads, ClientLabels, WorkerLabels, NoWait, Interval, Forever
  <2>3. CASE WorkerPretaskUnlock(w)
    BY <2>3, <2>0, TaskQueueAssumption
       DEF WorkerPretaskUnlock, Goto, taskvars, queues, mgrvars, loopvars, control,
           ThreadsOK, QueuesOK, Threads, ClientLabels, WorkerLabels, NoWait, Interval, Forever
  <2>4. CASE WorkerWait(w)
    BY <2>4, <2>0, TaskQueueAssumption
       DEF WorkerWait, Goto, taskvars, queues, mgrvars, loopvars, control, ThreadsOK,
           QueuesOK, Threads, ClientLabels, WorkerLabels, NoWait, Interval, Forever
  <2>5. CASE WorkerWaitEnds(w)
    BY <2>5, <2>0, TaskQueueAssumption
       DEF WorkerWaitEnds, Goto, taskvars, queues, mgrvars, loopvars, control, ThreadsOK,
           QueuesOK, Threads, ClientLabels, WorkerLabels, NoWait, Interval, Forever
  <2>6. CASE WorkerPop(w)
    <3>1. runq # <<>> => Head(runq) \in Tasks
      BY CountTail DEF QueuesOK
    <3>2. task' \in [Threads -> Tasks \union {Nobody}]
      BY <2>0, <2>6, <3>1 DEF WorkerPop, EndTick, ThreadsOK
    <3>3. pc' \in [Threads -> ClientLabels \union WorkerLabels]
      <4>1. \E l \in WorkerLabels : pc' = [pc EXCEPT ![w] = l]
        BY <2>6 DEF WorkerPop, EndTick, Goto, WorkerLabels
      <4> QED
        BY <2>0, <4>1 DEF ThreadsOK
    <3>4. waittime' \in [Workers -> NoWait..Forever]
      <4>1. waittime' = waittime \/ waittime' = [waittime EXCEPT ![w] = Forever]
        BY <2>6 DEF WorkerPop, EndTick, loopvars
      <4> QED
        BY <4>1 DEF ThreadsOK, NoWait, Forever
    <3>5. ticked' \in [Workers -> BOOLEAN] /\ calls' = calls
      <4>1. \/ ticked' = ticked \/ ticked' = [ticked EXCEPT ![w] = FALSE]
            \/ ticked' = [ticked EXCEPT ![w] = inworker]
        BY <2>6 DEF WorkerPop, EndTick
      <4>2. inworker \in BOOLEAN /\ calls' = calls
        BY <2>6 DEF WorkerPop, ManagerOK
      <4> QED
        BY <4>1, <4>2 DEF ThreadsOK
    <3> QED
      BY <3>2, <3>3, <3>4, <3>5 DEF ThreadsOK
  <2>7. CASE WorkerRunLoad(w)
    BY <2>7, <2>0, TaskQueueAssumption
       DEF WorkerRunLoad, SetStateLoad, Goto, taskvars, queues, mgrvars, loopvars, control,
           ThreadsOK, QueuesOK, Threads, ClientLabels, WorkerLabels, NoWait, Interval, Forever
  <2>8. CASE WorkerRunCas(w)
    BY <2>8, <2>0, TaskQueueAssumption
       DEF WorkerRunCas, SetStateCas, Goto, taskvars, queues, mgrvars, loopvars, control,
           ThreadsOK, QueuesOK, Threads, ClientLabels, WorkerLabels, NoWait, Interval, Forever
  <2>9. CASE WorkerFailLoad(w)
    BY <2>9, <2>0, TaskQueueAssumption
       DEF WorkerFailLoad, SetStateLoad, Goto, taskvars, queues, mgrvars, loopvars, control,
           ThreadsOK, QueuesOK, Threads, ClientLabels, WorkerLabels, NoWait, Interval, Forever
  <2>10. CASE WorkerFailCas(w)
    BY <2>10, <2>0, TaskQueueAssumption
       DEF WorkerFailCas, SetStateCas, Goto, taskvars, queues, mgrvars, loopvars, control,
           ThreadsOK, QueuesOK, Threads, ClientLabels, WorkerLabels, NoWait, Interval, Forever
  <2>11. CASE WorkerRelease(w)
    BY <2>11, <2>0, TaskQueueAssumption
       DEF WorkerRelease, Goto, taskvars, queues, mgrvars, loopvars, control, ThreadsOK,
           QueuesOK, Threads, ClientLabels, WorkerLabels, NoWait, Interval, Forever
  <2>12. CASE WorkerRun(w)
    BY <2>12, <2>0, TaskQueueAssumption
       DEF WorkerRun, Goto, taskvars, queues, mgrvars, loopvars, control, ThreadsOK,
           QueuesOK, Threads, ClientLabels, WorkerLabels, NoWait, Interval, Forever
  <2>13. CASE WorkerResultLoad(w)
    BY <2>13, <2>0, TaskQueueAssumption
       DEF WorkerResultLoad, SetStateLoad, Goto, taskvars, queues, mgrvars, loopvars,
           control, ThreadsOK, QueuesOK, Threads, ClientLabels, WorkerLabels, NoWait,
           Interval, Forever
  <2>14. CASE WorkerResultCas(w)
    BY <2>14, <2>0, TaskQueueAssumption
       DEF WorkerResultCas, SetStateCas, Goto, taskvars, queues, mgrvars, loopvars, control,
           ThreadsOK, QueuesOK, Threads, ClientLabels, WorkerLabels, NoWait, Interval, Forever
  <2>15. CASE WorkerPushDone(w)
    BY <2>15, <2>0, TaskQueueAssumption
       DEF WorkerPushDone, Goto, taskvars, queues, mgrvars, loopvars, control, ThreadsOK,
           QueuesOK, Threads, ClientLabels, WorkerLabels, NoWait, Interval, Forever
  <2>16. CASE WorkerNotify(w)
    BY <2>16, <2>0, TaskQueueAssumption
       DEF WorkerNotify, Goto, Notify, taskvars, queues, mgrvars, loopvars, control,
           ThreadsOK, QueuesOK, Threads, ClientLabels, WorkerLabels, NoWait, Interval, Forever
  <2>17. CASE WorkerTick(w)
    <3>1. waittime' \in [Workers -> NoWait..Forever]
      BY <2>17 DEF WorkerTick, ThreadsOK, NoWait, Interval, Forever
    <3>2. ticked' \in [Workers -> BOOLEAN] /\ UNCHANGED <<task, calls>>
      BY <2>17 DEF WorkerTick, ThreadsOK
    <3>3. pc' \in [Threads -> ClientLabels \union WorkerLabels]
      BY <2>0, <2>17 DEF WorkerTick, Goto, ThreadsOK, WorkerLabels
    <3> QED
      BY <3>1, <3>2, <3>3 DEF ThreadsOK
  <2>18. CASE WorkerTickClear(w)
    BY <2>18, <2>0, TaskQueueAssumption
       DEF WorkerTickClear, Goto, taskvars, queues, mgrvars, loopvars, control, ThreadsOK,
           QueuesOK, Threads, ClientLabels, WorkerLabels, NoWait, Interval, Forever
  <2>19. CASE WorkerProcessDone(w)
    BY <2>19, <2>0, TaskQueueAssumption
       DEF WorkerProcessDone, ReleaseDone, taskvars, queues, mgrvars, loopvars, control,
           ThreadsOK, QueuesOK, Threads, ClientLabels, WorkerLabels, NoWait, Interval, Forever
  <2>20. CASE WorkerProcessed(w)
    BY <2>20, <2>0, TaskQueueAssumption
       DEF WorkerProcessed, Goto, taskvars, queues, mgrvars, loopvars, control, ThreadsOK,
           QueuesOK, Threads, ClientLabels, WorkerLabels, NoWait, Interval, Forever
  <2>21. CASE WorkerTickUnlock(w)
    BY <2>21, <2>0, TaskQueueAssumption
       DEF WorkerTickUnlock, Goto, taskvars, queues, mgrvars, loopvars, control, ThreadsOK,
           QueuesOK, Threads, ClientLabels, WorkerLabels, NoWait, Interval, Forever
  <2>22. CASE WorkerTickCheck(w)
    <3>1. waittime' \in [Workers -> NoWait..Forever]
      <4>1. \E n \in {NoWait, Forever} : waittime' = waittime \/ waittime' = [waittime EXCEPT ![w] = n]
        BY <2>22 DEF WorkerTickCheck, EndTick
      <4> QED
        BY <4>1 DEF ThreadsOK, NoWait, Forever
    <3>2. ticked' \in [Workers -> BOOLEAN] /\ UNCHANGED <<task, calls>>
      BY <2>22 DEF WorkerTickCheck, EndTick, ThreadsOK
    <3>3. pc' \in [Threads -> ClientLabels \union WorkerLabels]
      <4>1. \E l \in WorkerLabels : pc' = [pc EXCEPT ![w] = l]
        BY <2>22 DEF WorkerTickCheck, EndTick, Goto, WorkerLabels
      <4> QED
        BY <2>0, <4>1 DEF ThreadsOK
    <3> QED
      BY <3>1, <3>2, <3>3 DEF ThreadsOK
  <2> QED
    BY <1>3, <2>1, <2>2, <2>3, <2>4, <2>5, <2>6, <2>7, <2>8, <2>9, <2>10, <2>11, <2>12,
           <2>13, <2>14, <2>15, <2>16, <2>17, <2>18, <2>19, <2>20, <2>21, <2>22
       DEF WorkerStep
<1>4. CASE ManagerStep \/ ManagerWaitEnds
  <2>1. CASE \/ ManagerLoop \/ ManagerProcessDone \/ ManagerTickEnds \/ ManagerWait
           \/ ManagerWaitEnds
    <3>1. UNCHANGED <<pc, task, loopvars>>
      BY <2>1
         DEF ManagerLoop, taskvars, queues, mgrvars, loopvars, control, ManagerProcessDone,
             ReleaseDone, ManagerTickEnds, ManagerWait, ManagerWaitEnds
    <3> QED
      BY <3>1 DEF ThreadsOK, loopvars
  <2> QED
    BY <1>4, <2>1 DEF ManagerStep
<1>5. CASE ControlStep \/ StopManagerExpires \/ StopRunnerExpires \/ Start \/ Stop
  <2>1. CASE Start
    BY <2>1, TaskQueueAssumption
       DEF Start, taskvars, queues, mgrvars, loopvars, control, ThreadsOK, QueuesOK, Threads,
           ClientLabels, WorkerLabels, NoWait, Interval, Forever
  <2>2. CASE \/ StartDone \/ Stop \/ StopLock \/ StopManager \/ StopManagerExpires
           \/ StopRunner \/ StopRunnerExpires \/ StopClear \/ StopDone
    <3>1. UNCHANGED <<pc, task, loopvars>>
      BY <2>2
         DEF StartDone, taskvars, queues, mgrvars, loopvars, control, Stop, StopLock,
             StopManager, StopManagerExpires, StopRunner, StopRunnerExpires, StopClear,
             ReleaseDone, StopDone
    <3> QED
      BY <3>1 DEF ThreadsOK, loopvars
  <2> QED
    BY <1>5, <2>1, <2>2 DEF ControlStep
<1> QED
  BY <1>1, <1>2, <1>3, <1>4, <1>5 DEF Next, Environment

(* A step of one client or worker leaves what the others keep alone.       *)
OnlyMoves(p) ==
  /\ \A q \in Threads : q # p => /\ pc'[q] = pc[q] /\ task'[q] = task[q] /\ snap'[q] = snap[q]
  /\ \A q \in Workers : q # p => ticked'[q] = ticked[q] /\ waittime'[q] = waittime[q]

(* Clients move one at a time ...                                          *)
LEMMA ClientMoves ==
  ASSUME WordsOK, ThreadsOK, NEW c \in Clients, ClientStep(c) \/ Add(c) \/ Cancel(c) \/ Reset(c)
  PROVE  OnlyMoves(c)
<1>0. c \in Threads
  BY DEF Threads
<1>1. CASE AddLoad(c)
  BY <1>1, <1>0
     DEF AddLoad, SetStateLoad, Goto, taskvars, queues, mgrvars, loopvars, control,
         OnlyMoves, WordsOK, ThreadsOK
<1>2. CASE AddCas(c)
  BY <1>2, <1>0
     DEF AddCas, SetStateCas, Goto, taskvars, queues, mgrvars, loopvars, control, OnlyMoves,
         WordsOK, ThreadsOK
<1>3. CASE AddPush(c)
  BY <1>3, <1>0
     DEF AddPush, Goto, taskvars, queues, mgrvars, loopvars, control, OnlyMoves, WordsOK,
         ThreadsOK
<1>4. CASE AddSignal(c)
  BY <1>4, <1>0
     DEF AddSignal, Goto, Notify, taskvars, queues, mgrvars, loopvars, control, OnlyMoves,
         WordsOK, ThreadsOK
<1>5. CASE CancelCas(c)
  BY <1>5, <1>0
     DEF CancelCas, Goto, taskvars, queues, mgrvars, loopvars, control, OnlyMoves, WordsOK,
         ThreadsOK
<1>6. CASE Add(c)
  BY <1>6, <1>0
     DEF Add, Goto, StartCall, taskvars, queues, mgrvars, loopvars, control, OnlyMoves,
         WordsOK, ThreadsOK
<1>7. CASE Cancel(c)
  BY <1>7, <1>0
     DEF Cancel, Goto, StartCall, taskvars, queues, mgrvars, loopvars, control, OnlyMoves,
         WordsOK, ThreadsOK
<1>8. CASE Reset(c)
  BY <1>8, <1>0
     DEF Reset, StartCall, taskvars, queues, mgrvars, loopvars, control, OnlyMoves, WordsOK,
         ThreadsOK
<1> QED
  BY <1>1, <1>2, <1>3, <1>4, <1>5, <1>6, <1>7, <1>8 DEF ClientStep

(* ... and so do workers.                                                  *)
LEMMA WorkerMoves ==
  ASSUME WordsOK, ThreadsOK, NEW w \in Workers, WorkerStep(w) \/ WorkerWaitEnds(w)
  PROVE  OnlyMoves(w)
<1>0. w \in Threads
  BY DEF Threads
<1>1. CASE WorkerLoop(w)
  BY <1>1, <1>0
     DEF WorkerLoop, Goto, taskvars, queues, mgrvars, loopvars, control, OnlyMoves, WordsOK,
         ThreadsOK
<1>2. CASE WorkerPretask(w)
  BY <1>2, <1>0
     DEF WorkerPretask, Goto, taskvars, queues, mgrvars, loopvars, control, OnlyMoves,
         WordsOK, ThreadsOK
<1>3. CASE WorkerPretaskUnlock(w)
  BY <1>3, <1>0
     DEF WorkerPretaskUnlock, Goto, taskvars, queues, mgrvars, loopvars, control, OnlyMoves,
         WordsOK, ThreadsOK
<1>4. CASE WorkerWait(w)
  BY <1>4, <1>0
     DEF WorkerWait, Goto, taskvars, queues, mgrvars, loopvars, control, OnlyMoves, WordsOK,
         ThreadsOK
<1>5. CASE WorkerWaitEnds(w)
  BY <1>5, <1>0
     DEF WorkerWaitEnds, Goto, taskvars, queues, mgrvars, loopvars, control, OnlyMoves,
         WordsOK, ThreadsOK
<1>6. CASE WorkerPop(w)
  BY <1>6, <1>0
     DEF WorkerPop, EndTick, Goto, taskvars, queues, mgrvars, loopvars, control, OnlyMoves, WordsOK,
         ThreadsOK
<1>7. CASE WorkerRunLoad(w)
  BY <1>7, <1>0
     DEF WorkerRunLoad, SetStateLoad, Goto, taskvars, queues, mgrvars, loopvars, control,
         OnlyMoves, WordsOK, ThreadsOK
<1>8. CASE WorkerRunCas(w)
  BY <1>8, <1>0
     DEF WorkerRunCas, SetStateCas, Goto, taskvars, queues, mgrvars, loopvars, control,
         OnlyMoves, WordsOK, ThreadsOK
<1>9. CASE WorkerFailLoad(w)
  BY <1>9, <1>0
     DEF WorkerFailLoad, SetStateLoad, Goto, taskvars, queues, mgrvars, loopvars, control,
         OnlyMoves, WordsOK, ThreadsOK
<1>10. CASE WorkerFailCas(w)
  BY <1>10, <1>0
     DEF WorkerFailCas, SetStateCas, Goto, taskvars, queues, mgrvars, loopvars, control,
         OnlyMoves, WordsOK, ThreadsOK
<1>11. CASE WorkerRelease(w)
  BY <1>11, <1>0
     DEF WorkerRelease, Goto, taskvars, queues, mgrvars, loopvars, control, OnlyMoves,
         WordsOK, ThreadsOK
<1>12. CASE WorkerRun(w)
  BY <1>12, <1>0
     DEF WorkerRun, Goto, taskvars, queues, mgrvars, loopvars, control, OnlyMoves, WordsOK,
         ThreadsOK
<1>13. CASE WorkerResultLoad(w)
  BY <1>13, <1>0
     DEF WorkerResultLoad, SetStateLoad, Goto, taskvars, queues, mgrvars, loopvars, control,
         OnlyMoves, WordsOK, ThreadsOK
<1>14. CASE WorkerResultCas(w)
  BY <1>14, <1>0
     DEF WorkerResultCas, SetStateCas, Goto, taskvars, queues, mgrvars, loopvars, control,
         OnlyMoves, WordsOK, ThreadsOK
<1>15. CASE WorkerPushDone(w)
  BY <1>15, <1>0
     DEF WorkerPushDone, Goto, taskvars, queues, mgrvars, loopvars, control, OnlyMoves,
         WordsOK, ThreadsOK
<1>16. CASE WorkerNotify(w)
  BY <1>16, <1>0
     DEF WorkerNotify, Goto, Notify, taskvars, queues, mgrvars, loopvars, control, OnlyMoves,
         WordsOK, ThreadsOK
<1>17. CASE WorkerTick(w)
  BY <1>17, <1>0
     DEF WorkerTick, Goto, taskvars, queues, mgrvars, loopvars, control, OnlyMoves, WordsOK,
         ThreadsOK
<1>18. CASE WorkerTickClear(w)
  BY <1>18, <1>0
     DEF WorkerTickClear, Goto, taskvars, queues, mgrvars, loopvars, control, OnlyMoves,
         WordsOK, ThreadsOK
<1>19. CASE WorkerProcessDone(w)
  BY <1>19, <1>0
     DEF WorkerProcessDone, ReleaseDone, taskvars, queues, mgrvars, loopvars, control,
         OnlyMoves, WordsOK, ThreadsOK
<1>20. CASE WorkerProcessed(w)
  BY <1>20, <1>0
     DEF WorkerProcessed, Goto, taskvars, queues, mgrvars, loopvars, control, OnlyMoves,
         WordsOK, ThreadsOK
<1>21. CASE WorkerTickUnlock(w)
  BY <1>21, <1>0
     DEF WorkerTickUnlock, Goto, taskvars, queues, mgrvars, loopvars, control, OnlyMoves,
         WordsOK, ThreadsOK
<1>22. CASE WorkerTickCheck(w)
  BY <1>22, <1>0
     DEF WorkerTickCheck, EndTick, Goto, taskvars, queues, mgrvars, loopvars, control, OnlyMoves,
         WordsOK, ThreadsOK
<1> QED
  BY <1>1, <1>2, <1>3, <1>4, <1>5, <1>6, <1>7, <1>8, <1>9, <1>10, <1>11, <1>12, <1>13, <1>14,
         <1>15, <1>16, <1>17, <1>18, <1>19, <1>20, <1>21, <1>22
     DEF WorkerStep

(* A step of a client leaves it as a client has to be ...                  *)
LEMMA ClientKeeps ==
  ASSUME WordsOK, ThreadsOK, QueuesOK, Locals, NEW c \in Clients,
         ClientStep(c) \/ Add(c) \/ Cancel(c) \/ Reset(c)
  PROVE  ClientLocal(c)'
<1>0. c \in Threads
  BY DEF Threads
<1>1. CASE AddLoad(c)
  BY <1>1, <1>0, TaskQueueAssumption
     DEF AddLoad, SetStateLoad, Goto, taskvars, queues, mgrvars, loopvars, control, Locals,
         ClientLocal, WordsOK, ThreadsOK, ClientLabels, Allowed
<1>2. CASE AddCas(c)
  BY <1>2, <1>0, TaskQueueAssumption
     DEF AddCas, SetStateCas, Goto, taskvars, queues, mgrvars, loopvars, control, Locals,
         ClientLocal, WordsOK, ThreadsOK, ClientLabels, Allowed
<1>3. CASE AddPush(c)
  BY <1>3, <1>0, TaskQueueAssumption
     DEF AddPush, Goto, taskvars, queues, mgrvars, loopvars, control, Locals, ClientLocal,
         WordsOK, ThreadsOK, ClientLabels, Allowed
<1>4. CASE AddSignal(c)
  BY <1>4, <1>0, TaskQueueAssumption
     DEF AddSignal, Goto, Notify, taskvars, queues, mgrvars, loopvars, control, Locals,
         ClientLocal, WordsOK, ThreadsOK, ClientLabels, Allowed
<1>5. CASE CancelCas(c)
  BY <1>5, <1>0, TaskQueueAssumption
     DEF CancelCas, Goto, taskvars, queues, mgrvars, loopvars, control, Locals, ClientLocal,
         WordsOK, ThreadsOK, ClientLabels, Allowed
<1>6. CASE Add(c)
  BY <1>6, <1>0, TaskQueueAssumption
     DEF Add, Goto, StartCall, taskvars, queues, mgrvars, loopvars, control, Locals,
         ClientLocal, WordsOK, ThreadsOK, ClientLabels, Allowed
<1>7. CASE Cancel(c)
  BY <1>7, <1>0, TaskQueueAssumption
     DEF Cancel, Goto, StartCall, taskvars, queues, mgrvars, loopvars, control, Locals,
         ClientLocal, WordsOK, ThreadsOK, ClientLabels, Allowed
<1>8. CASE Reset(c)
  BY <1>8, <1>0, TaskQueueAssumption
     DEF Reset, StartCall, taskvars, queues, mgrvars, loopvars, control, Locals, ClientLocal,
         WordsOK, ThreadsOK, ClientLabels, Allowed
<1> QED
  BY <1>1, <1>2, <1>3, <1>4, <1>5, <1>6, <1>7, <1>8 DEF ClientStep

(* ... and one of a worker leaves it as a worker has to be.                *)
LEMMA WorkerKeeps ==
  ASSUME WordsOK, ThreadsOK, QueuesOK, Locals, NEW w \in Workers, WorkerStep(w) \/ WorkerWaitEnds(w)
  PROVE  WorkerLocal(w)'
<1>0. w \in Threads
  BY DEF Threads
<1>1. CASE WorkerLoop(w)
  BY <1>1, <1>0, TaskQueueAssumption
     DEF WorkerLoop, Goto, taskvars, queues, mgrvars, loopvars, control, Locals, WorkerLocal,
         WordsOK, ThreadsOK, WorkerLabels, Holding, Finished, Allowed
<1>2. CASE WorkerPretask(w)
  BY <1>2, <1>0, TaskQueueAssumption
     DEF WorkerPretask, Goto, taskvars, queues, mgrvars, loopvars, control, Locals,
         WorkerLocal, WordsOK, ThreadsOK, WorkerLabels, Holding, Finished, Allowed
<1>3. CASE WorkerPretaskUnlock(w)
  BY <1>3, <1>0, TaskQueueAssumption
     DEF WorkerPretaskUnlock, Goto, taskvars, queues, mgrvars, loopvars, control, Locals,
         WorkerLocal, WordsOK, ThreadsOK, WorkerLabels, Holding, Finished, Allowed
<1>4. CASE WorkerWait(w)
  BY <1>4, <1>0, TaskQueueAssumption
     DEF WorkerWait, Goto, taskvars, queues, mgrvars, loopvars, control, Locals, WorkerLocal,
         WordsOK, ThreadsOK, WorkerLabels, Holding, Finished, Allowed
<1>5. CASE WorkerWaitEnds(w)
  BY <1>5, <1>0, TaskQueueAssumption
     DEF WorkerWaitEnds, Goto, taskvars, queues, mgrvars, loopvars, control, Locals,
         WorkerLocal, WordsOK, ThreadsOK, WorkerLabels, Holding, Finished, Allowed
<1>6. CASE WorkerPop(w)
  <2>1. runq # <<>> => Head(runq) \in Tasks
    BY CountTail DEF QueuesOK
  <2>2. pc[w] = "pop" /\ Nobody \notin Tasks /\ task[w] \notin Tasks
    BY <1>6, TaskQueueAssumption DEF WorkerPop, EndTick, Goto, Locals, WorkerLocal, Holding
  <2>3. pc'[w] \in {"load", "tick", "loop", "wait", "park"}
    BY <1>6, <1>0 DEF WorkerPop, EndTick, Goto, ThreadsOK
  <2>4. task'[w] \in Tasks <=> pc'[w] = "load"
    BY <1>6, <1>0, <2>1, <2>2 DEF WorkerPop, EndTick, Goto, ThreadsOK
  <2>5. pc'[w] \in {"loop", "wait", "park"} => ~ticked'[w]
    BY <1>6, <1>0 DEF WorkerPop, EndTick, Goto, ThreadsOK
  <2> QED
    BY <2>3, <2>4, <2>5 DEF WorkerLocal, WorkerLabels, Holding
<1>7. CASE WorkerRunLoad(w)
  BY <1>7, <1>0, TaskQueueAssumption
     DEF WorkerRunLoad, SetStateLoad, Goto, taskvars, queues, mgrvars, loopvars, control,
         Locals, WorkerLocal, WordsOK, ThreadsOK, WorkerLabels, Holding, Finished, Allowed
<1>8. CASE WorkerRunCas(w)
  BY <1>8, <1>0, TaskQueueAssumption
     DEF WorkerRunCas, SetStateCas, Goto, taskvars, queues, mgrvars, loopvars, control,
         Locals, WorkerLocal, WordsOK, ThreadsOK, WorkerLabels, Holding, Finished, Allowed
<1>9. CASE WorkerFailLoad(w)
  BY <1>9, <1>0, TaskQueueAssumption
     DEF WorkerFailLoad, SetStateLoad, Goto, taskvars, queues, mgrvars, loopvars, control,
         Locals, WorkerLocal, WordsOK, ThreadsOK, WorkerLabels, Holding, Finished, Allowed
<1>10. CASE WorkerFailCas(w)
  BY <1>10, <1>0, TaskQueueAssumption
     DEF WorkerFailCas, SetStateCas, Goto, taskvars, queues, mgrvars, loopvars, control,
         Locals, WorkerLocal, WordsOK, ThreadsOK, WorkerLabels, Holding, Finished, Allowed
<1>11. CASE WorkerRelease(w)
  BY <1>11, <1>0, TaskQueueAssumption
     DEF WorkerRelease, Goto, taskvars, queues, mgrvars, loopvars, control, Locals,
         WorkerLocal, WordsOK, ThreadsOK, WorkerLabels, Holding, Finished, Allowed
<1>12. CASE WorkerRun(w)
  BY <1>12, <1>0, TaskQueueAssumption
     DEF WorkerRun, Goto, taskvars, queues, mgrvars, loopvars, control, Locals, WorkerLocal,
         WordsOK, ThreadsOK, WorkerLabels, Holding, Finished, Allowed
<1>13. CASE WorkerResultLoad(w)
  BY <1>13, <1>0, TaskQueueAssumption
     DEF WorkerResultLoad, SetStateLoad, Goto, taskvars, queues, mgrvars, loopvars, control,
         Locals, WorkerLocal, WordsOK, ThreadsOK, WorkerLabels, Holding, Finished, Allowed
<1>14. CASE WorkerResultCas(w)
  BY <1>14, <1>0, TaskQueueAssumption
     DEF WorkerResultCas, SetStateCas, Goto, taskvars, queues, mgrvars, loopvars, control,
         Locals, WorkerLocal, WordsOK, ThreadsOK, WorkerLabels, Holding, Finished, Allowed
<1>15. CASE WorkerPushDone(w)
  BY <1>15, <1>0, TaskQueueAssumption
     DEF WorkerPushDone, Goto, taskvars, queues, mgrvars, loopvars, control, Locals,
         WorkerLocal, WordsOK, ThreadsOK, WorkerLabels, Holding, Finished, Allowed
<1>16. CASE WorkerNotify(w)
  BY <1>16, <1>0, TaskQueueAssumption
     DEF WorkerNotify, Goto, Notify, taskvars, queues, mgrvars, loopvars, control, Locals,
         WorkerLocal, WordsOK, ThreadsOK, WorkerLabels, Holding, Finished, Allowed
<1>17. CASE WorkerTick(w)
  BY <1>17, <1>0, TaskQueueAssumption
     DEF WorkerTick, Goto, taskvars, queues, mgrvars, loopvars, control, Locals, WorkerLocal,
         WordsOK, ThreadsOK, WorkerLabels, Holding, Finished, Allowed
<1>18. CASE WorkerTickClear(w)
  BY <1>18, <1>0, TaskQueueAssumption
     DEF WorkerTickClear, Goto, taskvars, queues, mgrvars, loopvars, control, Locals,
         WorkerLocal, WordsOK, ThreadsOK, WorkerLabels, Holding, Finished, Allowed
<1>19. CASE WorkerProcessDone(w)
  BY <1>19, <1>0, TaskQueueAssumption
     DEF WorkerProcessDone, ReleaseDone, taskvars, queues, mgrvars, loopvars, control,
         Locals, WorkerLocal, WordsOK, ThreadsOK, WorkerLabels, Holding, Finished, Allowed
<1>20. CASE WorkerProcessed(w)
  BY <1>20, <1>0, TaskQueueAssumption
     DEF WorkerProcessed, Goto, taskvars, queues, mgrvars, loopvars, control, Locals,
         WorkerLocal, WordsOK, ThreadsOK, WorkerLabels, Holding, Finished, Allowed
<1>21. CASE WorkerTickUnlock(w)
  BY <1>21, <1>0, TaskQueueAssumption
     DEF WorkerTickUnlock, Goto, taskvars, queues, mgrvars, loopvars, control, Locals,
         WorkerLocal, WordsOK, ThreadsOK, WorkerLabels, Holding, Finished, Allowed
<1>22. CASE WorkerTickCheck(w)
  BY <1>22, <1>0, TaskQueueAssumption
     DEF WorkerTickCheck, EndTick, Goto, taskvars, queues, mgrvars, loopvars, control, Locals,
         WorkerLocal, WordsOK, ThreadsOK, WorkerLabels, Holding, Finished, Allowed
<1> QED
  BY <1>1, <1>2, <1>3, <1>4, <1>5, <1>6, <1>7, <1>8, <1>9, <1>10, <1>11, <1>12, <1>13, <1>14,
         <1>15, <1>16, <1>17, <1>18, <1>19, <1>20, <1>21, <1>22
     DEF WorkerStep

(* So all threads stay as they have to be.                                 *)
LEMMA LocalsStep ==
  ASSUME WordsOK, ThreadsOK, QueuesOK, Locals, Lifecycle, [Next]_vars
  PROVE  Locals'
<1>0. Clients \cap Workers = {} /\ Clients \subseteq Threads /\ Workers \subseteq Threads
  BY TaskQueueAssumption DEF Threads
<1>1. ASSUME UNCHANGED <<pc, task, snap, loopvars>> PROVE Locals'
  BY <1>1 DEF Locals, ClientLocal, WorkerLocal, loopvars
<1>2. ASSUME NEW c \in Clients, ClientStep(c) \/ Add(c) \/ Cancel(c) \/ Reset(c)
      PROVE  Locals'
  <2>1. ClientLocal(c)' /\ OnlyMoves(c)
    BY <1>2, ClientKeeps, ClientMoves
  <2> QED
    BY <1>0, <2>1 DEF OnlyMoves, Locals, ClientLocal, WorkerLocal
<1>3. ASSUME NEW w \in Workers, WorkerStep(w) \/ WorkerWaitEnds(w)
      PROVE  Locals'
  <2>1. WorkerLocal(w)' /\ OnlyMoves(w)
    BY <1>3, WorkerKeeps, WorkerMoves
  <2> QED
    BY <1>0, <2>1 DEF OnlyMoves, Locals, ClientLocal, WorkerLocal
<1>4. CASE ManagerStep \/ ManagerWaitEnds
  <2>1. UNCHANGED <<pc, task, snap, loopvars>>
    BY <1>4
       DEF ManagerStep, ManagerLoop, taskvars, queues, mgrvars, loopvars, control,
           ManagerProcessDone, ReleaseDone, ManagerTickEnds, ManagerWait, ManagerWaitEnds
  <2> QED
    BY <1>1, <2>1
<1>5. CASE Start
  <2>1. /\ \A c \in Clients : pc'[c] = pc[c]
        /\ \A w \in Workers : pc[w] = "none" /\ pc'[w] = "loop"
        /\ UNCHANGED <<task, snap, loopvars>>
    BY <1>0, <1>5 DEF Start, Lifecycle
  <2> QED
    BY <2>1 DEF Locals, ClientLocal, WorkerLocal, Holding, WorkerLabels, loopvars
<1>6. CASE ControlStep \/ StopManagerExpires \/ StopRunnerExpires \/ Stop
  <2>1. UNCHANGED <<pc, task, snap, loopvars>>
    BY <1>6
       DEF ControlStep, StartDone, taskvars, queues, mgrvars, loopvars, control, Stop,
           StopLock, StopManager, StopManagerExpires, StopRunner, StopRunnerExpires,
           StopClear, ReleaseDone, StopDone
  <2> QED
    BY <1>1, <2>1
<1>7. CASE UNCHANGED vars
  BY <1>1, <1>7 DEF vars
<1> QED
  BY <1>2, <1>3, <1>4, <1>5, <1>6, <1>7 DEF Next, Environment

(* The manager and the controller keep their types.                        *)
LEMMA ManagerTypes ==
  ASSUME ManagerOK, [Next]_vars
  PROVE  ManagerOK'
<1>1. CASE UNCHANGED vars
  BY <1>1 DEF vars, taskvars, queues, mgrvars, loopvars, control, ManagerOK
<1>2. ASSUME NEW c \in Clients, ClientStep(c) \/ Add(c) \/ Cancel(c) \/ Reset(c)
      PROVE  ManagerOK'
  <2>0. c \in Threads
    BY DEF Threads
  <2>1. CASE \/ AddLoad(c) \/ AddCas(c) \/ AddPush(c) \/ CancelCas(c) \/ Add(c) \/ Cancel(c)
           \/ Reset(c)
    <3>1. UNCHANGED <<inworker, qstate, workev, mgrvars, control>>
      BY <2>1
         DEF AddLoad, SetStateLoad, Goto, taskvars, queues, mgrvars, loopvars, control,
             AddCas, SetStateCas, AddPush, CancelCas, Add, StartCall, Cancel, Reset
    <3> QED
      BY <3>1 DEF ManagerOK, mgrvars, control
  <2>2. CASE AddSignal(c)
    <3>1. UNCHANGED <<inworker, qstate, control>> /\ workev' \in {workev, "set", "locked"}
      BY <2>2 DEF AddSignal
    <3>2. UNCHANGED <<mgrlock, mgr, attached>>
      BY <2>2 DEF AddSignal, Notify
    <3>3. needrun' \in BOOLEAN /\ mgrnotify' \in BOOLEAN
      BY <2>2 DEF AddSignal, Notify, ManagerOK
    <3> QED
      BY <3>1, <3>2, <3>3 DEF ManagerOK, control
  <2> QED
    BY <1>2, <2>1, <2>2 DEF ClientStep
<1>3. ASSUME NEW w \in Workers, WorkerStep(w) \/ WorkerWaitEnds(w)
      PROVE  ManagerOK'
  <2>0. w \in Threads
    BY DEF Threads
  <2>1. CASE \/ WorkerLoop(w) \/ WorkerWaitEnds(w) \/ WorkerPop(w) \/ WorkerRunLoad(w)
           \/ WorkerRunCas(w) \/ WorkerFailLoad(w) \/ WorkerFailCas(w) \/ WorkerRelease(w)
           \/ WorkerRun(w) \/ WorkerResultLoad(w) \/ WorkerResultCas(w) \/ WorkerPushDone(w)
           \/ WorkerProcessDone(w) \/ WorkerProcessed(w) \/ WorkerTickCheck(w)
    <3>1. UNCHANGED <<inworker, qstate, workev, mgrvars, control>>
      BY <2>1
         DEF WorkerLoop, Goto, taskvars, queues, mgrvars, loopvars, control, WorkerWaitEnds,
             WorkerPop, EndTick, WorkerRunLoad, SetStateLoad, WorkerRunCas, SetStateCas,
             WorkerFailLoad, WorkerFailCas, WorkerRelease, WorkerRun, WorkerResultLoad,
             WorkerResultCas, WorkerPushDone, WorkerProcessDone, ReleaseDone,
             WorkerProcessed, WorkerTickCheck
    <3> QED
      BY <3>1 DEF ManagerOK, mgrvars, control
  <2>2. CASE WorkerPretask(w)
    BY <2>2, <2>0
       DEF WorkerPretask, Goto, taskvars, queues, mgrvars, loopvars, control, ManagerOK
  <2>3. CASE WorkerPretaskUnlock(w)
    BY <2>3, <2>0
       DEF WorkerPretaskUnlock, Goto, taskvars, queues, mgrvars, loopvars, control, ManagerOK
  <2>4. CASE WorkerWait(w)
    <3>1. workev' \in {"unset", "set", "locked"} /\ UNCHANGED <<inworker, qstate, mgrvars, control>>
      BY <2>4 DEF WorkerWait, ManagerOK
    <3> QED
      BY <3>1 DEF ManagerOK, mgrvars, control
  <2>5. CASE WorkerNotify(w)
    <3>1. UNCHANGED <<inworker, qstate, control>> /\ workev' \in {workev, "set", "locked"}
      BY <2>5 DEF WorkerNotify
    <3>2. UNCHANGED <<mgrlock, mgr, attached>>
      BY <2>5 DEF WorkerNotify, Notify
    <3>3. needrun' \in BOOLEAN /\ mgrnotify' \in BOOLEAN
      BY <2>5 DEF WorkerNotify, Notify, ManagerOK
    <3> QED
      BY <3>1, <3>2, <3>3 DEF ManagerOK, control
  <2>6. CASE WorkerTick(w)
    <3>1. /\ mgrlock' \in {w, mgrlock}
          /\ UNCHANGED <<inworker, qstate, workev, needrun, mgr, mgrnotify, attached, control>>
      BY <2>6 DEF WorkerTick
    <3> QED
      BY <3>1 DEF ManagerOK, control
  <2>7. CASE WorkerTickClear(w)
    <3>1. /\ needrun' = FALSE
          /\ UNCHANGED <<inworker, qstate, workev, mgrlock, mgr, mgrnotify, attached, control>>
      BY <2>7 DEF WorkerTickClear
    <3>2. /\ needrun' \in BOOLEAN
          /\ UNCHANGED <<inworker, qstate, workev, mgrlock, mgr, mgrnotify, attached, ctl, expired>>
      BY <3>1 DEF control
    <3> QED
      BY <3>2 DEF ManagerOK
  <2>8. CASE WorkerTickUnlock(w)
    BY <2>8, <2>0
       DEF WorkerTickUnlock, Goto, taskvars, queues, mgrvars, loopvars, control, ManagerOK
  <2> QED
    BY <1>3, <2>1, <2>2, <2>3, <2>4, <2>5, <2>6, <2>7, <2>8 DEF WorkerStep
<1>4. CASE ManagerStep \/ ManagerWaitEnds
  <2>1. CASE \/ ManagerLoop \/ ManagerTickEnds \/ ManagerWait \/ ManagerWaitEnds
    <3>1. CASE ManagerLoop
      <4>1. /\ mgr' \in {"done", "wait", "exited"}
            /\ UNCHANGED <<inworker, qstate, workev, needrun, mgrlock, mgrnotify, attached, control>>
        BY <3>1 DEF ManagerLoop
      <4> QED
        BY <4>1 DEF ManagerOK, control
    <3>2. CASE ManagerTickEnds
      <4>1. /\ mgr' = "wait"
            /\ UNCHANGED <<inworker, qstate, workev, needrun, mgrlock, mgrnotify, attached, control>>
        BY <3>2 DEF ManagerTickEnds
      <4> QED
        BY <4>1 DEF ManagerOK, control
    <3>3. CASE ManagerWait
      <4>1. /\ mgr' = "loop" /\ mgrnotify' \in BOOLEAN
            /\ UNCHANGED <<inworker, qstate, workev, needrun, mgrlock, attached, control>>
        BY <3>3 DEF ManagerWait
      <4> QED
        BY <4>1 DEF ManagerOK, control
    <3>4. CASE ManagerWaitEnds
      <4>1. /\ mgr' = "loop"
            /\ UNCHANGED <<inworker, qstate, workev, needrun, mgrlock, mgrnotify, attached, control>>
        BY <3>4 DEF ManagerWaitEnds
      <4> QED
        BY <4>1 DEF ManagerOK, control
    <3> QED
      BY <2>1, <3>1, <3>2, <3>3, <3>4
  <2>2. CASE ManagerProcessDone
    <3>1. UNCHANGED <<inworker, qstate, workev, mgrvars, control>>
      BY <2>2 DEF ManagerProcessDone, ReleaseDone, taskvars, queues, mgrvars, loopvars, control
    <3> QED
      BY <3>1 DEF ManagerOK, mgrvars, control
  <2> QED
    BY <1>4, <2>1, <2>2 DEF ManagerStep
<1>5. CASE ControlStep \/ StopManagerExpires \/ StopRunnerExpires \/ Start \/ Stop
  <2>1. CASE \/ Start \/ StartDone \/ Stop \/ StopLock \/ StopManager \/ StopManagerExpires
           \/ StopRunner \/ StopRunnerExpires \/ StopClear \/ StopDone
    <3>1. CASE Start
      BY <3>1 DEF Start, mgrvars, control, ManagerOK
    <3>2. CASE StartDone
      BY <3>2 DEF StartDone, mgrvars, control, ManagerOK
    <3>3. CASE Stop
      BY <3>3 DEF Stop, mgrvars, control, ManagerOK
    <3>4. CASE StopLock
      <4>1. /\ ctl' = "manager" /\ workev' = "locked" /\ mgrnotify' \in BOOLEAN
            /\ UNCHANGED <<inworker, qstate, needrun, mgrlock, mgr, attached, expired>>
        BY <3>4 DEF StopLock
      <4> QED
        BY <4>1 DEF ManagerOK
    <3>5. CASE StopManager
      <4>1. /\ ctl' = "runner" /\ attached' \in BOOLEAN
            /\ UNCHANGED <<inworker, qstate, workev, needrun, mgrlock, mgr, mgrnotify, expired>>
        BY <3>5 DEF StopManager
      <4> QED
        BY <4>1 DEF ManagerOK
    <3>6. CASE StopManagerExpires
      <4>1. /\ ctl' = "runner" /\ expired' \in BOOLEAN
            /\ UNCHANGED <<inworker, qstate, workev, mgrvars>>
        BY <3>6 DEF StopManagerExpires
      <4> QED
        BY <4>1 DEF ManagerOK, mgrvars
    <3>7. CASE StopRunner
      BY <3>7 DEF StopRunner, mgrvars, control, ManagerOK
    <3>8. CASE StopRunnerExpires
      <4>1. /\ ctl' = "clear" /\ expired' \in BOOLEAN
            /\ UNCHANGED <<inworker, qstate, workev, mgrvars>>
        BY <3>8 DEF StopRunnerExpires
      <4> QED
        BY <4>1 DEF ManagerOK, mgrvars
    <3>9. CASE StopClear
      BY <3>9 DEF StopClear, mgrvars, control, ManagerOK
    <3>10. CASE StopDone
      BY <3>10 DEF StopDone, mgrvars, control, ManagerOK
    <3> QED
      BY <2>1, <3>1, <3>2, <3>3, <3>4, <3>5, <3>6, <3>7, <3>8, <3>9, <3>10
  <2> QED
    BY <1>5, <2>1 DEF ControlStep
<1> QED
  BY <1>1, <1>2, <1>3, <1>4, <1>5 DEF Next, Environment

(* A worker takes a task into its hands or lets go of it; a client does    *)
(* neither.                                                                *)
LEMMA HoldersSwap ==
  ASSUME NEW w \in Workers, OnlyMoves(w), NEW t
  PROVE  /\ Swap(Holders(t), Holders(t)', w)
         /\ w \in Holders(t) <=> task[w] = t
         /\ w \in Holders(t)' <=> task'[w] = t
<1>1. Holders(t) \in SUBSET Workers /\ Holders(t)' \in SUBSET Workers
  BY DEF Holders
<1>2. \A u \in Workers : u # w => (u \in Holders(t) <=> u \in Holders(t)')
  BY DEF Holders, OnlyMoves, Threads
<1>3. Swap(Holders(t), Holders(t)', w)
  BY <1>1, <1>2, SetSwap, TaskQueueAssumption
<1> QED
  BY <1>3 DEF Holders

(* Whatever leaves the workers' tasks alone leaves the holders alone.      *)
LEMMA HoldersSame ==
  ASSUME \A w \in Workers : task'[w] = task[w], NEW t
  PROVE  Holders(t)' = Holders(t) /\ Cardinality(Holders(t)) \in Nat
<1>1. Holders(t) \in SUBSET Workers /\ Holders(t)' = Holders(t)
  BY DEF Holders
<1> QED
  BY <1>1, SetSize, TaskQueueAssumption

(* A task that is taken off the done queue gives its reference up.         *)
LEMMA ReleaseKeepsRefs ==
  ASSUME QueuesOK, RefsExact, ReleaseDone, \A w \in Workers : task'[w] = task[w]
  PROVE  QueuesOK' /\ RefsExact'
<1> DEFINE x == Head(doneq)
<1>1. doneq # <<>> /\ doneq' = Tail(doneq) /\ refs' = [refs EXCEPT ![x] = @ - 1] /\ runq' = runq
  BY DEF ReleaseDone
<1>2. x \in Tasks /\ doneq' \in Seq(Tasks)
  BY <1>1, CountTail DEF QueuesOK
<1>3. ASSUME NEW t \in Tasks
      PROVE  /\ Count(runq, t) \in Nat /\ Count(doneq', t) \in Nat /\ Cardinality(Holders(t)) \in Nat
             /\ Holders(t)' = Holders(t)
             /\ Count(doneq, t) = IF x = t THEN Count(doneq', t) + 1 ELSE Count(doneq', t)
  BY <1>1, <1>2, CountNat, CountTail, HoldersSame DEF QueuesOK
<1>4. refs[x] \in Nat \ {0}
  BY <1>2, <1>3 DEF RefsExact, QueuesOK
<1>5. QueuesOK'
  BY <1>1, <1>2, <1>4 DEF QueuesOK
<1>6. ASSUME NEW t \in Tasks
      PROVE  refs'[t] = Count(runq', t) + Count(doneq', t) + Cardinality(Holders(t)')
  <2>1. refs'[t] = IF x = t THEN refs[t] - 1 ELSE refs[t]
    BY <1>1 DEF QueuesOK
  <2>2. Count(runq', t) = Count(runq, t) /\ Cardinality(Holders(t)') = Cardinality(Holders(t))
    BY <1>1, <1>3
  <2> HIDE DEF x
  <2> QED
    BY <1>3, <2>1, <2>2 DEF RefsExact
<1> QED
  BY <1>5, <1>6 DEF RefsExact

(* A task that is taken off the run queue by stop does too.                *)
LEMMA ClearKeepsRefs ==
  ASSUME QueuesOK, RefsExact, runq # <<>>, runq' = Tail(runq), doneq' = doneq,
         refs' = [refs EXCEPT ![Head(runq)] = @ - 1], \A w \in Workers : task'[w] = task[w]
  PROVE  QueuesOK' /\ RefsExact'
<1> DEFINE x == Head(runq)
<1>2. x \in Tasks /\ runq' \in Seq(Tasks)
  BY CountTail DEF QueuesOK
<1>3. ASSUME NEW t \in Tasks
      PROVE  /\ Count(runq', t) \in Nat /\ Count(doneq, t) \in Nat /\ Cardinality(Holders(t)) \in Nat
             /\ Holders(t)' = Holders(t)
             /\ Count(runq, t) = IF x = t THEN Count(runq', t) + 1 ELSE Count(runq', t)
  BY <1>2, CountNat, CountTail, HoldersSame DEF QueuesOK
<1>4. refs[x] \in Nat \ {0}
  <2>1. refs[x] = Count(runq, x) + Count(doneq, x) + Cardinality(Holders(x))
    BY <1>2 DEF RefsExact
  <2>2. /\ Count(runq', x) \in Nat /\ Count(doneq, x) \in Nat /\ Cardinality(Holders(x)) \in Nat
        /\ Count(runq, x) = Count(runq', x) + 1
    BY <1>2, <1>3
  <2> QED
    BY <2>1, <2>2
<1>5. QueuesOK'
  BY <1>2, <1>4 DEF QueuesOK
<1>6. ASSUME NEW t \in Tasks
      PROVE  refs'[t] = Count(runq', t) + Count(doneq', t) + Cardinality(Holders(t)')
  <2>1. refs'[t] = IF x = t THEN refs[t] - 1 ELSE refs[t]
    BY DEF QueuesOK
  <2>2. Count(doneq', t) = Count(doneq, t) /\ Cardinality(Holders(t)') = Cardinality(Holders(t))
    BY <1>3
  <2> HIDE DEF x
  <2> QED
    BY <1>3, <2>1, <2>2 DEF RefsExact
<1> QED
  BY <1>5, <1>6 DEF RefsExact

(* Every step keeps the references exact.                                  *)
LEMMA RefsStep ==
  ASSUME WordsOK, ThreadsOK, QueuesOK, Locals, RefsExact, [Next]_vars
  PROVE  QueuesOK' /\ RefsExact'
<1>0. Clients \cap Workers = {} /\ Clients \subseteq Threads /\ Workers \subseteq Threads
  BY TaskQueueAssumption DEF Threads
<1>1. ASSUME UNCHANGED queues, \A w \in Workers : task'[w] = task[w]
      PROVE  QueuesOK' /\ RefsExact'
  <2>1. \A t \in Tasks : Holders(t)' = Holders(t)
    BY <1>1, HoldersSame
  <2> QED
    BY <1>1, <2>1 DEF QueuesOK, RefsExact, queues
<1>2. ASSUME NEW c \in Clients, ClientStep(c) \/ Add(c) \/ Cancel(c) \/ Reset(c)
      PROVE  QueuesOK' /\ RefsExact'
  <2>1. \A w \in Workers : task'[w] = task[w]
    BY <1>0, <1>2, ClientMoves DEF OnlyMoves
  <2>2. CASE \/ AddLoad(c) \/ AddCas(c) \/ AddSignal(c) \/ CancelCas(c) \/ Add(c) \/ Cancel(c)
           \/ Reset(c)
    <3>1. UNCHANGED queues
      BY <2>2
         DEF AddLoad, SetStateLoad, Goto, taskvars, queues, mgrvars, loopvars, control,
             AddCas, SetStateCas, AddSignal, Notify, CancelCas, Add, StartCall, Cancel, Reset
    <3> QED
      BY <1>1, <2>1, <3>1
  <2>3. CASE AddPush(c)
    <3> DEFINE x == task[c]
    <3>1. x \in Tasks /\ doneq' = doneq /\ runq' = Append(runq, x) /\ refs' = [refs EXCEPT ![x] = @ + 1]
      BY <2>3 DEF AddPush, Goto, Locals, ClientLocal
    <3> HIDE DEF x
    <3>2. runq' \in Seq(Tasks)
      BY <3>1, CountAppend DEF QueuesOK
    <3>3. ASSUME NEW t \in Tasks
          PROVE  refs'[t] = Count(runq', t) + Count(doneq', t) + Cardinality(Holders(t)')
      <4>1. /\ Count(runq, t) \in Nat /\ Count(doneq, t) \in Nat /\ Cardinality(Holders(t)) \in Nat
            /\ Holders(t)' = Holders(t)
        BY <2>1, CountNat, HoldersSame DEF QueuesOK
      <4>2. Count(runq', t) = IF x = t THEN Count(runq, t) + 1 ELSE Count(runq, t)
        BY <3>1, CountAppend DEF QueuesOK
      <4>3. Count(doneq', t) = Count(doneq, t) /\ Cardinality(Holders(t)') = Cardinality(Holders(t))
        BY <3>1, <4>1
      <4>4. refs'[t] = IF x = t THEN refs[t] + 1 ELSE refs[t]
        BY <3>1 DEF QueuesOK
      <4> QED
        BY <4>1, <4>2, <4>3, <4>4 DEF RefsExact
    <3>4. QueuesOK'
      BY <3>1, <3>2 DEF QueuesOK
    <3> QED
      BY <3>3, <3>4 DEF RefsExact
  <2> QED
    BY <1>2, <2>2, <2>3 DEF ClientStep
<1>3. ASSUME NEW w \in Workers, WorkerStep(w) \/ WorkerWaitEnds(w)
      PROVE  QueuesOK' /\ RefsExact'
  <2>1. w \in Threads /\ OnlyMoves(w) /\ Nobody \notin Tasks
    BY <1>0, <1>3, WorkerMoves, TaskQueueAssumption
  <2>2. ASSUME NEW t \in Tasks
        PROVE  /\ Swap(Holders(t), Holders(t)', w)
               /\ w \in Holders(t) <=> task[w] = t
               /\ w \in Holders(t)' <=> task'[w] = t
    BY <2>1, HoldersSwap
  <2>3. \A t \in Tasks : Count(runq, t) \in Nat /\ Count(doneq, t) \in Nat
    BY CountNat DEF QueuesOK
  <2>4. CASE \/ WorkerLoop(w) \/ WorkerPretask(w) \/ WorkerPretaskUnlock(w) \/ WorkerWait(w)
           \/ WorkerWaitEnds(w) \/ WorkerRunLoad(w) \/ WorkerRunCas(w) \/ WorkerFailLoad(w)
           \/ WorkerFailCas(w) \/ WorkerRun(w) \/ WorkerResultLoad(w) \/ WorkerResultCas(w)
           \/ WorkerNotify(w) \/ WorkerTick(w) \/ WorkerTickClear(w) \/ WorkerProcessed(w)
           \/ WorkerTickUnlock(w) \/ WorkerTickCheck(w)
    <3>1. UNCHANGED queues /\ task' = task
      BY <2>4
         DEF WorkerLoop, Goto, taskvars, queues, mgrvars, loopvars, control, WorkerPretask,
             WorkerPretaskUnlock, WorkerWait, WorkerWaitEnds, WorkerRunLoad, SetStateLoad,
             WorkerRunCas, SetStateCas, WorkerFailLoad, WorkerFailCas, WorkerRun,
             WorkerResultLoad, WorkerResultCas, WorkerNotify, Notify, WorkerTick,
             WorkerTickClear, WorkerProcessed, WorkerTickUnlock, WorkerTickCheck, EndTick
    <3> QED
      BY <1>1, <3>1
  <2>5. CASE WorkerPop(w)
    <3>1. CASE runq = <<>>
      <4>1. UNCHANGED queues /\ task' = task
        BY <2>5, <3>1 DEF WorkerPop, EndTick, queues
      <4> QED
        BY <1>1, <4>1
    <3>2. CASE runq # <<>>
      <4> DEFINE x == Head(runq)
      <4>1. /\ pc[w] = "pop" /\ task' = [task EXCEPT ![w] = x] /\ runq' = Tail(runq)
            /\ UNCHANGED <<doneq, refs>>
        BY <2>5, <3>2 DEF WorkerPop, EndTick, Goto
      <4>2. x \in Tasks /\ runq' \in Seq(Tasks)
        BY <3>2, <4>1, CountTail DEF QueuesOK
      <4>3. task[w] \notin Tasks /\ task'[w] = x
        BY <2>1, <4>1 DEF Locals, WorkerLocal, Holding, ThreadsOK
      <4>4. ASSUME NEW t \in Tasks
            PROVE  refs'[t] = Count(runq', t) + Count(doneq', t) + Cardinality(Holders(t)')
        <5>1. Count(runq, t) = IF x = t THEN Count(runq', t) + 1 ELSE Count(runq', t)
          BY <3>2, <4>1, CountTail DEF QueuesOK
        <5>2. Count(runq', t) \in Nat /\ Count(doneq', t) = Count(doneq, t) /\ refs'[t] = refs[t]
          BY <4>1, <4>2, CountNat
        <5>3. w \notin Holders(t) /\ (w \in Holders(t)' <=> x = t)
          BY <2>2, <4>3
        <5> HIDE DEF x
        <5> QED
          BY <2>2, <2>3, <5>1, <5>2, <5>3 DEF RefsExact, Swap
      <4>5. QueuesOK'
        BY <4>1, <4>2 DEF QueuesOK
      <4> QED
        BY <4>4, <4>5 DEF RefsExact
    <3> QED
      BY <3>1, <3>2
  <2>6. CASE WorkerRelease(w)
    <3> DEFINE x == task[w]
    <3>1. /\ pc[w] = "release" /\ task' = [task EXCEPT ![w] = Nobody]
          /\ refs' = [refs EXCEPT ![x] = @ - 1] /\ UNCHANGED <<runq, doneq>>
      BY <2>6 DEF WorkerRelease, Goto
    <3>2. x \in Tasks /\ task'[w] = Nobody
      BY <2>1, <3>1 DEF Locals, WorkerLocal, Holding, ThreadsOK
    <3>3. ASSUME NEW t \in Tasks, t = x PROVE refs[t] \in Nat \ {0}
      <4>1. w \in Holders(t) /\ w \notin Holders(t)'
        BY <2>1, <2>2, <3>2, <3>3
      <4>2. Cardinality(Holders(t)) \in Nat \ {0}
        BY <2>2, <4>1 DEF Swap
      <4> QED
        BY <2>3, <4>2 DEF RefsExact, QueuesOK
    <3>4. QueuesOK'
      BY <3>1, <3>2, <3>3 DEF QueuesOK
    <3>5. ASSUME NEW t \in Tasks
          PROVE  refs'[t] = Count(runq', t) + Count(doneq', t) + Cardinality(Holders(t)')
      <4>1. refs'[t] = IF x = t THEN refs[t] - 1 ELSE refs[t]
        BY <3>1 DEF QueuesOK
      <4>2. (w \in Holders(t) <=> x = t) /\ w \notin Holders(t)'
        BY <2>1, <2>2, <3>2
      <4>3. Count(runq', t) = Count(runq, t) /\ Count(doneq', t) = Count(doneq, t)
        BY <3>1
      <4> HIDE DEF x
      <4> QED
        BY <2>2, <2>3, <4>1, <4>2, <4>3 DEF RefsExact, Swap
    <3> QED
      BY <3>4, <3>5 DEF RefsExact
  <2>7. CASE WorkerPushDone(w)
    <3> DEFINE x == task[w]
    <3>1. /\ pc[w] = "pushdone" /\ task' = [task EXCEPT ![w] = Nobody]
          /\ doneq' = Append(doneq, x) /\ UNCHANGED <<runq, refs>>
      BY <2>7 DEF WorkerPushDone, Goto
    <3>2. x \in Tasks /\ task'[w] = Nobody
      BY <2>1, <3>1 DEF Locals, WorkerLocal, Holding, ThreadsOK
    <3>3. doneq' \in Seq(Tasks)
      BY <3>1, <3>2, CountAppend DEF QueuesOK
    <3>4. QueuesOK'
      BY <3>1, <3>3 DEF QueuesOK
    <3>5. ASSUME NEW t \in Tasks
          PROVE  refs'[t] = Count(runq', t) + Count(doneq', t) + Cardinality(Holders(t)')
      <4>1. Count(doneq', t) = IF x = t THEN Count(doneq, t) + 1 ELSE Count(doneq, t)
        BY <3>1, <3>2, CountAppend DEF QueuesOK
      <4>2. (w \in Holders(t) <=> x = t) /\ w \notin Holders(t)'
        BY <2>1, <2>2, <3>2
      <4>3. Count(runq', t) = Count(runq, t) /\ refs'[t] = refs[t]
        BY <3>1
      <4> HIDE DEF x
      <4> QED
        BY <2>2, <2>3, <4>1, <4>2, <4>3 DEF RefsExact, Swap
    <3> QED
      BY <3>4, <3>5 DEF RefsExact
  <2>8. CASE WorkerProcessDone(w)
    BY <2>8, ReleaseKeepsRefs DEF WorkerProcessDone
  <2> QED
    BY <1>3, <2>4, <2>5, <2>6, <2>7, <2>8 DEF WorkerStep
<1>4. CASE ManagerStep \/ ManagerWaitEnds
  <2>1. CASE ManagerProcessDone
    BY <2>1, ReleaseKeepsRefs DEF ManagerProcessDone
  <2>2. CASE ManagerLoop \/ ManagerTickEnds \/ ManagerWait \/ ManagerWaitEnds
    <3>1. UNCHANGED queues /\ task' = task
      BY <2>2
         DEF ManagerLoop, taskvars, queues, mgrvars, loopvars, control, ManagerTickEnds,
             ManagerWait, ManagerWaitEnds
    <3> QED
      BY <1>1, <3>1
  <2> QED
    BY <1>4, <2>1, <2>2 DEF ManagerStep
<1>5. CASE ControlStep \/ StopManagerExpires \/ StopRunnerExpires \/ Start \/ Stop
  <2>1. CASE StopClear
    <3>1. task' = task
      BY <2>1 DEF StopClear
    <3>2. CASE ReleaseDone
      BY <3>1, <3>2, ReleaseKeepsRefs
    <3>3. CASE ~ReleaseDone
      <4>1. /\ runq # <<>> /\ runq' = Tail(runq) /\ doneq' = doneq
            /\ refs' = [refs EXCEPT ![Head(runq)] = @ - 1]
        BY <2>1, <3>3 DEF StopClear
      <4> QED
        BY <3>1, <4>1, ClearKeepsRefs
    <3> QED
      BY <3>2, <3>3
  <2>2. CASE \/ Start \/ StartDone \/ Stop \/ StopLock \/ StopManager \/ StopManagerExpires
           \/ StopRunner \/ StopRunnerExpires \/ StopDone
    <3>1. UNCHANGED queues /\ task' = task
      BY <2>2
         DEF Start, taskvars, queues, mgrvars, loopvars, control, StartDone, Stop, StopLock,
             StopManager, StopManagerExpires, StopRunner, StopRunnerExpires, StopDone
    <3> QED
      BY <1>1, <3>1
  <2> QED
    BY <1>5, <2>1, <2>2 DEF ControlStep
<1>6. CASE UNCHANGED vars
  BY <1>1, <1>6 DEF vars
<1> QED
  BY <1>2, <1>3, <1>4, <1>5, <1>6 DEF Next, Environment

(* Before the queue runs, the workers only come to wait for it.            *)
LEMMA WorkerWaitsForStart ==
  ASSUME ThreadsOK, NEW w \in Workers, WorkerStep(w) \/ WorkerWaitEnds(w)
  PROVE  /\ UNCHANGED <<inworker, qstate, ctl, expired, attached>>
         /\ pc[w] \notin {"none", "stopped"}
         /\ qstate \in {"Init", "Starting"} /\ pc[w] \in {"loop", "park"} =>
              pc'[w] \in {"loop", "park"} /\ UNCHANGED queues
<1>0. w \in Threads
  BY DEF Threads
<1>1. CASE WorkerLoop(w) \/ WorkerWait(w)
  BY <1>0, <1>1
     DEF ThreadsOK, WorkerLoop, Goto, taskvars, queues, mgrvars, loopvars, control, WorkerWait
<1>2. CASE \/ WorkerPretask(w) \/ WorkerPretaskUnlock(w) \/ WorkerWaitEnds(w) \/ WorkerPop(w)
         \/ WorkerRunLoad(w) \/ WorkerRunCas(w) \/ WorkerFailLoad(w) \/ WorkerFailCas(w)
         \/ WorkerRelease(w) \/ WorkerRun(w) \/ WorkerResultLoad(w) \/ WorkerResultCas(w)
         \/ WorkerPushDone(w) \/ WorkerNotify(w) \/ WorkerTick(w) \/ WorkerTickClear(w)
         \/ WorkerProcessDone(w) \/ WorkerProcessed(w) \/ WorkerTickUnlock(w)
         \/ WorkerTickCheck(w)
  BY <1>2
     DEF WorkerPretask, Goto, taskvars, queues, mgrvars, loopvars, control,
         WorkerPretaskUnlock, WorkerWaitEnds, WorkerPop, EndTick, WorkerRunLoad, SetStateLoad,
         WorkerRunCas, SetStateCas, WorkerFailLoad, WorkerFailCas, WorkerRelease, WorkerRun,
         WorkerResultLoad, WorkerResultCas, WorkerPushDone, WorkerNotify, Notify, WorkerTick,
         WorkerTickClear, WorkerProcessDone, ReleaseDone, WorkerProcessed, WorkerTickUnlock,
         WorkerTickCheck
<1> QED
  BY <1>1, <1>2 DEF WorkerStep

(* Before the queue runs, a client can only cancel.                        *)
LEMMA ClientWaitsForStart ==
  ASSUME ThreadsOK, NEW c \in Clients, ClientStep(c) \/ Add(c) \/ Cancel(c) \/ Reset(c)
  PROVE  /\ UNCHANGED <<inworker, qstate, ctl, expired, attached, doneq>>
         /\ qstate \in {"Init", "Starting"} /\ pc[c] \in {"idle", "cancelcas"} =>
              pc'[c] \in {"idle", "cancelcas"} /\ UNCHANGED queues
<1>0. c \in Threads
  BY DEF Threads
<1>1. CASE Add(c) \/ Cancel(c) \/ CancelCas(c) \/ Reset(c)
  BY <1>0, <1>1
     DEF ThreadsOK, Add, Goto, StartCall, taskvars, queues, mgrvars, loopvars, control,
         Cancel, CancelCas, Reset
<1>2. CASE AddLoad(c) \/ AddCas(c) \/ AddPush(c) \/ AddSignal(c)
  BY <1>2
     DEF AddLoad, SetStateLoad, Goto, taskvars, queues, mgrvars, loopvars, control, AddCas,
         SetStateCas, AddPush, AddSignal, Notify
<1> QED
  BY <1>1, <1>2 DEF ClientStep

(* Every step keeps to the life of a queue.                                *)
LEMMA LifecycleStep ==
  ASSUME WordsOK, ThreadsOK, ManagerOK, Lifecycle, [Next]_vars
  PROVE  Lifecycle'
<1>0. Clients \cap Workers = {} /\ Clients \subseteq Threads /\ Workers \subseteq Threads
  BY TaskQueueAssumption DEF Threads
<1>1. CASE UNCHANGED vars
  BY <1>1 DEF vars, queues, mgrvars, control, Lifecycle
<1>2. ASSUME NEW c \in Clients, ClientStep(c) \/ Add(c) \/ Cancel(c) \/ Reset(c)
      PROVE  Lifecycle'
  <2>1. OnlyMoves(c)
    BY <1>2, ClientMoves
  <2> QED
    BY <1>0, <1>2, <2>1, ClientWaitsForStart DEF OnlyMoves, queues, Lifecycle
<1>3. ASSUME NEW w \in Workers, WorkerStep(w) \/ WorkerWaitEnds(w)
      PROVE  Lifecycle'
  <2>1. OnlyMoves(w)
    BY <1>3, WorkerMoves
  <2> QED
    BY <1>0, <1>3, <2>1, WorkerWaitsForStart DEF OnlyMoves, queues, Lifecycle
<1>4. CASE ManagerStep \/ ManagerWaitEnds
  <2>1. UNCHANGED <<qstate, ctl, expired, attached, pc, runq>> /\ (doneq = <<>> => doneq' = doneq)
    BY <1>4
       DEF ManagerStep, ManagerLoop, taskvars, queues, mgrvars, loopvars, control,
           ManagerProcessDone, ReleaseDone, ManagerTickEnds, ManagerWait, ManagerWaitEnds
  <2> QED
    BY <2>1 DEF Lifecycle
<1>5. CASE Start
  BY <1>0, <1>5 DEF Start, taskvars, queues, mgrvars, loopvars, control, Lifecycle, ManagerOK
<1>6. CASE StartDone
  BY <1>0, <1>6
     DEF StartDone, taskvars, queues, mgrvars, loopvars, control, Lifecycle, ManagerOK
<1>7. CASE Stop
  BY <1>0, <1>7 DEF Stop, taskvars, queues, mgrvars, loopvars, control, Lifecycle, ManagerOK
<1>8. CASE StopLock
  BY <1>0, <1>8
     DEF StopLock, taskvars, queues, mgrvars, loopvars, control, Lifecycle, ManagerOK
<1>9. CASE StopManager
  BY <1>0, <1>9
     DEF StopManager, taskvars, queues, mgrvars, loopvars, control, Lifecycle, ManagerOK
<1>10. CASE StopManagerExpires
  BY <1>0, <1>10
     DEF StopManagerExpires, taskvars, queues, mgrvars, loopvars, control, Lifecycle, ManagerOK
<1>11. CASE StopRunner
  BY <1>0, <1>11
     DEF StopRunner, taskvars, queues, mgrvars, loopvars, control, Lifecycle, ManagerOK
<1>12. CASE StopRunnerExpires
  BY <1>0, <1>12
     DEF StopRunnerExpires, taskvars, queues, mgrvars, loopvars, control, Lifecycle, ManagerOK
<1>13. CASE StopClear
  BY <1>0, <1>13
     DEF StopClear, ReleaseDone, taskvars, queues, mgrvars, loopvars, control, Lifecycle,
         ManagerOK
<1>14. CASE StopDone
  BY <1>0, <1>14
     DEF StopDone, taskvars, queues, mgrvars, loopvars, control, Lifecycle, ManagerOK
<1> QED
  BY <1>1, <1>2, <1>3, <1>4, <1>5, <1>6, <1>7, <1>8, <1>9, <1>10, <1>11, <1>12, <1>13, <1>14
     DEF Next, Environment, ControlStep

(* A cancel is undone by a reset only, or by setState gone wrong.          *)
LEMMA CancelStep ==
  ASSUME WordsOK, Locals, CancelSticksUnlessRaced, [Next]_vars
  PROVE  CancelSticksUnlessRaced'
<1>1. CASE UNCHANGED vars
  BY <1>1 DEF vars, taskvars, CancelSticksUnlessRaced
<1>2. ASSUME NEW c \in Clients, ClientStep(c) \/ Add(c) \/ Cancel(c) \/ Reset(c)
      PROVE  CancelSticksUnlessRaced'
  <2>0. c \in Threads
    BY DEF Threads
  <2>1. CASE AddLoad(c)
    BY <2>1, <2>0
       DEF AddLoad, SetStateLoad, Goto, taskvars, queues, mgrvars, loopvars, control,
           WordsOK, CancelSticksUnlessRaced
  <2>2. CASE AddCas(c)
    BY <2>2, <2>0
       DEF AddCas, SetStateCas, Goto, taskvars, queues, mgrvars, loopvars, control, WordsOK,
           CancelSticksUnlessRaced
  <2>3. CASE \/ AddPush(c) \/ AddSignal(c) \/ Add(c) \/ Cancel(c)
    <3>1. UNCHANGED taskvars
      BY <2>3
         DEF AddPush, Goto, taskvars, queues, mgrvars, loopvars, control, AddSignal, Notify,
             Add, StartCall, Cancel
    <3> QED
      BY <3>1 DEF taskvars, CancelSticksUnlessRaced
  <2>4. CASE CancelCas(c)
    BY <2>4, <2>0
       DEF CancelCas, Goto, taskvars, queues, mgrvars, loopvars, control, Locals,
           ClientLocal, WordsOK, CancelSticksUnlessRaced
  <2>5. CASE Reset(c)
    BY <2>5, <2>0
       DEF Reset, StartCall, taskvars, queues, mgrvars, loopvars, control, WordsOK,
           CancelSticksUnlessRaced
  <2> QED
    BY <1>2, <2>1, <2>2, <2>3, <2>4, <2>5 DEF ClientStep
<1>3. ASSUME NEW w \in Workers, WorkerStep(w) \/ WorkerWaitEnds(w)
      PROVE  CancelSticksUnlessRaced'
  <2>0. w \in Threads
    BY DEF Threads
  <2>1. CASE \/ WorkerLoop(w) \/ WorkerPretask(w) \/ WorkerPretaskUnlock(w) \/ WorkerWait(w)
           \/ WorkerWaitEnds(w) \/ WorkerPop(w) \/ WorkerRelease(w) \/ WorkerRun(w)
           \/ WorkerPushDone(w) \/ WorkerNotify(w) \/ WorkerTick(w) \/ WorkerTickClear(w)
           \/ WorkerProcessDone(w) \/ WorkerProcessed(w) \/ WorkerTickUnlock(w)
           \/ WorkerTickCheck(w)
    <3>1. UNCHANGED taskvars
      BY <2>1
         DEF WorkerLoop, Goto, taskvars, queues, mgrvars, loopvars, control, WorkerPretask,
             WorkerPretaskUnlock, WorkerWait, WorkerWaitEnds, WorkerPop, EndTick, WorkerRelease,
             WorkerRun, WorkerPushDone, WorkerNotify, Notify, WorkerTick, WorkerTickClear,
             WorkerProcessDone, ReleaseDone, WorkerProcessed, WorkerTickUnlock, WorkerTickCheck
    <3> QED
      BY <3>1 DEF taskvars, CancelSticksUnlessRaced
  <2>2. CASE WorkerRunLoad(w)
    BY <2>2, <2>0
       DEF WorkerRunLoad, SetStateLoad, Goto, taskvars, queues, mgrvars, loopvars, control,
           WordsOK, CancelSticksUnlessRaced
  <2>3. CASE WorkerRunCas(w)
    BY <2>3, <2>0
       DEF WorkerRunCas, SetStateCas, Goto, taskvars, queues, mgrvars, loopvars, control,
           WordsOK, CancelSticksUnlessRaced
  <2>4. CASE WorkerFailLoad(w)
    BY <2>4, <2>0
       DEF WorkerFailLoad, SetStateLoad, Goto, taskvars, queues, mgrvars, loopvars, control,
           WordsOK, CancelSticksUnlessRaced
  <2>5. CASE WorkerFailCas(w)
    BY <2>5, <2>0
       DEF WorkerFailCas, SetStateCas, Goto, taskvars, queues, mgrvars, loopvars, control,
           WordsOK, CancelSticksUnlessRaced
  <2>6. CASE WorkerResultLoad(w)
    BY <2>6, <2>0
       DEF WorkerResultLoad, SetStateLoad, Goto, taskvars, queues, mgrvars, loopvars,
           control, WordsOK, CancelSticksUnlessRaced
  <2>7. CASE WorkerResultCas(w)
    BY <2>7, <2>0
       DEF WorkerResultCas, SetStateCas, Goto, taskvars, queues, mgrvars, loopvars, control,
           WordsOK, CancelSticksUnlessRaced
  <2> QED
    BY <1>3, <2>1, <2>2, <2>3, <2>4, <2>5, <2>6, <2>7 DEF WorkerStep
<1>4. CASE ManagerStep \/ ManagerWaitEnds
  <2>1. CASE \/ ManagerLoop \/ ManagerProcessDone \/ ManagerTickEnds \/ ManagerWait
           \/ ManagerWaitEnds
    <3>1. UNCHANGED taskvars
      BY <2>1
         DEF ManagerLoop, taskvars, queues, mgrvars, loopvars, control, ManagerProcessDone,
             ReleaseDone, ManagerTickEnds, ManagerWait, ManagerWaitEnds
    <3> QED
      BY <3>1 DEF taskvars, CancelSticksUnlessRaced
  <2> QED
    BY <1>4, <2>1 DEF ManagerStep
<1>5. CASE ControlStep \/ StopManagerExpires \/ StopRunnerExpires \/ Start \/ Stop
  <2>1. CASE \/ Start \/ StartDone \/ Stop \/ StopLock \/ StopManager \/ StopManagerExpires
           \/ StopRunner \/ StopRunnerExpires \/ StopClear \/ StopDone
    <3>1. UNCHANGED taskvars
      BY <2>1
         DEF Start, taskvars, queues, mgrvars, loopvars, control, StartDone, Stop, StopLock,
             StopManager, StopManagerExpires, StopRunner, StopRunnerExpires, StopClear,
             ReleaseDone, StopDone
    <3> QED
      BY <3>1 DEF taskvars, CancelSticksUnlessRaced
  <2> QED
    BY <1>5, <2>1 DEF ControlStep
<1> QED
  BY <1>1, <1>2, <1>3, <1>4, <1>5 DEF Next, Environment

(* A step after which a thread is as much of a reason not to worry about   *)
(* the finished tasks as before.                                           *)
KeepsWatch(w) ==
  /\ UNCHANGED <<inworker, qstate, mgr>>
  /\ doneq' # <<>> => doneq # <<>>
  /\ needrun => needrun'
  /\ mgrnotify => mgrnotify'
  /\ pc[w] # "notify"
  /\ pc[w] \in {"clear", "done"} => pc'[w] = "done"
  /\ qstate = "Running" /\ inworker /\ needrun /\ ~Lapsed(w) => ~Lapsed(w)'

(* Such a step keeps the finished tasks attended to.                       *)
LEMMA WatchAttends ==
  ASSUME Attended, NEW w \in Workers, OnlyMoves(w), KeepsWatch(w)
  PROVE  Attended'
<1> SUFFICES ASSUME qstate' = "Running", doneq' # <<>> PROVE Attended'
  BY DEF Attended
<1>1. qstate = "Running" /\ doneq # <<>> /\ inworker' = inworker /\ mgr' = mgr
  BY DEF KeepsWatch
<1>2. \A u \in Workers : u # w => pc'[u] = pc[u] /\ (~Lapsed(u) => ~Lapsed(u)')
  BY DEF OnlyMoves, Lapsed, Threads
<1>3. ASSUME NEW u \in Workers, pc[u] \in {"notify", "clear", "done"}
      PROVE  pc'[u] \in {"notify", "clear", "done"}
  BY <1>2, <1>3 DEF KeepsWatch
<1>4. ASSUME NEW u \in Workers, pc[u] = "notify" PROVE pc'[u] = "notify"
  BY <1>2, <1>4 DEF KeepsWatch
<1>5. ASSUME NEW u \in Workers, inworker, needrun, ~Lapsed(u) PROVE ~Lapsed(u)'
  BY <1>1, <1>2, <1>5 DEF KeepsWatch
<1>6. CASE inworker
  BY <1>1, <1>3, <1>5, <1>6 DEF Attended, KeepsWatch
<1>7. CASE ~inworker
  BY <1>1, <1>4, <1>7 DEF Attended, KeepsWatch
<1> QED
  BY <1>6, <1>7

(* Most steps of a worker are of this kind.                                *)
LEMMA CalmWorker ==
  ASSUME ThreadsOK, ManagerOK, Locals, Lifecycle, NEW w \in Workers, 
         \/ WorkerLoop(w) \/ WorkerPretask(w) \/ WorkerPretaskUnlock(w) \/ WorkerWait(w)
         \/ WorkerWaitEnds(w) \/ WorkerPop(w) \/ WorkerRunLoad(w) \/ WorkerRunCas(w)
         \/ WorkerFailLoad(w) \/ WorkerFailCas(w) \/ WorkerRelease(w) \/ WorkerRun(w)
         \/ WorkerResultLoad(w) \/ WorkerResultCas(w) \/ WorkerTick(w)
         \/ WorkerProcessDone(w) \/ WorkerTickUnlock(w) \/ WorkerTickCheck(w)
  PROVE  KeepsWatch(w)
<1>0. w \in Threads
  BY DEF Threads
<1>1. CASE WorkerLoop(w)
  BY <1>1, <1>0
     DEF WorkerLoop, Goto, taskvars, queues, mgrvars, loopvars, control, Locals, WorkerLocal,
         KeepsWatch, Lapsed, ThreadsOK, ManagerOK, NoWait, Interval, Forever
<1>2. CASE WorkerPretask(w)
  BY <1>2, <1>0
     DEF WorkerPretask, Goto, taskvars, queues, mgrvars, loopvars, control, Locals,
         WorkerLocal, KeepsWatch, Lapsed, ThreadsOK, ManagerOK, NoWait, Interval, Forever
<1>3. CASE WorkerPretaskUnlock(w)
  BY <1>3, <1>0
     DEF WorkerPretaskUnlock, Goto, taskvars, queues, mgrvars, loopvars, control, Locals,
         WorkerLocal, KeepsWatch, Lapsed, ThreadsOK, ManagerOK, NoWait, Interval, Forever
<1>4. CASE WorkerWait(w)
  BY <1>4, <1>0
     DEF WorkerWait, Goto, taskvars, queues, mgrvars, loopvars, control, Locals, WorkerLocal,
         KeepsWatch, Lapsed, ThreadsOK, ManagerOK, NoWait, Interval, Forever
<1>5. CASE WorkerWaitEnds(w)
  BY <1>5, <1>0
     DEF WorkerWaitEnds, Goto, taskvars, queues, mgrvars, loopvars, control, Locals,
         WorkerLocal, KeepsWatch, Lapsed, ThreadsOK, ManagerOK, NoWait, Interval, Forever
<1>6. CASE WorkerPop(w)
  BY <1>6, <1>0
     DEF WorkerPop, EndTick, Goto, taskvars, queues, mgrvars, loopvars, control, KeepsWatch, Lapsed,
         ThreadsOK, ManagerOK, NoWait, Interval, Forever
<1>7. CASE WorkerRunLoad(w)
  BY <1>7, <1>0
     DEF WorkerRunLoad, SetStateLoad, Goto, taskvars, queues, mgrvars, loopvars, control,
         KeepsWatch, Lapsed, ThreadsOK, ManagerOK, NoWait, Interval, Forever
<1>8. CASE WorkerRunCas(w)
  BY <1>8, <1>0
     DEF WorkerRunCas, SetStateCas, Goto, taskvars, queues, mgrvars, loopvars, control,
         KeepsWatch, Lapsed, ThreadsOK, ManagerOK, NoWait, Interval, Forever
<1>9. CASE WorkerFailLoad(w)
  BY <1>9, <1>0
     DEF WorkerFailLoad, SetStateLoad, Goto, taskvars, queues, mgrvars, loopvars, control,
         KeepsWatch, Lapsed, ThreadsOK, ManagerOK, NoWait, Interval, Forever
<1>10. CASE WorkerFailCas(w)
  BY <1>10, <1>0
     DEF WorkerFailCas, SetStateCas, Goto, taskvars, queues, mgrvars, loopvars, control,
         KeepsWatch, Lapsed, ThreadsOK, ManagerOK, NoWait, Interval, Forever
<1>11. CASE WorkerRelease(w)
  BY <1>11, <1>0
     DEF WorkerRelease, Goto, taskvars, queues, mgrvars, loopvars, control, KeepsWatch,
         Lapsed, ThreadsOK, ManagerOK, NoWait, Interval, Forever
<1>12. CASE WorkerRun(w)
  BY <1>12, <1>0
     DEF WorkerRun, Goto, taskvars, queues, mgrvars, loopvars, control, KeepsWatch, Lapsed,
         ThreadsOK, ManagerOK, NoWait, Interval, Forever
<1>13. CASE WorkerResultLoad(w)
  BY <1>13, <1>0
     DEF WorkerResultLoad, SetStateLoad, Goto, taskvars, queues, mgrvars, loopvars, control,
         KeepsWatch, Lapsed, ThreadsOK, ManagerOK, NoWait, Interval, Forever
<1>14. CASE WorkerResultCas(w)
  BY <1>14, <1>0
     DEF WorkerResultCas, SetStateCas, Goto, taskvars, queues, mgrvars, loopvars, control,
         KeepsWatch, Lapsed, ThreadsOK, ManagerOK, NoWait, Interval, Forever
<1>15. CASE WorkerTick(w)
  BY <1>15, <1>0
     DEF WorkerTick, Goto, taskvars, queues, mgrvars, loopvars, control, KeepsWatch, Lapsed,
         ThreadsOK, ManagerOK, NoWait, Interval, Forever
<1>16. CASE WorkerProcessDone(w)
  BY <1>16, <1>0
     DEF WorkerProcessDone, ReleaseDone, taskvars, queues, mgrvars, loopvars, control,
         KeepsWatch, Lapsed, ThreadsOK, ManagerOK, NoWait, Interval, Forever
<1>17. CASE WorkerTickUnlock(w)
  BY <1>17, <1>0
     DEF WorkerTickUnlock, Goto, taskvars, queues, mgrvars, loopvars, control, KeepsWatch,
         Lapsed, ThreadsOK, ManagerOK, NoWait, Interval, Forever
<1>18. CASE WorkerTickCheck(w)
  BY <1>18, <1>0
     DEF WorkerTickCheck, EndTick, Goto, taskvars, queues, mgrvars, loopvars, control, KeepsWatch,
         Lapsed, ThreadsOK, ManagerOK, NoWait, Interval, Forever
<1> QED
  BY <1>1, <1>2, <1>3, <1>4, <1>5, <1>6, <1>7, <1>8, <1>9, <1>10, <1>11, <1>12, <1>13, <1>14,
         <1>15, <1>16, <1>17, <1>18
     DEF WorkerStep

(* Every step keeps the finished tasks attended to.                        *)
LEMMA AttendedStep ==
  ASSUME WordsOK, ThreadsOK, QueuesOK, ManagerOK, Locals, Lifecycle, Attended, [Next]_vars
  PROVE  Attended'
<1>0. Clients \cap Workers = {} /\ Clients \subseteq Threads /\ Workers \subseteq Threads
  BY TaskQueueAssumption DEF Threads
<1>1. CASE UNCHANGED vars
  BY <1>1 DEF vars, queues, mgrvars, loopvars, Attended, Lapsed
<1>2. ASSUME NEW c \in Clients, ClientStep(c) \/ Add(c) \/ Cancel(c) \/ Reset(c)
      PROVE  Attended'
  <2>1. \A u \in Workers : /\ pc'[u] = pc[u] /\ ticked'[u] = ticked[u] /\ waittime'[u] = waittime[u]
    BY <1>0, <1>2, ClientMoves DEF OnlyMoves
  <2>2. UNCHANGED <<inworker, qstate, doneq, mgr>>
    BY <1>2
       DEF ClientStep, AddLoad, SetStateLoad, Goto, taskvars, queues, mgrvars, loopvars,
           control, AddCas, SetStateCas, AddPush, AddSignal, Notify, CancelCas, Add,
           StartCall, Cancel, Reset
  <2>3. (needrun => needrun') /\ (mgrnotify => mgrnotify')
    <3>1. CASE AddSignal(c)
      <4>1. CASE inworker
        <5>1. needrun' = (needrun \/ attached) /\ mgrnotify' = mgrnotify
          BY <3>1, <4>1 DEF AddSignal, Notify
        <5> QED
          BY <5>1, Zenon
      <4>2. CASE ~inworker
        <5>1. mgrnotify' = TRUE /\ needrun' = needrun
          BY <3>1, <4>2 DEF AddSignal, Notify
        <5> QED
          BY <5>1, Zenon
      <4> QED
        BY <4>1, <4>2
    <3>2. CASE ~AddSignal(c)
      BY <1>2, <3>2
         DEF ClientStep, AddLoad, SetStateLoad, Goto, taskvars, queues, mgrvars, loopvars,
             control, AddCas, SetStateCas, AddPush, CancelCas, Add, StartCall, Cancel, Reset
    <3> QED
      BY <3>1, <3>2
  <2> QED
    BY <2>1, <2>2, <2>3 DEF Attended, Lapsed
<1>3. ASSUME NEW w \in Workers, WorkerStep(w) \/ WorkerWaitEnds(w)
      PROVE  Attended'
  <2>0. w \in Threads /\ OnlyMoves(w)
    BY <1>0, <1>3, WorkerMoves
  <2>1. CASE \/ WorkerLoop(w) \/ WorkerPretask(w) \/ WorkerPretaskUnlock(w) \/ WorkerWait(w)
           \/ WorkerWaitEnds(w) \/ WorkerPop(w) \/ WorkerRunLoad(w) \/ WorkerRunCas(w)
           \/ WorkerFailLoad(w) \/ WorkerFailCas(w) \/ WorkerRelease(w) \/ WorkerRun(w)
           \/ WorkerResultLoad(w) \/ WorkerResultCas(w) \/ WorkerTick(w)
           \/ WorkerProcessDone(w) \/ WorkerTickUnlock(w) \/ WorkerTickCheck(w)
    BY <2>0, <2>1, CalmWorker, WatchAttends
  <2>2. CASE WorkerPushDone(w)
    <3>1. pc'[w] = "notify"
      BY <2>0, <2>2 DEF WorkerPushDone, Goto, ThreadsOK
    <3> QED
      BY <3>1 DEF Attended
  <2>3. CASE WorkerNotify(w)
    <3>1. pc'[w] \in {"tick", "pop"} /\ (inworker => pc'[w] = "tick") /\ UNCHANGED <<inworker, qstate>>
      BY <2>0, <2>3 DEF WorkerNotify, Goto, ThreadsOK
    <3>2. inworker /\ attached => needrun'
      BY <2>3 DEF WorkerNotify, Notify
    <3>3. ~inworker => mgrnotify'
      BY <2>3 DEF WorkerNotify, Notify
    <3>4. qstate = "Running" => attached
      BY DEF Lifecycle
    <3>5. inworker => ~Lapsed(w)'
      BY <3>1 DEF Lapsed
    <3> QED
      BY <3>1, <3>2, <3>3, <3>4, <3>5 DEF Attended
  <2>4. CASE WorkerTickClear(w)
    <3>1. pc'[w] = "done" /\ UNCHANGED <<inworker, qstate, doneq, mgr, mgrnotify>>
      BY <2>0, <2>4 DEF WorkerTickClear, Goto, ThreadsOK, queues
    <3>2. \A u \in Workers : pc[u] = "notify" => pc'[u] = "notify"
      BY <1>0, <2>0, <2>4 DEF OnlyMoves, WorkerTickClear, Goto
    <3> QED
      BY <3>1, <3>2 DEF Attended
  <2>5. CASE WorkerProcessed(w)
    <3>1. (attached => doneq = <<>>) /\ UNCHANGED <<qstate, doneq>>
      BY <2>5 DEF WorkerProcessed, queues
    <3> QED
      BY <3>1 DEF Attended, Lifecycle
  <2> QED
    BY <1>3, <2>1, <2>2, <2>3, <2>4, <2>5 DEF WorkerStep
<1>4. CASE ManagerStep \/ ManagerWaitEnds
  <2>1. UNCHANGED <<inworker, qstate, pc, loopvars, needrun>> /\ (doneq' # <<>> => doneq # <<>>)
    BY <1>4
       DEF ManagerStep, ManagerLoop, taskvars, queues, mgrvars, loopvars, control,
           ManagerProcessDone, ReleaseDone, ManagerTickEnds, ManagerWait, ManagerWaitEnds
  <2>2. qstate = "Running" /\ doneq' # <<>> /\ (mgr # "wait" \/ mgrnotify) => mgr' # "wait" \/ mgrnotify'
    BY <1>4
       DEF ManagerStep, ManagerLoop, taskvars, queues, mgrvars, loopvars, control,
           ManagerProcessDone, ReleaseDone, ManagerTickEnds, ManagerWait, ManagerWaitEnds
  <2> QED
    BY <2>1, <2>2 DEF Attended, Lapsed, loopvars
<1>5. CASE StartDone
  BY <1>5 DEF StartDone, queues, Attended, Lifecycle, ManagerOK
<1>6. CASE \/ Start \/ Stop \/ StopLock \/ StopManager \/ StopManagerExpires \/ StopRunner
         \/ StopRunnerExpires \/ StopClear \/ StopDone
  <2>1. qstate' # "Running"
    BY <1>6
       DEF Lifecycle, Start, taskvars, queues, mgrvars, loopvars, control, Stop, StopLock,
           StopManager, StopManagerExpires, StopRunner, StopRunnerExpires, StopClear,
           ReleaseDone, StopDone
  <2> QED
    BY <2>1 DEF Attended
<1> QED
  BY <1>1, <1>2, <1>3, <1>4, <1>5, <1>6 DEF Next, Environment, ControlStep

(* No step of a client unsettles a task that stays clear of races.         *)
LEMMA ClientSettles ==
  ASSUME WordsOK, ThreadsOK, QueuesOK, Locals, RefsExact,
         NEW t \in Tasks, Settled(t) \/ t \in raced,
         NEW c \in Clients, ClientStep(c) \/ Add(c) \/ Cancel(c) \/ Reset(c)
  PROVE  t \notin raced' => Settled(t)'
<1>0. c \in Threads
  BY DEF Threads
<1>a. OnlyMoves(c) /\ Clients \cap Workers = {} /\ Clients \subseteq Threads /\ Workers \subseteq Threads
  BY ClientMoves, TaskQueueAssumption DEF Threads
<1>b. Count(runq, t) \in Nat /\ Count(doneq, t) \in Nat
  BY CountNat DEF QueuesOK
<1>1. CASE AddLoad(c)
  BY <1>1, <1>0, <1>a, <1>b
     DEF AddLoad, SetStateLoad, Goto, taskvars, queues, mgrvars, loopvars, control, Settled,
         Stage, Alone, Ended, Runs, Adds, OnlyMoves, Finished, ThreadsOK, WordsOK, Locals,
         ClientLocal
<1>2. CASE AddCas(c)
  <2>1. pc[c] = "addcas" /\ pc'[c] = "addpush" /\ UNCHANGED <<task, runq, doneq, early>>
    BY <1>2, <1>0 DEF AddCas, SetStateCas, Goto, queues, ThreadsOK
  <2>2. tstate' = [tstate EXCEPT ![task[c]] = "Waiting"] /\ raced \subseteq raced'
    BY <1>2, <2>1 DEF AddCas, SetStateCas, Locals, ClientLocal
  <2>3. task[c] = t /\ t \notin raced' => tstate[t] = "Created"
    BY <1>2, <2>1 DEF AddCas, SetStateCas, Locals, ClientLocal
  <2>4. CASE task[c] = t
    <3>1. t \notin raced' => tstate'[t] = "Waiting" /\ tstate[t] = "Created"
      BY <2>2, <2>3, <2>4 DEF WordsOK
    <3>2. t \notin raced' => /\ Count(runq, t) = 0 /\ (t \in early \/ Count(doneq, t) = 0)
                            /\ \A d \in Clients : ~Adds(d, t)
                            /\ \A w \in Workers : task[w] = t =>
                                 pc[w] \notin Holding \/ (pc[w] = "pushdone" /\ t \in early)
      BY <1>b, <2>2, <3>1 DEF Settled, Stage, Ended, Finished, Holding
    <3>3. t \notin raced' => \A w \in Workers : task[w] = t => pc[w] = "pushdone" /\ t \in early
      BY <3>2 DEF Locals, WorkerLocal
    <3> QED
      BY <1>a, <1>b, <2>1, <2>4, <3>1, <3>2, <3>3
         DEF Settled, Stage, Alone, Ended, Runs, Adds, OnlyMoves, Finished
  <2>5. CASE task[c] # t
    <3>1. tstate'[t] = tstate[t]
      BY <2>2, <2>5 DEF WordsOK
    <3> QED
      BY <1>a, <1>b, <2>1, <2>2, <2>5, <3>1
         DEF Settled, Stage, Alone, Ended, Runs, Adds, OnlyMoves, Finished
  <2> QED
    BY <2>4, <2>5
<1>3. CASE AddPush(c)
  <2>1. pc[c] = "addpush" /\ pc'[c] = "addsignal" /\ UNCHANGED <<task, doneq, early, tstate, raced>>
    BY <1>3, <1>0 DEF AddPush, Goto, taskvars, ThreadsOK
  <2>2. runq' = Append(runq, task[c]) /\ task[c] \in Tasks
    BY <1>3, <2>1 DEF AddPush, Locals, ClientLocal
  <2>3. Count(runq', t) = IF task[c] = t THEN Count(runq, t) + 1 ELSE Count(runq, t)
    BY <2>2, CountAppend DEF QueuesOK
  <2> QED
    BY <1>a, <1>b, <2>1, <2>3 DEF Settled, Stage, Alone, Ended, Runs, Adds, OnlyMoves, Finished
<1>4. CASE AddSignal(c)
  BY <1>4, <1>0, <1>a, <1>b
     DEF AddSignal, Goto, Notify, taskvars, queues, mgrvars, loopvars, control, Settled,
         Stage, Alone, Ended, Runs, Adds, OnlyMoves, Finished, ThreadsOK, WordsOK, Locals,
         ClientLocal
<1>5. CASE CancelCas(c)
  BY <1>5, <1>0, <1>a, <1>b
     DEF CancelCas, Goto, taskvars, queues, mgrvars, loopvars, control, Settled, Stage,
         Alone, Ended, Runs, Adds, OnlyMoves, Finished, ThreadsOK, WordsOK, Locals, ClientLocal
<1>6. CASE Add(c)
  BY <1>6, <1>0, <1>a, <1>b
     DEF Add, Goto, StartCall, taskvars, queues, mgrvars, loopvars, control, Settled, Stage,
         Alone, Ended, Runs, Adds, OnlyMoves, Finished, ThreadsOK, WordsOK, Locals, ClientLocal
<1>7. CASE Cancel(c)
  BY <1>7, <1>0, <1>a, <1>b
     DEF Cancel, Goto, StartCall, taskvars, queues, mgrvars, loopvars, control, Settled,
         Stage, Alone, Ended, Runs, Adds, OnlyMoves, Finished, ThreadsOK, WordsOK, Locals,
         ClientLocal
<1>8. CASE Reset(c)
  <2>1. PICK x \in Tasks : /\ tstate[x] \in Finished /\ tstate' = [tstate EXCEPT ![x] = "Created"]
                         /\ early' = IF refs[x] > 0 THEN early \union {x} ELSE early
    BY <1>8 DEF Reset
  <2>2. UNCHANGED <<pc, task, runq, doneq, raced>>
    BY <1>8 DEF Reset, queues
  <2>3. CASE x = t
    <3>1. tstate[t] \notin {"Waiting", "Running"} /\ tstate'[t] = "Created"
      BY <2>1, <2>3 DEF Finished, WordsOK
    <3>2. t \in early' \/ (Count(doneq, t) = 0 /\ \A w \in Workers : task[w] # t)
      <4>1. refs[t] = Count(runq, t) + Count(doneq, t) + Cardinality(Holders(t))
        BY DEF RefsExact
      <4>2. Holders(t) \in SUBSET Workers
        BY DEF Holders
      <4>3. Cardinality(Holders(t)) \in Nat /\ (Cardinality(Holders(t)) = 0 <=> Holders(t) = {})
        BY <4>2, SetSize, TaskQueueAssumption
      <4>4. refs[t] > 0 \/ (Count(doneq, t) = 0 /\ Holders(t) = {})
        BY <1>b, <4>1, <4>3
      <4> QED
        BY <2>1, <2>3, <4>4 DEF Holders
    <3> QED
      BY <1>b, <2>2, <3>1, <3>2
         DEF Settled, Stage, Alone, Ended, Runs, Adds, OnlyMoves, Finished
  <2>4. CASE x # t
    <3>1. tstate'[t] = tstate[t] /\ (t \in early => t \in early')
      BY <2>1, <2>4 DEF WordsOK
    <3> QED
      BY <2>2, <3>1 DEF Settled, Stage, Alone, Ended, Runs, Adds, OnlyMoves, Finished
  <2> QED
    BY <2>3, <2>4
<1> QED
  BY <1>1, <1>2, <1>3, <1>4, <1>5, <1>6, <1>7, <1>8 DEF ClientStep

(* Nor does a step of a worker.                                            *)
LEMMA WorkerSettles ==
  ASSUME WordsOK, ThreadsOK, QueuesOK, Locals, RefsExact,
         NEW t \in Tasks, Settled(t) \/ t \in raced,
         NEW w \in Workers, WorkerStep(w) \/ WorkerWaitEnds(w)
  PROVE  t \notin raced' => Settled(t)'
<1>0. w \in Threads
  BY DEF Threads
<1>a. OnlyMoves(w) /\ Clients \cap Workers = {} /\ Clients \subseteq Threads /\ Workers \subseteq Threads
  BY WorkerMoves, TaskQueueAssumption DEF Threads
<1>b. Count(runq, t) \in Nat /\ Count(doneq, t) \in Nat
  BY CountNat DEF QueuesOK
<1>1. CASE WorkerLoop(w)
  BY <1>1, <1>0, <1>a, <1>b
     DEF WorkerLoop, Goto, taskvars, queues, mgrvars, loopvars, control, Settled, Stage,
         Alone, Ended, Runs, Adds, OnlyMoves, Finished, ThreadsOK, WordsOK, Locals,
         WorkerLocal, Holding
<1>2. CASE WorkerPretask(w)
  BY <1>2, <1>0, <1>a, <1>b
     DEF WorkerPretask, Goto, taskvars, queues, mgrvars, loopvars, control, Settled, Stage,
         Alone, Ended, Runs, Adds, OnlyMoves, Finished, ThreadsOK, WordsOK, Locals,
         WorkerLocal, Holding
<1>3. CASE WorkerPretaskUnlock(w)
  BY <1>3, <1>0, <1>a, <1>b
     DEF WorkerPretaskUnlock, Goto, taskvars, queues, mgrvars, loopvars, control, Settled,
         Stage, Alone, Ended, Runs, Adds, OnlyMoves, Finished, ThreadsOK, WordsOK, Locals,
         WorkerLocal, Holding
<1>4. CASE WorkerWait(w)
  BY <1>4, <1>0, <1>a, <1>b
     DEF WorkerWait, Goto, taskvars, queues, mgrvars, loopvars, control, Settled, Stage,
         Alone, Ended, Runs, Adds, OnlyMoves, Finished, ThreadsOK, WordsOK, Locals,
         WorkerLocal, Holding
<1>5. CASE WorkerWaitEnds(w)
  BY <1>5, <1>0, <1>a, <1>b
     DEF WorkerWaitEnds, Goto, taskvars, queues, mgrvars, loopvars, control, Settled, Stage,
         Alone, Ended, Runs, Adds, OnlyMoves, Finished, ThreadsOK, WordsOK, Locals,
         WorkerLocal, Holding
<1>6. CASE WorkerPop(w)
  <2>1. pc[w] = "pop" /\ UNCHANGED <<doneq, early, tstate, raced>> /\ task[w] \notin Tasks
    BY <1>6 DEF WorkerPop, EndTick, Goto, taskvars, Locals, WorkerLocal, Holding
  <2>2. CASE runq = <<>>
    <3>1. UNCHANGED <<task, runq>> /\ task'[w] # t
      BY <1>6, <2>1, <2>2 DEF WorkerPop, EndTick
    <3> QED
      BY <1>a, <1>b, <2>1, <3>1
         DEF Settled, Stage, Alone, Ended, Runs, Adds, OnlyMoves, Finished
  <2>3. CASE runq # <<>>
    <3>1. pc'[w] = "load" /\ task'[w] = Head(runq) /\ runq' = Tail(runq)
      BY <1>6, <1>0, <2>3 DEF WorkerPop, EndTick, Goto, ThreadsOK
    <3>2. Count(runq, t) = IF Head(runq) = t THEN Count(runq', t) + 1 ELSE Count(runq', t)
      BY <2>3, <3>1, CountTail DEF QueuesOK
    <3>3. Count(runq', t) \in Nat
      BY <2>3, <3>1, CountTail, CountNat DEF QueuesOK
    <3> QED
      BY <1>a, <1>b, <2>1, <3>1, <3>2, <3>3
         DEF Settled, Stage, Alone, Ended, Runs, Adds, OnlyMoves, Finished
  <2> QED
    BY <2>2, <2>3
<1>7. CASE WorkerRunLoad(w)
  <2>1. pc[w] = "load" /\ UNCHANGED <<task, runq, doneq, early, tstate>> /\ raced \subseteq raced'
    BY <1>7 DEF WorkerRunLoad, SetStateLoad, queues
  <2>2. CASE task[w] = t /\ t \notin raced'
    <3>1. tstate[t] = "Waiting"
      BY <2>1, <2>2 DEF Settled, Stage
    <3>2. pc'[w] = "cas"
      BY <1>7, <1>0, <2>1, <2>2, <3>1
         DEF WorkerRunLoad, SetStateLoad, Goto, Allowed, ThreadsOK, Locals, WorkerLocal,
             Finished
    <3> QED
      BY <1>a, <1>b, <2>1, <2>2, <3>1, <3>2
         DEF Settled, Stage, Alone, Ended, Runs, Adds, OnlyMoves, Finished
  <2>3. CASE task[w] # t \/ t \in raced'
    BY <1>a, <1>b, <2>1, <2>3 DEF Settled, Stage, Alone, Ended, Runs, Adds, OnlyMoves, Finished
  <2> QED
    BY <2>2, <2>3
<1>8. CASE WorkerRunCas(w)
  BY <1>8, <1>0, <1>a, <1>b
     DEF WorkerRunCas, SetStateCas, Goto, taskvars, queues, mgrvars, loopvars, control,
         Settled, Stage, Alone, Ended, Runs, Adds, OnlyMoves, Finished, ThreadsOK, WordsOK,
         Locals, WorkerLocal, Holding
<1>9. CASE WorkerFailLoad(w)
  BY <1>9, <1>0, <1>a, <1>b
     DEF WorkerFailLoad, SetStateLoad, Goto, taskvars, queues, mgrvars, loopvars, control,
         Settled, Stage, Alone, Ended, Runs, Adds, OnlyMoves, Finished, ThreadsOK, WordsOK,
         Locals, WorkerLocal, Holding
<1>10. CASE WorkerFailCas(w)
  BY <1>10, <1>0, <1>a, <1>b
     DEF WorkerFailCas, SetStateCas, Goto, taskvars, queues, mgrvars, loopvars, control,
         Settled, Stage, Alone, Ended, Runs, Adds, OnlyMoves, Finished, ThreadsOK, WordsOK,
         Locals, WorkerLocal, Holding
<1>11. CASE WorkerRelease(w)
  <2>1. /\ pc[w] = "release" /\ UNCHANGED <<runq, doneq, early, tstate, raced>>
        /\ task'[w] = Nobody /\ Nobody # t
    BY <1>11, <1>0, TaskQueueAssumption DEF WorkerRelease, Goto, taskvars, ThreadsOK
  <2> QED
    BY <1>a, <1>b, <2>1 DEF Settled, Stage, Alone, Ended, Runs, Adds, OnlyMoves, Finished
<1>12. CASE WorkerRun(w)
  BY <1>12, <1>0, <1>a, <1>b
     DEF WorkerRun, Goto, taskvars, queues, mgrvars, loopvars, control, Settled, Stage,
         Alone, Ended, Runs, Adds, OnlyMoves, Finished, ThreadsOK, WordsOK, Locals,
         WorkerLocal, Holding
<1>13. CASE WorkerResultLoad(w)
  <2>1. pc[w] = "resload" /\ UNCHANGED <<task, runq, doneq, early, tstate>> /\ raced \subseteq raced'
    BY <1>13 DEF WorkerResultLoad, SetStateLoad, queues
  <2>2. CASE task[w] = t /\ t \notin raced'
    <3>1. tstate[t] = "Running"
      BY <2>1, <2>2 DEF Settled, Stage
    <3>2. pc'[w] = "rescas"
      BY <1>13, <1>0, <2>1, <2>2, <3>1
         DEF WorkerResultLoad, SetStateLoad, Goto, Allowed, ThreadsOK, Locals, WorkerLocal,
             Finished
    <3> QED
      BY <1>a, <1>b, <2>1, <2>2, <3>1, <3>2
         DEF Settled, Stage, Alone, Ended, Runs, Adds, OnlyMoves, Finished
  <2>3. CASE task[w] # t \/ t \in raced'
    BY <1>a, <1>b, <2>1, <2>3 DEF Settled, Stage, Alone, Ended, Runs, Adds, OnlyMoves, Finished
  <2> QED
    BY <2>2, <2>3
<1>14. CASE WorkerResultCas(w)
  BY <1>14, <1>0, <1>a, <1>b
     DEF WorkerResultCas, SetStateCas, Goto, taskvars, queues, mgrvars, loopvars, control,
         Settled, Stage, Alone, Ended, Runs, Adds, OnlyMoves, Finished, ThreadsOK, WordsOK,
         Locals, WorkerLocal, Holding
<1>15. CASE WorkerPushDone(w)
  <2>1. /\ pc[w] = "pushdone" /\ UNCHANGED <<runq, early, tstate, raced>>
        /\ task'[w] = Nobody /\ Nobody # t
    BY <1>15, <1>0, TaskQueueAssumption DEF WorkerPushDone, Goto, taskvars, ThreadsOK
  <2>2. doneq' = Append(doneq, task[w]) /\ task[w] \in Tasks
    BY <1>15, <2>1 DEF WorkerPushDone, Locals, WorkerLocal, Holding
  <2>3. Count(doneq', t) = IF task[w] = t THEN Count(doneq, t) + 1 ELSE Count(doneq, t)
    BY <2>2, CountAppend DEF QueuesOK
  <2> QED
    BY <1>a, <1>b, <2>1, <2>3 DEF Settled, Stage, Alone, Ended, Runs, Adds, OnlyMoves, Finished
<1>16. CASE WorkerNotify(w)
  BY <1>16, <1>0, <1>a, <1>b
     DEF WorkerNotify, Goto, Notify, taskvars, queues, mgrvars, loopvars, control, Settled,
         Stage, Alone, Ended, Runs, Adds, OnlyMoves, Finished, ThreadsOK, WordsOK, Locals,
         WorkerLocal, Holding
<1>17. CASE WorkerTick(w)
  BY <1>17, <1>0, <1>a, <1>b
     DEF WorkerTick, Goto, taskvars, queues, mgrvars, loopvars, control, Settled, Stage,
         Alone, Ended, Runs, Adds, OnlyMoves, Finished, ThreadsOK, WordsOK, Locals,
         WorkerLocal, Holding
<1>18. CASE WorkerTickClear(w)
  BY <1>18, <1>0, <1>a, <1>b
     DEF WorkerTickClear, Goto, taskvars, queues, mgrvars, loopvars, control, Settled, Stage,
         Alone, Ended, Runs, Adds, OnlyMoves, Finished, ThreadsOK, WordsOK, Locals,
         WorkerLocal, Holding
<1>19. CASE WorkerProcessDone(w)
  <2>1. UNCHANGED <<pc, task, runq, early, tstate, raced>> /\ doneq # <<>> /\ doneq' = Tail(doneq)
    BY <1>19 DEF WorkerProcessDone, ReleaseDone, taskvars
  <2>2. Count(doneq', t) \in Nat /\ Count(doneq', t) <= Count(doneq, t)
    <3>1. /\ doneq' \in Seq(Tasks)
          /\ Count(doneq, t) = IF Head(doneq) = t THEN Count(doneq', t) + 1 ELSE Count(doneq', t)
      BY <2>1, CountTail DEF QueuesOK
    <3>2. Count(doneq', t) \in Nat
      BY <3>1, CountNat
    <3> QED
      BY <3>1, <3>2
  <2> QED
    BY <1>b, <2>1, <2>2 DEF Settled, Stage, Alone, Ended, Runs, Adds, OnlyMoves, Finished
<1>20. CASE WorkerProcessed(w)
  BY <1>20, <1>0, <1>a, <1>b
     DEF WorkerProcessed, Goto, taskvars, queues, mgrvars, loopvars, control, Settled, Stage,
         Alone, Ended, Runs, Adds, OnlyMoves, Finished, ThreadsOK, WordsOK, Locals,
         WorkerLocal, Holding
<1>21. CASE WorkerTickUnlock(w)
  BY <1>21, <1>0, <1>a, <1>b
     DEF WorkerTickUnlock, Goto, taskvars, queues, mgrvars, loopvars, control, Settled,
         Stage, Alone, Ended, Runs, Adds, OnlyMoves, Finished, ThreadsOK, WordsOK, Locals,
         WorkerLocal, Holding
<1>22. CASE WorkerTickCheck(w)
  BY <1>22, <1>0, <1>a, <1>b
     DEF WorkerTickCheck, EndTick, Goto, taskvars, queues, mgrvars, loopvars, control, Settled, Stage,
         Alone, Ended, Runs, Adds, OnlyMoves, Finished, ThreadsOK, WordsOK, Locals,
         WorkerLocal, Holding
<1> QED
  BY <1>1, <1>2, <1>3, <1>4, <1>5, <1>6, <1>7, <1>8, <1>9, <1>10, <1>11, <1>12, <1>13, <1>14,
         <1>15, <1>16, <1>17, <1>18, <1>19, <1>20, <1>21, <1>22
     DEF WorkerStep

(* A step that only takes tasks off a queue unsettles none.                *)
LEMMA QueueSettles ==
  ASSUME QueuesOK, AllSettled, UNCHANGED <<pc, task, taskvars>>,
         runq' = runq \/ (runq # <<>> /\ runq' = Tail(runq)),
         doneq' = doneq \/ (doneq # <<>> /\ doneq' = Tail(doneq))
  PROVE  AllSettled'
<1> SUFFICES ASSUME NEW t \in Tasks, t \notin raced PROVE Settled(t)'
  BY DEF AllSettled, taskvars
<1>1. ASSUME NEW s \in Seq(Tasks), NEW r, r = s \/ (s # <<>> /\ r = Tail(s))
      PROVE  Count(r, t) \in Nat /\ Count(s, t) \in Nat /\ Count(r, t) <= Count(s, t)
  <2>1. Count(s, t) \in Nat
    BY CountNat
  <2>2. CASE r = s
    BY <2>1, <2>2
  <2>3. CASE s # <<>> /\ r = Tail(s)
    <3>1. r \in Seq(Tasks) /\ Count(s, t) = IF Head(s) = t THEN Count(r, t) + 1 ELSE Count(r, t)
      BY <2>3, CountTail
    <3>2. Count(r, t) \in Nat
      BY <3>1, CountNat
    <3> QED
      BY <2>1, <3>1, <3>2
  <2> QED
    BY <1>1, <2>2, <2>3
<1>2. Count(runq', t) \in Nat /\ Count(runq, t) \in Nat /\ Count(runq', t) <= Count(runq, t)
  BY <1>1 DEF QueuesOK
<1>3. Count(doneq', t) \in Nat /\ Count(doneq, t) \in Nat /\ Count(doneq', t) <= Count(doneq, t)
  BY <1>1 DEF QueuesOK
<1>4. Settled(t)
  BY DEF AllSettled
<1> QED
  BY <1>2, <1>3, <1>4 DEF taskvars, Settled, Stage, Alone, Ended, Runs, Adds, Finished

(* Every step keeps the tasks settled.                                     *)
LEMMA SettledStep ==
  ASSUME WordsOK, ThreadsOK, QueuesOK, Locals, Lifecycle, RefsExact, AllSettled, [Next]_vars
  PROVE  AllSettled'
<1>0. Clients \cap Workers = {} /\ Clients \subseteq Threads /\ Workers \subseteq Threads
  BY TaskQueueAssumption DEF Threads
<1>1. \A t \in Tasks : Settled(t) \/ t \in raced
  BY DEF AllSettled
<1>2. ASSUME NEW c \in Clients, ClientStep(c) \/ Add(c) \/ Cancel(c) \/ Reset(c)
      PROVE  AllSettled'
  <2>1. ASSUME NEW t \in Tasks PROVE t \notin raced' => Settled(t)'
    BY <1>1, <1>2, ClientSettles
  <2> QED
    BY <2>1 DEF AllSettled
<1>3. ASSUME NEW w \in Workers, WorkerStep(w) \/ WorkerWaitEnds(w)
      PROVE  AllSettled'
  <2>1. ASSUME NEW t \in Tasks PROVE t \notin raced' => Settled(t)'
    BY <1>1, <1>3, WorkerSettles
  <2> QED
    BY <2>1 DEF AllSettled
<1>4. CASE ManagerStep \/ ManagerWaitEnds
  <2>1. UNCHANGED <<pc, task, taskvars, runq>>
    BY <1>4
       DEF ManagerStep, ManagerLoop, taskvars, queues, mgrvars, loopvars, control,
           ManagerProcessDone, ReleaseDone, ManagerTickEnds, ManagerWait, ManagerWaitEnds
  <2>2. doneq' = doneq \/ (doneq # <<>> /\ doneq' = Tail(doneq))
    BY <1>4
       DEF ManagerStep, ManagerLoop, taskvars, queues, mgrvars, loopvars, control,
           ManagerProcessDone, ReleaseDone, ManagerTickEnds, ManagerWait, ManagerWaitEnds
  <2> QED
    BY <2>1, <2>2, QueueSettles
<1>5. CASE Start
  <2>1. /\ \A c \in Clients : pc'[c] = pc[c]
        /\ \A w \in Workers : pc[w] = "none" /\ UNCHANGED <<task, runq, doneq, taskvars>>
    BY <1>0, <1>5 DEF Start, queues, Lifecycle
  <2>2. \A w \in Workers : task[w] \notin Tasks
    BY <2>1 DEF Locals, WorkerLocal, Holding
  <2>3. UNCHANGED <<task, runq, doneq, tstate, raced, early>>
    BY <1>5 DEF Start, queues, taskvars
  <2> QED
    BY <2>1, <2>2, <2>3 DEF AllSettled, Settled, Stage, Alone, Ended, Runs, Adds, Finished
<1>6. CASE \/ StartDone \/ Stop \/ StopLock \/ StopManager \/ StopManagerExpires \/ StopRunner
         \/ StopRunnerExpires \/ StopClear \/ StopDone
  <2>1. UNCHANGED <<pc, task, taskvars>>
    BY <1>6
       DEF StartDone, taskvars, queues, mgrvars, loopvars, control, Stop, StopLock,
           StopManager, StopManagerExpires, StopRunner, StopRunnerExpires, StopClear,
           ReleaseDone, StopDone
  <2>2. runq' = runq \/ (runq # <<>> /\ runq' = Tail(runq))
    BY <1>6
       DEF StartDone, taskvars, queues, mgrvars, loopvars, control, Stop, StopLock,
           StopManager, StopManagerExpires, StopRunner, StopRunnerExpires, StopClear,
           ReleaseDone, StopDone
  <2>3. doneq' = doneq \/ (doneq # <<>> /\ doneq' = Tail(doneq))
    BY <1>6
       DEF StartDone, taskvars, queues, mgrvars, loopvars, control, Stop, StopLock,
           StopManager, StopManagerExpires, StopRunner, StopRunnerExpires, StopClear,
           ReleaseDone, StopDone
  <2> QED
    BY <2>1, <2>2, <2>3, QueueSettles
<1>7. CASE UNCHANGED vars
  BY <1>7, QueueSettles DEF vars, queues
<1> QED
  BY <1>2, <1>3, <1>4, <1>5, <1>6, <1>7 DEF Next, Environment, ControlStep
----------------------------------------------------------------------------

(* The invariant holds at first ...                                        *)
LEMMA InitInv == Init => Inv
<1> SUFFICES ASSUME Init PROVE Inv
  OBVIOUS
<1>0. /\ Clients \cap Workers = {} /\ Nobody \notin Tasks
      /\ Clients \subseteq Threads /\ Workers \subseteq Threads
  BY TaskQueueAssumption DEF Threads
<1>1. WordsOK
  BY DEF Init, WordsOK, NoSnap, States
<1>2. QueuesOK
  BY DEF Init, QueuesOK
<1>3. ThreadsOK
  <2>1. pc \in [Threads -> ClientLabels \union WorkerLabels]
    BY DEF Init, ClientLabels, WorkerLabels
  <2> QED
    BY <2>1 DEF Init, ThreadsOK, NoWait, Forever
<1>4. ManagerOK
  BY DEF Init, ManagerOK
<1>5. Locals
  BY <1>0 DEF Init, Locals, ClientLocal, WorkerLocal, ClientLabels, WorkerLabels, Holding
<1>6. Lifecycle
  BY <1>0 DEF Init, Lifecycle
<1>7. \A t : Count(runq, t) = 0 /\ Count(doneq, t) = 0
  BY <1>2, CountNat DEF Init, QueuesOK
<1>8. \A w \in Workers : task[w] \notin Tasks
  BY <1>0 DEF Init
<1>9. RefsExact
  <2> SUFFICES ASSUME NEW t \in Tasks
               PROVE  refs[t] = Count(runq, t) + Count(doneq, t) + Cardinality(Holders(t))
    BY DEF RefsExact
  <2>1. Holders(t) = {}
    BY <1>8 DEF Holders
  <2>2. Cardinality(Holders(t)) = 0
    BY <2>1, FS_EmptySet
  <2> QED
    BY <1>7, <2>2 DEF Init
<1>10. AllSettled
  BY <1>0, <1>7, <1>8 DEF Init, AllSettled, Settled, Stage, Alone, Ended, Runs, Adds, Finished
<1>11. Attended /\ CancelSticksUnlessRaced
  BY DEF Init, Attended, CancelSticksUnlessRaced
<1> QED
  BY <1>1, <1>2, <1>3, <1>4, <1>5, <1>6, <1>9, <1>10, <1>11, TypeParts DEF Inv

(* ... and every step keeps it.                                            *)
LEMMA StepKeepsInv == Inv /\ [Next]_vars => Inv'
<1> SUFFICES ASSUME Inv, [Next]_vars PROVE Inv'
  OBVIOUS
<1>1. /\ WordsOK /\ QueuesOK /\ ThreadsOK /\ ManagerOK
      /\ Locals /\ Lifecycle /\ RefsExact /\ Attended /\ CancelSticksUnlessRaced /\ AllSettled
  BY TypeParts DEF Inv
<1>2. WordsOK' /\ ThreadsOK' /\ ManagerOK'
  BY <1>1, WordsStep, ThreadsStep, ManagerTypes
<1>3. QueuesOK' /\ RefsExact'
  BY <1>1, RefsStep
<1>4. TypeOK'
  BY <1>2, <1>3 DEF TypeOK, WordsOK, QueuesOK, ThreadsOK, ManagerOK
<1>5. Locals' /\ Lifecycle'
  BY <1>1, LocalsStep, LifecycleStep
<1>6. Attended' /\ CancelSticksUnlessRaced' /\ AllSettled'
  BY <1>1, AttendedStep, CancelStep, SettledStep
<1> QED
  BY <1>3, <1>4, <1>5, <1>6 DEF Inv

(* A settled task is in one place.                                         *)
LEMMA InvImpliesOnePlace == Inv => OnePlace
<1> SUFFICES ASSUME Inv, NEW t \in Tasks \ raced
             PROVE  Count(runq, t) + Cardinality({w \in Holders(t) : pc[w] # "pushdone"})
                      + Cardinality({c \in Clients : task[c] = t /\ pc[c] = "addpush"}) <= 1
  BY DEF OnePlace
<1> DEFINE H == {w \in Holders(t) : pc[w] # "pushdone"}
           A == {c \in Clients : task[c] = t /\ pc[c] = "addpush"}
<1>1. Alone(t) /\ Count(runq, t) \in Nat
  BY CountNat DEF Inv, AllSettled, Settled, TypeOK
<1>2. H \in SUBSET Workers /\ A \in SUBSET Clients
  BY DEF Holders
<1>3. \A x \in H : Runs(x, t) /\ x \in Workers
  BY DEF Holders, Runs
<1>4. \A x \in A : Adds(x, t) /\ x \in Clients
  BY DEF Adds
<1>5. (\A x, y \in H : x = y) /\ (\A x, y \in A : x = y)
  BY <1>1, <1>3, <1>4 DEF Alone
<1>6. /\ H # {} => Count(runq, t) = 0 /\ A = {}
      /\ A # {} => Count(runq, t) = 0 /\ H = {}
      /\ Count(runq, t) <= 1
  BY <1>1, <1>3, <1>4 DEF Alone
<1> HIDE DEF H, A
<1>7. Cardinality(H) \in 0..1 /\ Cardinality(A) \in 0..1
  BY <1>2, <1>5, AtMostOne
<1>8. (H = {} => Cardinality(H) = 0) /\ (A = {} => Cardinality(A) = 0)
  BY FS_EmptySet
<1>9. Count(runq, t) + Cardinality(H) + Cardinality(A) <= 1
  BY <1>1, <1>6, <1>7, <1>8
<1> QED
  BY <1>9 DEF H, A

(* The variables keep their types.                                         *)
THEOREM TypeCorrect == Spec => []TypeOK
<1>1. Inv => TypeOK
  BY DEF Inv
<1> QED
  BY <1>1, InitInv, StepKeepsInv, PTL DEF Spec

(* TaskQueue_add, TaskQueue__runTask, TaskQueue__processDone and           *)
(* TaskQueue__clear keep exactly one reference for each place that a task  *)
(* is kept in, whatever setState and reset do to its state meanwhile.      *)
THEOREM RefsExactHolds == Spec => []RefsExact
<1>1. Inv => RefsExact
  BY DEF Inv
<1> QED
  BY <1>1, InitInv, StepKeepsInv, PTL DEF Spec

(* A task is queued or run once at a time, unless BasicTask__setState has  *)
(* written over a word that it had not read.                               *)
THEOREM OnePlaceHolds == Spec => []OnePlace
BY InvImpliesOnePlace, InitInv, StepKeepsInv, PTL DEF Spec

(* A cancel that returned true stays in the state word until the task is   *)
(* reset, unless BasicTask__setState has written over it.                  *)
THEOREM CancelSticksHolds == Spec => []CancelSticksUnlessRaced
<1>1. Inv => CancelSticksUnlessRaced
  BY DEF Inv
<1> QED
  BY <1>1, InitInv, StepKeepsInv, PTL DEF Spec

(* Finished tasks are finished and do not lie about: the dedicated manager *)
(* is at work or told to be, or a worker is awake to run the in-worker     *)
(* manager.                                                                *)
THEOREM DoneIsAttendedHolds == Spec => []DoneIsAttended
<1>1. Inv => DoneIsAttended
  <2> SUFFICES ASSUME Inv PROVE DoneIsAttended
    OBVIOUS
  <2>1. DoneIsFinished
    BY DEF Inv, AllSettled, Settled, Ended, DoneIsFinished
  <2>2. Attended
    BY DEF Inv
  <2>3. ASSUME NEW w \in Workers, pc[w] \in {"notify", "clear", "done"} \/ ~Lapsed(w)
        PROVE  pc[w] \notin {"wait", "park"}
    BY <2>3 DEF Lapsed
  <2> QED
    BY <2>1, <2>2, <2>3 DEF Attended, DoneIsAttended
<1> QED
  BY <1>1, InitInv, StepKeepsInv, PTL DEF Spec

(* TaskQueue_stop, if it has not run out of patience, leaves no task on    *)
(* the done queue or with a worker.                                        *)
THEOREM StopReleasesHolds == Spec => []StopReleases
<1>1. Inv => StopReleases
  BY DEF Inv, TypeOK, Lifecycle, Locals, WorkerLocal, Holding, StopReleases, Threads
<1> QED
  BY <1>1, InitInv, StepKeepsInv, PTL DEF Spec
============================================================================
