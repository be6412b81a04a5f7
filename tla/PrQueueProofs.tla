--------------------------- MODULE PrQueueProofs ---------------------------
(***************************************************************************)
(* Proofs about PrQueue, for any number of threads, segments and slots:    *)
(* the counters that protect a segment are exact, no freed segment is ever *)
(* touched, a segment's count is exact, a segment that is retired in time  *)
(* is empty and stays so, and no value is delivered twice.                 *)
(***************************************************************************)
EXTENDS PrQueue, FiniteSetTheorems, TLAPS

(***************************************************************************)
(* How large a set is, and how that changes when one member comes or goes. *)
(***************************************************************************)
(* The sizes of A and B, which differ at most in whether t is a member.    *)
Swap(A, B, t) ==
  /\ Cardinality(A) \in Nat /\ Cardinality(B) \in Nat
  /\ t \in A /\ t \in B => Cardinality(B) = Cardinality(A)
  /\ t \notin A /\ t \notin B => Cardinality(B) = Cardinality(A)
  /\ t \notin A /\ t \in B => Cardinality(B) = Cardinality(A) + 1
  /\ t \in A /\ t \notin B => Cardinality(A) = Cardinality(B) + 1

(* At most t comes or goes.                                                *)
LEMMA SetSwap ==
  ASSUME NEW T, IsFiniteSet(T), NEW A \in SUBSET T, NEW B \in SUBSET T, NEW t,
         \A u \in T : u # t => (u \in A <=> u \in B)
  PROVE  Swap(A, B, t)
<1>1. IsFiniteSet(A) /\ IsFiniteSet(B)
  BY FS_Subset
<1>2. Cardinality(A) \in Nat /\ Cardinality(B) \in Nat
  BY <1>1, FS_CardinalityType
<1>3. (t \in A <=> t \in B) => A = B
  OBVIOUS
<1>4. ASSUME t \notin A, t \in B
      PROVE  Cardinality(B) = Cardinality(A) + 1
  <2>1. B = A \cup {t}
    BY <1>4
  <2> QED
    BY <1>1, <1>4, <2>1, FS_AddElement
<1>5. ASSUME t \in A, t \notin B
      PROVE  Cardinality(A) = Cardinality(B) + 1
  <2>1. A = B \cup {t}
    BY <1>5
  <2> QED
    BY <1>1, <1>5, <2>1, FS_AddElement
<1> QED
  BY <1>2, <1>3, <1>4, <1>5 DEF Swap

(* A subset of a finite set has no members exactly if its size is 0.       *)
LEMMA SetSize ==
  ASSUME NEW T, IsFiniteSet(T), NEW A \in SUBSET T
  PROVE  Cardinality(A) \in Nat /\ (Cardinality(A) = 0 <=> A = {})
BY FS_Subset, FS_CardinalityType, FS_EmptySet

(* A set without two different members has at most one.                    *)
LEMMA AtMostOne ==
  ASSUME NEW S, \A a, b \in S : a = b
  PROVE  Cardinality(S) \in 0..1 /\ (Cardinality(S) = 0 <=> S = {})
<1>1. CASE S = {}
  BY <1>1, FS_EmptySet
<1>2. ASSUME NEW a \in S
      PROVE  Cardinality(S) = 1
  <2>1. S = {a}
    OBVIOUS
  <2> QED
    BY <2>1, FS_Singleton
<1> QED
  BY <1>1, <1>2

-----------------------------------------------------------------------------
Labels == WalkLabels \union PushLabels \union PopLabels

(* A thread has a segment of the chain from the moment it has loaded       *)
(* current until it returns, and the next one when it moves on.            *)
SegOK ==
  \A t \in Threads :
    /\ pc[t] \in {"idle", "current"} => seg[t] = 0
    /\ pc[t] \notin {"idle", "current"} => seg[t] \in 1..nseg
    /\ pc[t] \in {"hop", "unhop"} => seg[t] < nseg

(* A segment that was never chained is as it was allocated.                *)
Unused == \A s \in Segs : s > nseg => head[s] = 0

(* A scan stays within the ring.                                           *)
PosOK ==
  \A t \in Threads :
    /\ pc[t] \in {"scan", "flag", "load", "take"} => pos[t] <= size[seg[t]]
    /\ pc[t] = "take" => pos[t] < size[seg[t]]

(* A push has its value until it has put it into a slot, and a pop takes   *)
(* only what it has seen.                                                  *)
ValOK ==
  /\ \A t \in Pushers : pc[t] \notin {"idle", "added", "unreserve", "done"} => val[t] # Null
  /\ \A t \in Poppers : pc[t] = "take" => val[t] # Null

(* The collector's part: it retires only a segment that has a next one,    *)
(* and between its loads of access and of inuse a thread that is about to  *)
(* use a segment cannot have the one it will free.                         *)
CollectorOK ==
  /\ freed < current /\ current <= nseg
  /\ gc \in {"replaced", "reserved"} => current < nseg
  /\ gc = "inuse" => freed + 1 < current
  /\ gc = "inuse" /\ gcaccess = 0 => \A t \in Threads : pc[t] = "use" => seg[t] > freed + 1

(* A retired segment is marked, so nobody can reserve a write in it.       *)
RetiredClosed == \A s \in 1..(current - 1) : retiring[s] /\ reserved[s] = 0

(* The labels at which a pusher's last value is in a slot or given up.     *)
Delivered == {"idle", "added", "unreserve", "done"}

(* A push that is not done has the value it was called with.               *)
Carries ==
  \A t \in Pushers : pc[t] \notin Delivered =>
    calls[t] \in DOMAIN work.push[t] /\ val[t] = work.push[t][calls[t]]

(* Where v is: in a slot, or among what a popper got.                      *)
InSlot(s, i, v) == s \in Segs /\ i \in Slots /\ buffer[s][i] = v
IsGot(t, i, v) == t \in Poppers /\ i \in DOMAIN popped[t] /\ popped[t][i] = v

Placed(v) == (\E s, i : InSlot(s, i, v)) \/ (\E t, i : IsGot(t, i, v))

(* It is in one of these places at most.                                   *)
Once(v) ==
  /\ \A s, i, r, j : InSlot(s, i, v) /\ InSlot(r, j, v) => s = r /\ i = j
  /\ \A t, i, u, j : IsGot(t, i, v) /\ IsGot(u, j, v) => t = u /\ i = j
  /\ \A s, i, u, j : ~(InSlot(s, i, v) /\ IsGot(u, j, v))

(* The i-th value of t has yet to be put into a slot.                      *)
Due(t, i) ==
  /\ t \in Pushers /\ i \in DOMAIN work.push[t]
  /\ i > calls[t] \/ (i = calls[t] /\ pc[t] \notin Delivered)

(* Nor is it anywhere before it has been put there.                        *)
AllOnce ==
  DistinctPushes =>
    /\ \A v \in Values : Once(v)
    /\ \A t, i : Due(t, i) => ~Placed(work.push[t][i])

Inv ==
  /\ TypeOK /\ SegOK /\ Unused /\ PosOK /\ ValOK /\ Carries /\ AllOnce
  /\ ProtectionExact /\ CollectorOK /\ NoUseAfterFree
  /\ CountExact /\ RetiredClosed /\ RetiredIsEmptyUnlessOvertaken
----------------------------------------------------------------------------

(* The constants, without the workloads.                                   *)
LEMMA Constants ==
  /\ MaxSegs \in Nat /\ MaxSegs >= 1 /\ MaxSize \in Nat /\ MaxSize >= 1
  /\ TargetSize \in 1..MaxSize /\ Concurrence \in Nat
  /\ IsFiniteSet(Pushers) /\ IsFiniteSet(Poppers)
BY PrQueueAssumption

(* There are finitely many threads.                                        *)
LEMMA ThreadsFinite == IsFiniteSet(Threads)
BY Constants, FS_Union DEF Threads

(* A thread either pushes or pops.                                         *)
LEMMA OneRole ==
  /\ \A t \in Pushers : t \in Threads /\ t \notin Poppers
  /\ \A t \in Poppers : t \in Threads /\ t \notin Pushers
BY PrQueueAssumption, Zenon DEF Threads

(* The numbers that the arguments below compare.                           *)
LEMMA Numbers ==
  ASSUME TypeOK
  PROVE  /\ nseg \in Nat /\ current \in Nat /\ freed \in Nat /\ access \in Nat
         /\ nseg <= MaxSegs
         /\ \A t \in Threads : seg[t] \in Nat
         /\ \A s \in Segs : s \in Nat /\ reserved[s] \in Nat /\ inuse[s] \in Nat
         /\ \A s \in Nat : s \in Segs <=> 1 <= s /\ s <= MaxSegs
BY Constants DEF TypeOK, Segs

(* Only t moves, and it moves to a label of a call.                        *)
OnlyMoves(t) ==
  /\ pc' \in [Threads -> Labels]
  /\ \A u \in Threads : u # t => pc'[u] = pc[u]

(* What a Goto does to where the threads are.                              *)
LEMMA GotoMoves ==
  ASSUME TypeOK, NEW t \in Threads, NEW from, NEW to \in Labels, Goto(t, from, to)
  PROVE  OnlyMoves(t) /\ pc[t] = from /\ pc'[t] = to
BY DEF Goto, OnlyMoves, TypeOK, Labels

(* A step of a call on the segment it has: neither the chain nor what      *)
(* protects a segment changes, nor whether the call has a reservation.     *)
QuietStep(t) ==
  /\ UNCHANGED <<nseg, size, seg, access, inuse, reserved, retiring,
                 current, freed, gc, gcaccess, overtaken, work>>
  /\ OnlyMoves(t)
  /\ pc[t] \notin WalkLabels
  /\ pc'[t] \in WalkLabels => pc'[t] = "hop" /\ seg[t] < nseg
  /\ t \in Pushers => (pc[t] \in Reserving <=> pc'[t] \in Reserving)

QuietPush(t) ==
  PushChase(t) \/ PushCount(t) \/ PushHead(t) \/ PushScan(t) \/ PushScanFails(t) \/ PushAdded(t)

QuietPop(t) ==
  \/ PopCount(t) \/ PopHead(t) \/ PopNext(t) \/ PopFlag(t)
  \/ PopLoad(t) \/ PopTake(t) \/ PopTaken(t) \/ PopAdvance(t)

(* These steps of a push are quiet.                                        *)
LEMMA QuietPushIsQuiet ==
  ASSUME Inv, NEW t \in Pushers, QuietPush(t)
  PROVE  QuietStep(t)
<1> USE DEF QuietStep, segvars, local, gcvars, WalkLabels, Reserving, HasNext
<1>1. t \in Threads /\ TypeOK /\ seg[t] \in Nat /\ nseg \in Nat
  BY OneRole, Numbers DEF Inv
<1>2. {"hop", "chase", "count", "grow", "fail", "reserve", "scan", "added", "backout",
       "rehead", "unreserve"} \subseteq Labels
  BY DEF Labels, PushLabels
<1>3. CASE PushChase(t)
  BY <1>1, <1>2, <1>3, GotoMoves DEF PushChase
<1>4. CASE PushCount(t)
  <2>1. PICK to \in {"grow", "fail", "reserve"} : Goto(t, "count", to)
    BY <1>4 DEF PushCount
  <2> QED
    BY <1>1, <1>2, <1>4, <2>1, GotoMoves DEF PushCount
<1>5. CASE PushHead(t)
  <2>1. PICK from \in {"head", "rehead"} : Goto(t, from, "scan")
    BY <1>5 DEF PushHead
  <2> QED
    BY <1>1, <1>2, <1>5, <2>1, GotoMoves DEF PushHead
<1>6. CASE PushScan(t)
  <2>1. CASE Goto(t, "scan", "added")
    BY <1>1, <1>2, <1>6, <2>1, GotoMoves DEF PushScan
  <2>2. CASE UNCHANGED pc
    BY <1>1, <1>6, <2>2 DEF PushScan, OnlyMoves, TypeOK, Labels
  <2> QED
    BY <1>6, <2>1, <2>2 DEF PushScan
<1>7. CASE PushScanFails(t)
  <2>1. PICK to \in {"backout", "rehead"} : Goto(t, "scan", to)
    BY <1>7 DEF PushScanFails
  <2> QED
    BY <1>1, <1>2, <1>7, <2>1, GotoMoves DEF PushScanFails
<1>8. CASE PushAdded(t)
  BY <1>1, <1>2, <1>8, GotoMoves DEF PushAdded
<1> QED
  BY <1>3, <1>4, <1>5, <1>6, <1>7, <1>8 DEF QuietPush

(* All steps of a pop are quiet, but for its first and its last.           *)
LEMMA QuietPopIsQuiet ==
  ASSUME Inv, NEW t \in Poppers, QuietPop(t)
  PROVE  QuietStep(t)
<1> USE DEF QuietStep, segvars, local, gcvars, WalkLabels, Reserving, HasNext
<1>1. t \in Threads /\ t \notin Pushers /\ TypeOK /\ seg[t] \in Nat /\ nseg \in Nat
  BY OneRole, Numbers DEF Inv
<1>2. {"head", "next", "flag", "hop", "empty", "load", "take", "taken", "advance", "done"}
        \subseteq Labels
  BY DEF Labels, PopLabels
<1>3. CASE PopCount(t)
  BY <1>1, <1>2, <1>3, GotoMoves DEF PopCount
<1>4. CASE PopHead(t)
  <2>1. PICK to \in {"next", "flag"} : Goto(t, "head", to)
    BY <1>4 DEF PopHead
  <2> QED
    BY <1>1, <1>2, <1>4, <2>1, GotoMoves DEF PopHead
<1>5. CASE PopNext(t)
  BY <1>1, <1>2, <1>5, GotoMoves DEF PopNext
<1>6. CASE PopFlag(t)
  BY <1>1, <1>2, <1>6, GotoMoves DEF PopFlag
<1>7. CASE PopLoad(t)
  <2>1. CASE Goto(t, "load", "next") \/ Goto(t, "load", "take")
    BY <1>1, <1>2, <1>7, <2>1, GotoMoves DEF PopLoad
  <2>2. CASE UNCHANGED pc
    BY <1>1, <1>7, <2>2 DEF PopLoad, OnlyMoves, TypeOK, Labels
  <2> QED
    BY <1>7, <2>1, <2>2 DEF PopLoad
<1>8. CASE PopTake(t)
  <2>1. PICK to \in {"taken", "load"} : Goto(t, "take", to)
    BY <1>8 DEF PopTake
  <2> QED
    BY <1>1, <1>2, <1>8, <2>1, GotoMoves DEF PopTake
<1>9. CASE PopTaken(t)
  BY <1>1, <1>2, <1>9, GotoMoves DEF PopTaken
<1>10. CASE PopAdvance(t)
  BY <1>1, <1>2, <1>10, GotoMoves DEF PopAdvance
<1> QED
  BY <1>3, <1>4, <1>5, <1>6, <1>7, <1>8, <1>9, <1>10 DEF QuietPop
----------------------------------------------------------------------------

(* The sets that ProtectionExact counts.                                   *)
Accessing == {t \in Threads : pc[t] \in {"current", "use", "leave"}}
Reservers(s) == {t \in Pushers : seg[t] = s /\ pc[t] \in Reserving}
Users(s) == {t \in Threads : seg[t] = s /\ pc[t] # "use"}
Hoppers(s) == {t \in Threads : seg[t] + 1 = s /\ pc[t] = "unhop"}

(* ProtectionExact, said of these sets.                                    *)
LEMMA ProtectionSets ==
  ProtectionExact <=>
    /\ access = Cardinality(Accessing)
    /\ \A s \in Segs : /\ reserved[s] = Cardinality(Reservers(s))
                       /\ inuse[s] = Cardinality(Users(s)) + Cardinality(Hoppers(s))
BY DEF ProtectionExact, Accessing, Reservers, Users, Hoppers

OthersStay(t) == \A u \in Threads : u # t => pc'[u] = pc[u] /\ seg'[u] = seg[u]

(* What a step of t can change of these sets is whether t is a member.     *)
LEMMA Swaps ==
  ASSUME NEW t \in Threads, OthersStay(t)
  PROVE  /\ Swap(Accessing, Accessing', t)
         /\ \A s \in Segs : /\ Swap(Reservers(s), Reservers(s)', t)
                            /\ Swap(Users(s), Users(s)', t)
                            /\ Swap(Hoppers(s), Hoppers(s)', t)
<1> USE ThreadsFinite DEF OthersStay
<1>1. Swap(Accessing, Accessing', t)
  <2>1. Accessing \in SUBSET Threads /\ Accessing' \in SUBSET Threads
    BY DEF Accessing
  <2>2. \A u \in Threads : u # t => (u \in Accessing <=> u \in Accessing')
    BY DEF Accessing
  <2> QED
    BY <2>1, <2>2, SetSwap
<1>2. ASSUME NEW s \in Segs
      PROVE  Swap(Reservers(s), Reservers(s)', t)
  <2>1. Reservers(s) \in SUBSET Threads /\ Reservers(s)' \in SUBSET Threads
    BY OneRole DEF Reservers
  <2>2. \A u \in Threads : u # t => (u \in Reservers(s) <=> u \in Reservers(s)')
    BY DEF Reservers
  <2> QED
    BY <2>1, <2>2, SetSwap
<1>3. ASSUME NEW s \in Segs
      PROVE  Swap(Users(s), Users(s)', t)
  <2>1. Users(s) \in SUBSET Threads /\ Users(s)' \in SUBSET Threads
    BY DEF Users
  <2>2. \A u \in Threads : u # t => (u \in Users(s) <=> u \in Users(s)')
    BY DEF Users
  <2> QED
    BY <2>1, <2>2, SetSwap
<1>4. ASSUME NEW s \in Segs
      PROVE  Swap(Hoppers(s), Hoppers(s)', t)
  <2>1. Hoppers(s) \in SUBSET Threads /\ Hoppers(s)' \in SUBSET Threads
    BY DEF Hoppers
  <2>2. \A u \in Threads : u # t => (u \in Hoppers(s) <=> u \in Hoppers(s)')
    BY DEF Hoppers
  <2> QED
    BY <2>1, <2>2, SetSwap
<1> QED
  BY <1>1, <1>2, <1>3, <1>4

(* Where t is decides which of the sets it is in.                          *)
LEMMA Memberships ==
  ASSUME NEW t \in Threads
  PROVE  /\ t \in Accessing <=> pc[t] \in {"current", "use", "leave"}
         /\ t \in Accessing' <=> pc'[t] \in {"current", "use", "leave"}
         /\ \A s \in Segs :
              /\ t \in Reservers(s) <=> t \in Pushers /\ seg[t] = s /\ pc[t] \in Reserving
              /\ t \in Reservers(s)' <=> t \in Pushers /\ seg'[t] = s /\ pc'[t] \in Reserving
              /\ t \in Users(s) <=> seg[t] = s /\ pc[t] # "use"
              /\ t \in Users(s)' <=> seg'[t] = s /\ pc'[t] # "use"
              /\ t \in Hoppers(s) <=> seg[t] + 1 = s /\ pc[t] = "unhop"
              /\ t \in Hoppers(s)' <=> seg'[t] + 1 = s /\ pc'[t] = "unhop"
BY DEF Accessing, Reservers, Users, Hoppers

(* A step of t that keeps reservations.                                    *)
LEMMA SameReservers ==
  ASSUME Inv, NEW t \in Threads, OthersStay(t), UNCHANGED reserved,
         \A s \in Segs : (t \in Reservers(s) <=> t \in Reservers(s)')
  PROVE  \A s \in Segs : reserved'[s] = Cardinality(Reservers(s))'
<1> SUFFICES ASSUME NEW s \in Segs PROVE reserved'[s] = Cardinality(Reservers(s)')
  OBVIOUS
<1>1. Swap(Reservers(s), Reservers(s)', t) /\ reserved[s] = Cardinality(Reservers(s))
  BY Swaps, ProtectionSets DEF Inv
<1> QED
  BY <1>1 DEF Swap

(* A step of t that keeps the uses of segments.                            *)
LEMMA SameUsers ==
  ASSUME Inv, NEW t \in Threads, OthersStay(t), UNCHANGED inuse,
         \A s \in Segs : (t \in Users(s) <=> t \in Users(s)') /\ (t \in Hoppers(s) <=> t \in Hoppers(s)')
  PROVE  \A s \in Segs : inuse'[s] = Cardinality(Users(s))' + Cardinality(Hoppers(s))'
<1> SUFFICES ASSUME NEW s \in Segs
             PROVE  inuse'[s] = Cardinality(Users(s)') + Cardinality(Hoppers(s)')
  OBVIOUS
<1>1. /\ Swap(Users(s), Users(s)', t) /\ Swap(Hoppers(s), Hoppers(s)', t)
      /\ inuse[s] = Cardinality(Users(s)) + Cardinality(Hoppers(s))
  BY Swaps, ProtectionSets DEF Inv
<1> QED
  BY <1>1 DEF Swap

(* A step of t that keeps the accesses.                                    *)
LEMMA SameAccess ==
  ASSUME Inv, NEW t \in Threads, OthersStay(t), UNCHANGED access,
         t \in Accessing <=> t \in Accessing'
  PROVE  access' = Cardinality(Accessing')
BY Swaps, ProtectionSets DEF Inv, Swap

(* A quiet step changes no protection.                                     *)
LEMMA QuietProtects ==
  ASSUME Inv, NEW t \in Threads, QuietStep(t)
  PROVE  ProtectionExact'
<1> USE DEF QuietStep, WalkLabels
<1>1. OthersStay(t) /\ UNCHANGED <<access, reserved, inuse>>
  BY DEF OnlyMoves, OthersStay
<1>2. access' = Cardinality(Accessing')
  <2>1. t \in Accessing <=> t \in Accessing'
    BY Memberships
  <2> QED
    BY <1>1, <2>1, SameAccess
<1>3. \A s \in Segs : reserved'[s] = Cardinality(Reservers(s))'
  <2>1. \A s \in Segs : (t \in Reservers(s) <=> t \in Reservers(s)')
    BY Memberships
  <2> QED
    BY <1>1, <2>1, SameReservers
<1>4. \A s \in Segs : inuse'[s] = Cardinality(Users(s))' + Cardinality(Hoppers(s))'
  <2>1. \A s \in Segs : (t \in Users(s) <=> t \in Users(s)') /\ (t \in Hoppers(s) <=> t \in Hoppers(s)')
    BY Memberships
  <2> QED
    BY <1>1, <2>1, SameUsers
<1> QED
  BY <1>2, <1>3, <1>4 DEF ProtectionExact, Accessing, Reservers, Users, Hoppers

(* Chaining a segment is quiet, but for the chain itself.                  *)
LEMMA GrowProtects ==
  ASSUME Inv, NEW t \in Threads, PushGrow(t)
  PROVE  ProtectionExact'
<1>1. /\ OthersStay(t) /\ UNCHANGED <<access, reserved, inuse, seg>>
      /\ pc[t] = "grow" /\ pc'[t] = "chase"
  <2>1. "chase" \in Labels /\ TypeOK
    BY DEF Labels, PushLabels, Inv
  <2> QED
    BY <2>1, GotoMoves DEF PushGrow, OnlyMoves, OthersStay, gcvars
<1>2. access' = Cardinality(Accessing')
  BY <1>1, SameAccess, Memberships
<1>3. \A s \in Segs : reserved'[s] = Cardinality(Reservers(s))'
  BY <1>1, SameReservers, Memberships DEF Reserving
<1>4. \A s \in Segs : inuse'[s] = Cardinality(Users(s))' + Cardinality(Hoppers(s))'
  BY <1>1, SameUsers, Memberships
<1> QED
  BY <1>2, <1>3, <1>4 DEF ProtectionExact, Accessing, Reservers, Users, Hoppers

(* A reservation is counted for the segment it is made in ...              *)
LEMMA ReserveProtects ==
  ASSUME Inv, NEW t \in Pushers, PushReserve(t)
  PROVE  ProtectionExact'
<1> USE DEF Reserving
<1>1. t \in Threads /\ TypeOK /\ {"head", "chase"} \subseteq Labels
  BY OneRole DEF Inv, Labels, PushLabels
<1>2. PICK to \in {"head", "chase"} :
        /\ Goto(t, "reserve", to)
        /\ to = "head" => reserved' = [reserved EXCEPT ![seg[t]] = @ + 1]
        /\ to = "chase" => reserved' = reserved
  BY DEF PushReserve
<1>3. /\ OthersStay(t) /\ UNCHANGED <<access, inuse, seg>>
      /\ pc[t] = "reserve" /\ pc'[t] = to
  BY <1>1, <1>2, GotoMoves DEF PushReserve, OnlyMoves, OthersStay, local
<1>4. access' = Cardinality(Accessing')
  BY <1>1, <1>3, SameAccess, Memberships
<1>5. \A s \in Segs : reserved'[s] = Cardinality(Reservers(s))'
  <2> SUFFICES ASSUME NEW s \in Segs PROVE reserved'[s] = Cardinality(Reservers(s)')
    OBVIOUS
  <2>1. Swap(Reservers(s), Reservers(s)', t) /\ reserved[s] = Cardinality(Reservers(s))
    BY <1>1, <1>3, Swaps, ProtectionSets DEF Inv
  <2>2. reserved \in [Segs -> Nat]
    BY <1>1 DEF TypeOK
  <2>3. t \notin Reservers(s) /\ (t \in Reservers(s)' <=> seg[t] = s /\ to = "head")
    BY <1>1, <1>3, Memberships
  <2> QED
    BY <1>2, <2>1, <2>2, <2>3 DEF Swap
<1>6. \A s \in Segs : inuse'[s] = Cardinality(Users(s))' + Cardinality(Hoppers(s))'
  BY <1>1, <1>3, SameUsers, Memberships
<1> QED
  BY <1>4, <1>5, <1>6 DEF ProtectionExact, Accessing, Reservers, Users, Hoppers

(* ... and given back there, by a push that is through or starts again.    *)
LEMMA UnreserveProtects ==
  ASSUME Inv, NEW t \in Pushers, PushUnreserve(t)
  PROVE  ProtectionExact'
<1> USE DEF Reserving
<1>1. t \in Threads /\ TypeOK /\ {"done", "chase"} \subseteq Labels
  BY OneRole DEF Inv, Labels, PushLabels
<1>2. PICK from \in {"unreserve", "backout"}, to \in {"done", "chase"} : Goto(t, from, to)
  BY DEF PushUnreserve
<1>3. /\ OthersStay(t) /\ UNCHANGED <<access, inuse, seg>>
      /\ pc[t] = from /\ pc'[t] = to /\ reserved' = [reserved EXCEPT ![seg[t]] = @ - 1]
  BY <1>1, <1>2, GotoMoves DEF PushUnreserve, OnlyMoves, OthersStay, local
<1>4. access' = Cardinality(Accessing')
  BY <1>1, <1>3, SameAccess, Memberships
<1>5. \A s \in Segs : reserved'[s] = Cardinality(Reservers(s))'
  <2> SUFFICES ASSUME NEW s \in Segs PROVE reserved'[s] = Cardinality(Reservers(s)')
    OBVIOUS
  <2>1. Swap(Reservers(s), Reservers(s)', t) /\ reserved[s] = Cardinality(Reservers(s))
    BY <1>1, <1>3, Swaps, ProtectionSets DEF Inv
  <2>2. reserved \in [Segs -> Nat]
    BY <1>1 DEF TypeOK
  <2>3. t \notin Reservers(s)' /\ (t \in Reservers(s) <=> seg[t] = s)
    BY <1>1, <1>3, Memberships
  <2> QED
    BY <1>3, <2>1, <2>2, <2>3 DEF Swap
<1>6. \A s \in Segs : inuse'[s] = Cardinality(Users(s))' + Cardinality(Hoppers(s))'
  BY <1>1, <1>3, SameUsers, Memberships
<1> QED
  BY <1>4, <1>5, <1>6 DEF ProtectionExact, Accessing, Reservers, Users, Hoppers

(* A call that returns lets go of the one segment it has.                  *)
LEMMA ReturnProtects ==
  ASSUME Inv, NEW t \in Threads, NEW from \in {"done", "fail", "empty"}, Return(t, from)
  PROVE  ProtectionExact'
<1> USE DEF Reserving
<1>1. TypeOK /\ SegOK /\ "idle" \in Labels
  BY DEF Inv, Labels, WalkLabels
<1>2. /\ OthersStay(t) /\ UNCHANGED <<access, reserved>>
      /\ pc[t] = from /\ pc'[t] = "idle" /\ seg'[t] = 0
      /\ inuse' = [inuse EXCEPT ![seg[t]] = @ - 1]
  BY <1>1, GotoMoves DEF Return, OnlyMoves, OthersStay, TypeOK
<1>3. access' = Cardinality(Accessing')
  BY <1>1, <1>2, SameAccess, Memberships
<1>4. \A s \in Segs : reserved'[s] = Cardinality(Reservers(s))'
  BY <1>1, <1>2, SameReservers, Memberships
<1>5. \A s \in Segs : inuse'[s] = Cardinality(Users(s))' + Cardinality(Hoppers(s))'
  <2> SUFFICES ASSUME NEW s \in Segs
               PROVE  inuse'[s] = Cardinality(Users(s)') + Cardinality(Hoppers(s)')
    OBVIOUS
  <2>1. /\ Swap(Users(s), Users(s)', t) /\ Swap(Hoppers(s), Hoppers(s)', t)
        /\ inuse[s] = Cardinality(Users(s)) + Cardinality(Hoppers(s))
    BY <1>2, Swaps, ProtectionSets DEF Inv
  <2>2. inuse \in [Segs -> Nat] /\ s \in Nat /\ s # 0
    BY <1>1, Numbers DEF TypeOK, Segs
  <2>3. /\ t \in Users(s) <=> seg[t] = s
        /\ t \notin Users(s)' /\ t \notin Hoppers(s) /\ t \notin Hoppers(s)'
    BY <1>2, <2>2, Memberships
  <2> QED
    BY <1>2, <2>1, <2>2, <2>3 DEF Swap
<1> QED
  BY <1>3, <1>4, <1>5 DEF ProtectionExact, Accessing, Reservers, Users, Hoppers

(* A call announces itself before it has any segment ...                   *)
LEMMA CallProtects ==
  ASSUME Inv, NEW t \in Threads, Call(t)
  PROVE  ProtectionExact'
<1> USE DEF Reserving
<1>1. TypeOK /\ SegOK /\ "current" \in Labels
  BY DEF Inv, Labels, WalkLabels
<1>2. /\ OthersStay(t) /\ UNCHANGED <<seg, reserved, inuse>> /\ access' = access + 1
      /\ pc[t] = "idle" /\ pc'[t] = "current" /\ seg[t] = 0
  BY <1>1, GotoMoves DEF Call, OnlyMoves, OthersStay, segvars, SegOK
<1>3. access' = Cardinality(Accessing')
  BY <1>1, <1>2, Swaps, ProtectionSets, Memberships DEF Inv, Swap
<1>4. \A s \in Segs : reserved'[s] = Cardinality(Reservers(s))'
  BY <1>1, <1>2, SameReservers, Memberships
<1>5. \A s \in Segs : inuse'[s] = Cardinality(Users(s))' + Cardinality(Hoppers(s))'
  BY <1>1, <1>2, SameUsers, Memberships
<1> QED
  BY <1>3, <1>4, <1>5 DEF ProtectionExact, Accessing, Reservers, Users, Hoppers

(* ... so that the segment it loads is protected before it is in use ...   *)
LEMMA CurrentProtects ==
  ASSUME Inv, NEW t \in Threads, Current(t)
  PROVE  ProtectionExact'
<1> USE DEF Reserving
<1>1. TypeOK /\ SegOK /\ "use" \in Labels
  BY DEF Inv, Labels, WalkLabels
<1>2. /\ OthersStay(t) /\ UNCHANGED <<access, reserved, inuse>>
      /\ pc[t] = "current" /\ pc'[t] = "use" /\ seg[t] = 0
  BY <1>1, GotoMoves DEF Current, OnlyMoves, OthersStay, segvars, SegOK, TypeOK
<1>3. access' = Cardinality(Accessing')
  BY <1>1, <1>2, SameAccess, Memberships
<1>4. \A s \in Segs : reserved'[s] = Cardinality(Reservers(s))'
  BY <1>1, <1>2, SameReservers, Memberships
<1>5. \A s \in Segs : inuse'[s] = Cardinality(Users(s))' + Cardinality(Hoppers(s))'
  <2>1. \A s \in Segs : s # 0
    BY <1>1, Numbers DEF Segs
  <2> QED
    BY <1>1, <1>2, <2>1, SameUsers, Memberships
<1> QED
  BY <1>3, <1>4, <1>5 DEF ProtectionExact, Accessing, Reservers, Users, Hoppers

(* ... and in use before the access ends.                                  *)
LEMMA UseProtects ==
  ASSUME Inv, NEW t \in Threads, Use(t)
  PROVE  ProtectionExact'
<1> USE DEF Reserving
<1>1. TypeOK /\ SegOK /\ "leave" \in Labels
  BY DEF Inv, Labels, WalkLabels
<1>2. /\ OthersStay(t) /\ UNCHANGED <<access, reserved, seg>>
      /\ pc[t] = "use" /\ pc'[t] = "leave"
      /\ inuse' = [inuse EXCEPT ![seg[t]] = @ + 1]
  BY <1>1, GotoMoves DEF Use, OnlyMoves, OthersStay, local
<1>3. access' = Cardinality(Accessing')
  BY <1>1, <1>2, SameAccess, Memberships
<1>4. \A s \in Segs : reserved'[s] = Cardinality(Reservers(s))'
  BY <1>1, <1>2, SameReservers, Memberships
<1>5. \A s \in Segs : inuse'[s] = Cardinality(Users(s))' + Cardinality(Hoppers(s))'
  <2> SUFFICES ASSUME NEW s \in Segs
               PROVE  inuse'[s] = Cardinality(Users(s)') + Cardinality(Hoppers(s)')
    OBVIOUS
  <2>1. /\ Swap(Users(s), Users(s)', t) /\ Swap(Hoppers(s), Hoppers(s)', t)
        /\ inuse[s] = Cardinality(Users(s)) + Cardinality(Hoppers(s))
    BY <1>2, Swaps, ProtectionSets DEF Inv
  <2>2. inuse \in [Segs -> Nat]
    BY <1>1 DEF TypeOK
  <2>3. /\ t \notin Users(s) /\ (t \in Users(s)' <=> seg[t] = s)
        /\ t \notin Hoppers(s) /\ t \notin Hoppers(s)'
    BY <1>2, Memberships
  <2> QED
    BY <1>2, <2>1, <2>2, <2>3 DEF Swap
<1> QED
  BY <1>3, <1>4, <1>5 DEF ProtectionExact, Accessing, Reservers, Users, Hoppers

(* The access ends when the segment is in use.                             *)
LEMMA LeaveProtects ==
  ASSUME Inv, NEW t \in Threads, Leave(t)
  PROVE  ProtectionExact'
<1> USE DEF Reserving
<1>1. TypeOK /\ SegOK /\ {"chase", "count"} \subseteq Labels
  BY DEF Inv, Labels, PushLabels
<1>2. PICK to \in {"chase", "count"} : Goto(t, "leave", to)
  BY DEF Leave
<1>3. /\ OthersStay(t) /\ UNCHANGED <<seg, reserved, inuse>> /\ access' = access - 1
      /\ pc[t] = "leave" /\ pc'[t] = to
  BY <1>1, <1>2, GotoMoves DEF Leave, OnlyMoves, OthersStay, segvars
<1>4. access' = Cardinality(Accessing')
  BY <1>1, <1>3, Swaps, ProtectionSets, Memberships DEF Inv, Swap
<1>5. \A s \in Segs : reserved'[s] = Cardinality(Reservers(s))'
  BY <1>1, <1>3, SameReservers, Memberships
<1>6. \A s \in Segs : inuse'[s] = Cardinality(Users(s))' + Cardinality(Hoppers(s))'
  BY <1>1, <1>3, SameUsers, Memberships
<1> QED
  BY <1>4, <1>5, <1>6 DEF ProtectionExact, Accessing, Reservers, Users, Hoppers

(* Moving on, the next segment is in use before this one is let go.        *)
LEMMA HopProtects ==
  ASSUME Inv, NEW t \in Threads, Hop(t)
  PROVE  ProtectionExact'
<1> USE DEF Reserving
<1>1. TypeOK /\ SegOK /\ "unhop" \in Labels
  BY DEF Inv, Labels, WalkLabels
<1>2. /\ OthersStay(t) /\ UNCHANGED <<access, reserved, seg>>
      /\ pc[t] = "hop" /\ pc'[t] = "unhop"
      /\ inuse' = [inuse EXCEPT ![seg[t] + 1] = @ + 1]
  BY <1>1, GotoMoves DEF Hop, OnlyMoves, OthersStay, local
<1>3. access' = Cardinality(Accessing')
  BY <1>1, <1>2, SameAccess, Memberships
<1>4. \A s \in Segs : reserved'[s] = Cardinality(Reservers(s))'
  BY <1>1, <1>2, SameReservers, Memberships
<1>5. \A s \in Segs : inuse'[s] = Cardinality(Users(s))' + Cardinality(Hoppers(s))'
  <2> SUFFICES ASSUME NEW s \in Segs
               PROVE  inuse'[s] = Cardinality(Users(s)') + Cardinality(Hoppers(s)')
    OBVIOUS
  <2>1. /\ Swap(Users(s), Users(s)', t) /\ Swap(Hoppers(s), Hoppers(s)', t)
        /\ inuse[s] = Cardinality(Users(s)) + Cardinality(Hoppers(s))
    BY <1>2, Swaps, ProtectionSets DEF Inv
  <2>2. inuse \in [Segs -> Nat]
    BY <1>1 DEF TypeOK
  <2>3. /\ t \in Users(s) <=> t \in Users(s)'
        /\ t \notin Hoppers(s) /\ (t \in Hoppers(s)' <=> seg[t] + 1 = s)
    BY <1>2, Memberships
  <2> QED
    BY <1>2, <2>1, <2>2, <2>3 DEF Swap
<1> QED
  BY <1>3, <1>4, <1>5 DEF ProtectionExact, Accessing, Reservers, Users, Hoppers

(* A thread that has moved on lets go of the segment it was in.            *)
LEMMA UnhopProtects ==
  ASSUME Inv, NEW t \in Threads, Unhop(t)
  PROVE  ProtectionExact'
<1> USE DEF Reserving
<1>1. TypeOK /\ SegOK /\ {"chase", "count"} \subseteq Labels
  BY DEF Inv, Labels, PushLabels
<1>2. PICK to \in {"chase", "count"} : Goto(t, "unhop", to)
  BY DEF Unhop
<1>3. /\ OthersStay(t) /\ UNCHANGED <<access, reserved>>
      /\ pc[t] = "unhop" /\ pc'[t] = to /\ seg'[t] = seg[t] + 1
      /\ inuse' = [inuse EXCEPT ![seg[t]] = @ - 1]
  BY <1>1, <1>2, GotoMoves DEF Unhop, OnlyMoves, OthersStay, TypeOK
<1>4. access' = Cardinality(Accessing')
  BY <1>1, <1>3, SameAccess, Memberships
<1>5. \A s \in Segs : reserved'[s] = Cardinality(Reservers(s))'
  BY <1>1, <1>3, SameReservers, Memberships
<1>6. \A s \in Segs : inuse'[s] = Cardinality(Users(s))' + Cardinality(Hoppers(s))'
  <2> SUFFICES ASSUME NEW s \in Segs
               PROVE  inuse'[s] = Cardinality(Users(s)') + Cardinality(Hoppers(s)')
    OBVIOUS
  <2>1. /\ Swap(Users(s), Users(s)', t) /\ Swap(Hoppers(s), Hoppers(s)', t)
        /\ inuse[s] = Cardinality(Users(s)) + Cardinality(Hoppers(s))
    BY <1>3, Swaps, ProtectionSets DEF Inv
  <2>2. inuse \in [Segs -> Nat] /\ seg[t] \in Nat
    BY <1>1, Numbers DEF TypeOK
  <2>3. /\ t \in Users(s) <=> seg[t] = s
        /\ t \in Users(s)' <=> seg[t] + 1 = s
        /\ t \in Hoppers(s) <=> seg[t] + 1 = s
        /\ t \notin Hoppers(s)'
    BY <1>3, Memberships
  <2> QED
    BY <1>3, <2>1, <2>2, <2>3 DEF Swap
<1> QED
  BY <1>4, <1>5, <1>6 DEF ProtectionExact, Accessing, Reservers, Users, Hoppers
----------------------------------------------------------------------------

(* What a step is, when only the chain and its protection matter.          *)
LEMMA Cases ==
  ASSUME Inv, Next
  PROVE  \/ CollectStep
         \/ \E t \in Threads : \/ QuietStep(t) \/ Call(t) \/ Walk(t)
                               \/ \E from \in {"done", "fail", "empty"} : Return(t, from)
         \/ \E t \in Pushers : PushGrow(t) \/ PushReserve(t) \/ PushUnreserve(t)
<1>1. ASSUME NEW t \in Pushers, PushStep(t)
      PROVE  \/ \E u \in Threads : \/ QuietStep(u) \/ Call(u)
                                   \/ \E from \in {"done", "fail", "empty"} : Return(u, from)
             \/ \E u \in Pushers : PushGrow(u) \/ PushReserve(u) \/ PushUnreserve(u)
  <2>1. QuietPush(t) => QuietStep(t)
    BY QuietPushIsQuiet
  <2> QED
    BY <1>1, <2>1, OneRole DEF PushStep, QuietPush, Push, PushDone
<1>2. ASSUME NEW t \in Poppers, PopStep(t)
      PROVE  \E u \in Threads : \/ QuietStep(u) \/ Call(u)
                                \/ \E from \in {"done", "fail", "empty"} : Return(u, from)
  <2>1. QuietPop(t) => QuietStep(t)
    BY QuietPopIsQuiet
  <2> QED
    BY <1>2, <2>1, OneRole DEF PopStep, QuietPop, Pop, PopDone
<1> QED
  BY <1>1, <1>2 DEF Next

(* The collector leaves the threads and what they hold alone.              *)
LEMMA CollectFrame ==
  ASSUME CollectStep
  PROVE  UNCHANGED <<pc, seg, local, calls, popped, access, reserved, inuse, buffer, count, head, work>>
<1> USE DEF segvars, local, Chain
<1>1. CASE Collect
  BY <1>1 DEF Collect
<1>2. CASE CollectCount
  BY <1>2 DEF CollectCount
<1>3. CASE CollectRetire
  BY <1>3 DEF CollectRetire
<1>4. CASE CollectShrink
  BY <1>4 DEF CollectShrink
<1>5. CASE CollectNoShrink
  BY <1>5 DEF CollectNoShrink
<1>6. CASE CollectFree
  BY <1>6 DEF CollectFree
<1> QED
  BY <1>1, <1>2, <1>3, <1>4, <1>5, <1>6 DEF CollectStep

(* Every counter that protects a segment stays exact.                      *)
LEMMA StepProtects ==
  ASSUME Inv, Next
  PROVE  ProtectionExact'
<1>1. CASE CollectStep
  BY <1>1, CollectFrame DEF Inv, ProtectionExact
<1>2. ASSUME NEW t \in Threads, Walk(t)
      PROVE  ProtectionExact'
  BY <1>2, CurrentProtects, UseProtects, LeaveProtects, HopProtects, UnhopProtects DEF Walk
<1>3. ASSUME NEW t \in Threads,
             \/ QuietStep(t) \/ Call(t)
             \/ \E from \in {"done", "fail", "empty"} : Return(t, from)
      PROVE  ProtectionExact'
  BY <1>3, QuietProtects, CallProtects, ReturnProtects
<1>4. ASSUME NEW t \in Pushers, PushGrow(t) \/ PushReserve(t) \/ PushUnreserve(t)
      PROVE  ProtectionExact'
  BY <1>4, OneRole, GrowProtects, ReserveProtects, UnreserveProtects
<1> QED
  BY <1>1, <1>2, <1>3, <1>4, Cases, Zenon

(* A segment that is chained goes to the end of the chain.                 *)
LEMMA ChainAppends ==
  ASSUME TypeOK, NEW s \in 1..nseg, NEW newsize, Chain(s, newsize)
  PROVE  s = nseg /\ nseg' = nseg + 1 /\ nseg' \in Segs /\ s < MaxSegs
<1>1. nseg \in Nat /\ MaxSegs \in Nat
  BY Numbers, Constants
<1> QED
  BY <1>1 DEF Chain, HasNext, Segs

(* The chain only grows, and only at its end.                              *)
LEMMA ChainGrows ==
  ASSUME Inv, Next
  PROVE  nseg' \in Segs /\ (nseg' = nseg \/ nseg' = nseg + 1)
<1> USE DEF segvars
<1>1. TypeOK /\ SegOK
  BY DEF Inv
<1>2. nseg \in Segs /\ nseg \in 1..nseg
  BY <1>1, Constants DEF TypeOK, Segs
<1>3. CASE CollectStep
  <2>1. CASE CollectShrink
    BY <1>1, <1>2, <2>1, ChainAppends DEF CollectShrink
  <2>2. CASE ~CollectShrink
    BY <1>1, <1>2, <1>3, <2>2 DEF CollectStep, Collect, CollectCount, CollectRetire,
                            CollectNoShrink, CollectFree
  <2> QED
    BY <2>1, <2>2
<1>4. ASSUME NEW t \in Threads,
             \/ QuietStep(t) \/ Call(t) \/ Walk(t)
             \/ \E from \in {"done", "fail", "empty"} : Return(t, from)
      PROVE  nseg' = nseg
  BY <1>4 DEF QuietStep, Call, Walk, Current, Use, Leave, Hop, Unhop, Return
<1>5. ASSUME NEW t \in Pushers, PushGrow(t) \/ PushReserve(t) \/ PushUnreserve(t)
      PROVE  nseg' \in Segs /\ (nseg' = nseg \/ nseg' = nseg + 1)
  <2>1. CASE PushGrow(t)
    <3>1. seg[t] \in 1..nseg
      BY <1>1, <1>2, <2>1, OneRole DEF SegOK, PushGrow, Goto
    <3> QED
      BY <1>1, <1>2, <2>1, <3>1, ChainAppends DEF PushGrow
  <2>2. CASE PushReserve(t) \/ PushUnreserve(t)
    BY <1>1, <1>2, <2>2 DEF PushReserve, PushUnreserve
  <2> QED
    BY <1>5, <2>1, <2>2
<1> QED
  BY <1>1, <1>2, <1>3, <1>4, <1>5, Cases

(* How a thread gets a segment, keeps it, moves on and lets go.            *)
Route(t) ==
  \/ pc[t] = "idle" /\ pc'[t] = "current" /\ seg'[t] = seg[t]
  \/ pc[t] = "current" /\ pc'[t] = "use" /\ seg'[t] = current
  \/ pc[t] = "use" /\ pc'[t] = "leave" /\ seg'[t] = seg[t]
  \/ pc[t] \notin {"idle", "current", "use"} /\ seg'[t] = seg[t]
     /\ pc'[t] \notin {"idle", "current", "use", "hop", "unhop"}
  \/ pc[t] \notin {"idle", "current", "use"} /\ seg'[t] = seg[t] /\ seg[t] < nseg /\ pc'[t] = "hop"
  \/ pc[t] = "hop" /\ pc'[t] = "unhop" /\ seg'[t] = seg[t]
  \/ pc[t] = "unhop" /\ pc'[t] \in {"chase", "count"} /\ seg'[t] = seg[t] + 1
  \/ pc[t] \notin {"idle", "current", "use"} /\ pc'[t] = "idle" /\ seg'[t] = 0

ThreadStep(t) ==
  /\ Route(t) /\ OthersStay(t) /\ pc' \in [Threads -> Labels]
  /\ UNCHANGED <<current, freed, gc, gcaccess, retiring, overtaken, work>>

(* A quiet step keeps the segment, or is about to move on.                 *)
LEMMA QuietRoute ==
  ASSUME Inv, NEW t \in Threads, QuietStep(t)
  PROVE  ThreadStep(t)
<1>1. OthersStay(t)
  BY DEF QuietStep, OnlyMoves, OthersStay
<1>2. Route(t)
  <2>1. CASE pc'[t] = "hop"
    BY <2>1 DEF QuietStep, WalkLabels, Route
  <2>2. CASE pc'[t] # "hop"
    BY <2>2 DEF QuietStep, WalkLabels, Route
  <2> QED
    BY <2>1, <2>2
<1> QED
  BY <1>1, <1>2 DEF QuietStep, OnlyMoves, ThreadStep

(* A return lets go of it.                                                 *)
LEMMA ReturnRoute ==
  ASSUME Inv, NEW t \in Threads, NEW from \in {"done", "fail", "empty"}, Return(t, from)
  PROVE  ThreadStep(t)
<1>1. TypeOK /\ "idle" \in Labels
  BY DEF Inv, Labels, WalkLabels
<1>2. OnlyMoves(t) /\ pc[t] = from /\ pc'[t] = "idle"
  BY <1>1, GotoMoves DEF Return
<1>3. OthersStay(t) /\ seg'[t] = 0
  BY <1>1, <1>2 DEF Return, OnlyMoves, OthersStay, TypeOK
<1> QED
  BY <1>2, <1>3 DEF Return, ThreadStep, Route, OnlyMoves, gcvars

(* The other steps of a push keep it.                                      *)
LEMMA PushRoute ==
  ASSUME Inv, NEW t \in Pushers, PushGrow(t) \/ PushReserve(t) \/ PushUnreserve(t)
  PROVE  ThreadStep(t)
<1>1. t \in Threads /\ TypeOK /\ {"chase", "head", "done"} \subseteq Labels
  BY OneRole DEF Inv, Labels, PushLabels
<1>2. PICK from \in {"grow", "reserve", "unreserve", "backout"}, to \in {"chase", "head", "done"} :
        Goto(t, from, to)
  BY DEF PushGrow, PushReserve, PushUnreserve
<1>3. OnlyMoves(t) /\ pc[t] = from /\ pc'[t] = to
  BY <1>1, <1>2, GotoMoves
<1>4. UNCHANGED <<seg, current, freed, gc, gcaccess, retiring, overtaken, work>>
  BY DEF PushGrow, PushReserve, PushUnreserve, local, gcvars
<1> QED
  BY <1>3, <1>4 DEF ThreadStep, Route, OnlyMoves, OthersStay

(* The first steps of a call get it, and a hop changes it.                 *)
LEMMA WalkRoute ==
  ASSUME Inv, NEW t \in Threads, Call(t) \/ Walk(t)
  PROVE  ThreadStep(t)
<1>1. TypeOK /\ {"current", "use", "leave", "unhop", "chase", "count"} \subseteq Labels
  BY DEF Inv, Labels, WalkLabels, PushLabels
<1>2. UNCHANGED <<current, freed, gc, gcaccess, retiring, overtaken, work>>
  BY DEF Call, Walk, Current, Use, Leave, Hop, Unhop, segvars, gcvars
<1> USE DEF OnlyMoves, OthersStay, local
<1>3. Route(t) /\ OthersStay(t) /\ pc' \in [Threads -> Labels]
  <2>1. CASE Call(t)
    BY <1>1, <2>1, GotoMoves DEF Call, Route
  <2>2. CASE Current(t)
    <3>1. OthersStay(t) /\ seg'[t] = current
      BY <1>1, <2>2, GotoMoves DEF Current, TypeOK
    <3> QED
      BY <1>1, <2>2, <3>1, GotoMoves DEF Current, Route
  <2>3. CASE Use(t)
    BY <1>1, <2>3, GotoMoves DEF Use, Route
  <2>4. CASE Leave(t)
    <3>1. PICK to \in {"chase", "count"} : Goto(t, "leave", to)
      BY <2>4 DEF Leave
    <3> QED
      BY <1>1, <2>4, <3>1, GotoMoves DEF Leave, Route
  <2>5. CASE Hop(t)
    BY <1>1, <2>5, GotoMoves DEF Hop, Route
  <2>6. CASE Unhop(t)
    <3>1. PICK to \in {"chase", "count"} : Goto(t, "unhop", to)
      BY <2>6 DEF Unhop
    <3>2. OthersStay(t) /\ seg'[t] = seg[t] + 1
      BY <1>1, <2>6, <3>1, GotoMoves DEF Unhop, TypeOK
    <3> QED
      BY <1>1, <3>1, <3>2, GotoMoves DEF Route
  <2> QED
    BY <2>1, <2>2, <2>3, <2>4, <2>5, <2>6 DEF Walk
<1> QED
  BY <1>2, <1>3 DEF ThreadStep

(* Every step of a thread follows the route, and the others are the        *)
(* collector's.                                                            *)
LEMMA Routes ==
  ASSUME Inv, Next
  PROVE  CollectStep \/ \E t \in Threads : ThreadStep(t)
BY Cases, QuietRoute, ReturnRoute, PushRoute, WalkRoute, OneRole, Zenon
----------------------------------------------------------------------------

(* Every step keeps SegOK.                                                 *)
LEMMA StepSegOK ==
  ASSUME Inv, Next
  PROVE  SegOK'
<1>1. /\ nseg \in Nat /\ nseg' \in Nat /\ nseg <= nseg' /\ SegOK /\ TypeOK
      /\ \A t \in Threads : seg[t] \in Nat
  BY ChainGrows, Numbers DEF Inv, Segs
<1>2. CASE CollectStep
  BY <1>1, <1>2, CollectFrame DEF SegOK
<1>3. ASSUME NEW t \in Threads, ThreadStep(t)
      PROVE  SegOK'
  <2>1. current \in 1..nseg
    BY <1>1, Constants DEF Inv, CollectorOK, TypeOK, Segs
  <2> QED
    BY <1>1, <1>3, <2>1 DEF ThreadStep, Route, OthersStay, SegOK
<1> QED
  BY <1>2, <1>3, Routes

(* Every step keeps CollectorOK: a thread that loads current after the     *)
(* collector has found access to be 0 gets a segment that is not retired.  *)
LEMMA StepCollectorOK ==
  ASSUME Inv, Next
  PROVE  CollectorOK' /\ current' \in Segs /\ freed' \in 0..MaxSegs
<1>1. /\ TypeOK /\ SegOK /\ CollectorOK /\ nseg \in Nat /\ nseg' \in Nat /\ nseg <= nseg'
      /\ current \in Nat /\ freed \in Nat
      /\ \A t \in Threads : seg[t] \in Nat
  BY ChainGrows, Numbers DEF Inv, Segs
<1>2. current \in Segs /\ freed \in 0..MaxSegs /\ MaxSegs \in Nat /\ nseg <= MaxSegs
  BY <1>1, Constants, Numbers DEF TypeOK
<1>3. ASSUME NEW t \in Threads, ThreadStep(t)
      PROVE  CollectorOK' /\ current' \in Segs /\ freed' \in 0..MaxSegs
  <2>1. UNCHANGED <<current, freed, gc, gcaccess>>
    BY <1>3 DEF ThreadStep
  <2>2. gc' = "inuse" /\ gcaccess' = 0 => \A u \in Threads : pc'[u] = "use" => seg'[u] > freed + 1
    BY <1>1, <1>3, <2>1 DEF ThreadStep, Route, OthersStay, CollectorOK
  <2> QED
    BY <1>1, <1>2, <2>1, <2>2 DEF CollectorOK
<1>4. CASE CollectStep
  <2>1. UNCHANGED <<pc, seg>>
    BY <1>4, CollectFrame
  <2>2. CASE Collect
    BY <1>1, <1>2, <2>1, <2>2 DEF Collect, CollectorOK, HasNext
  <2>3. CASE CollectCount
    BY <1>1, <1>2, <2>1, <2>3 DEF CollectCount, CollectorOK
  <2>4. CASE CollectRetire
    <3>1. gc' # "inuse" /\ gc' \notin {"replaced", "reserved"} /\ freed' = freed
      BY <2>4 DEF CollectRetire
    <3>2. current' \in {current, current + 1} /\ current < nseg
      BY <1>1, <2>4 DEF CollectRetire, CollectorOK
    <3> QED
      BY <1>1, <1>2, <3>1, <3>2 DEF CollectorOK, Segs
  <2>5. CASE CollectShrink
    BY <1>1, <1>2, <2>1, <2>5 DEF CollectShrink, CollectorOK
  <2>6. CASE CollectNoShrink
    <3>1. CASE freed + 1 < current
      <4>1. gc' = "inuse" /\ gcaccess' = access /\ UNCHANGED <<current, freed, nseg>>
        BY <2>6, <3>1 DEF CollectNoShrink, segvars
      <4>2. access = 0 => \A t \in Threads : pc[t] # "use"
        <5>1. Accessing \in SUBSET Threads /\ access = Cardinality(Accessing)
          BY ProtectionSets DEF Accessing, Inv
        <5> QED
          BY <5>1, ThreadsFinite, SetSize DEF Accessing
      <4> QED
        BY <1>1, <1>2, <2>1, <3>1, <4>1, <4>2 DEF CollectorOK
    <3>2. CASE ~(freed + 1 < current)
      BY <1>1, <1>2, <2>1, <2>6, <3>2 DEF CollectNoShrink, CollectorOK, segvars
    <3> QED
      BY <3>1, <3>2
  <2>7. CASE CollectFree
    BY <1>1, <1>2, <2>1, <2>7 DEF CollectFree, CollectorOK, segvars, Segs
  <2> QED
    BY <1>4, <2>2, <2>3, <2>4, <2>5, <2>6, <2>7 DEF CollectStep
<1> QED
  BY <1>3, <1>4, Routes

(* What a thread holds on to is not freed: said of its segment, as the     *)
(* next one comes later.                                                   *)
LEMMA Untouched ==
  ASSUME TypeOK
  PROVE  NoUseAfterFree <=> \A t \in Threads : pc[t] \notin {"idle", "current"} => seg[t] > freed
BY Numbers DEF NoUseAfterFree, Touches

(* No step frees a segment that a thread has: threads that use it are      *)
(* counted by inuse, and those about to use it have a later one.           *)
LEMMA StepNoUseAfterFree ==
  ASSUME Inv, Next
  PROVE  \A t \in Threads : pc'[t] \notin {"idle", "current"} => seg'[t] > freed'
<1>1. /\ TypeOK /\ CollectorOK /\ current \in Nat /\ freed \in Nat
      /\ \A t \in Threads : seg[t] \in Nat
      /\ \A t \in Threads : pc[t] \notin {"idle", "current"} => seg[t] > freed
  BY Numbers, Untouched DEF Inv
<1>2. ASSUME NEW t \in Threads, ThreadStep(t)
      PROVE  \A u \in Threads : pc'[u] \notin {"idle", "current"} => seg'[u] > freed'
  BY <1>1, <1>2 DEF ThreadStep, Route, OthersStay, CollectorOK
<1>3. CASE CollectStep
  <2>1. UNCHANGED <<pc, seg>>
    BY <1>3, CollectFrame
  <2>2. CASE UNCHANGED freed
    BY <1>1, <2>1, <2>2
  <2>3. CASE CollectFree /\ freed' # freed
    <3>1. freed' = freed + 1 /\ gc = "inuse" /\ gcaccess = 0 /\ inuse[freed + 1] = 0
      BY <2>3 DEF CollectFree
    <3>2. freed + 1 \in Segs
      BY <1>1, <3>1, Constants DEF CollectorOK, TypeOK, Segs
    <3>3. Users(freed + 1) = {}
      <4>1. /\ Users(freed + 1) \in SUBSET Threads /\ Hoppers(freed + 1) \in SUBSET Threads
            /\ inuse[freed + 1] = Cardinality(Users(freed + 1)) + Cardinality(Hoppers(freed + 1))
        BY <3>2, ProtectionSets DEF Inv, Users, Hoppers
      <4>2. Cardinality(Users(freed + 1)) \in Nat /\ Cardinality(Hoppers(freed + 1)) \in Nat
        BY <4>1, ThreadsFinite, SetSize
      <4>3. Cardinality(Users(freed + 1)) = 0
        BY <3>1, <4>1, <4>2
      <4> QED
        BY <4>1, <4>3, ThreadsFinite, SetSize
    <3>4. \A t \in Threads : pc[t] # "use" => seg[t] # freed + 1
      BY <3>3 DEF Users
    <3>5. \A t \in Threads : pc[t] = "use" => seg[t] > freed + 1
      BY <1>1, <3>1 DEF CollectorOK
    <3> QED
      BY <1>1, <2>1, <3>1, <3>4, <3>5
  <2> QED
    BY <1>3, <2>2, <2>3 DEF CollectStep, Collect, CollectCount, CollectRetire, CollectShrink,
                            CollectNoShrink
<1> QED
  BY <1>2, <1>3, Routes

(* Nobody reserves a write in a retired segment, and the collector retires *)
(* one only when it is marked and nothing is reserved in it.               *)
LEMMA StepRetiredClosed ==
  ASSUME Inv, Next
  PROVE  RetiredClosed'
<1> USE DEF segvars, gcvars
<1>1. /\ TypeOK /\ RetiredClosed /\ CollectorOK /\ current \in Nat /\ current \in Segs
      /\ reserved \in [Segs -> Nat] /\ retiring \in [Segs -> BOOLEAN]
  BY Numbers DEF Inv, TypeOK
<1>2. \A s \in 1..(current - 1) : s \in Segs
  BY <1>1, Constants DEF Segs
<1>3. CASE CollectStep
  <2>1. UNCHANGED reserved
    BY <1>3, CollectFrame
  <2>2. CASE CollectRetire
    <3>1. CASE retiring' = [retiring EXCEPT ![current] = TRUE] /\ UNCHANGED current
      BY <1>1, <1>2, <2>1, <3>1 DEF RetiredClosed
    <3>2. CASE retiring[current] /\ reserved[current] = 0 /\ current' = current + 1 /\ UNCHANGED retiring
      BY <1>1, <2>1, <3>2 DEF RetiredClosed
    <3>3. CASE UNCHANGED <<current, retiring>>
      BY <1>1, <2>1, <3>3 DEF RetiredClosed
    <3> QED
      BY <2>2, <3>1, <3>2, <3>3 DEF CollectRetire
  <2>3. CASE ~CollectRetire
    BY <1>1, <1>3, <2>1, <2>3 DEF RetiredClosed, CollectStep, Collect, CollectCount, CollectShrink,
                                  CollectNoShrink, CollectFree
  <2> QED
    BY <2>2, <2>3
<1>4. ASSUME NEW t \in Threads,
             \/ QuietStep(t) \/ Call(t) \/ Walk(t)
             \/ \E from \in {"done", "fail", "empty"} : Return(t, from)
      PROVE  RetiredClosed'
  <2>1. UNCHANGED <<reserved, retiring, current>>
    BY <1>4 DEF QuietStep, Call, Walk, Current, Use, Leave, Hop, Unhop, Return
  <2> QED
    BY <1>1, <2>1 DEF RetiredClosed
<1>5. ASSUME NEW t \in Pushers, PushGrow(t)
      PROVE  RetiredClosed'
  BY <1>1, <1>5 DEF RetiredClosed, PushGrow
<1>6. ASSUME NEW t \in Pushers, PushReserve(t)
      PROVE  RetiredClosed'
  <2>1. UNCHANGED <<current, retiring>>
    BY <1>6 DEF PushReserve
  <2>2. CASE ~retiring[seg[t]] /\ reserved' = [reserved EXCEPT ![seg[t]] = @ + 1]
    BY <1>1, <1>2, <2>1, <2>2 DEF RetiredClosed
  <2>3. CASE UNCHANGED reserved
    BY <1>1, <2>1, <2>3 DEF RetiredClosed
  <2> QED
    BY <1>6, <2>2, <2>3 DEF PushReserve
<1>7. ASSUME NEW t \in Pushers, PushUnreserve(t)
      PROVE  RetiredClosed'
  <2>1. UNCHANGED <<current, retiring>> /\ reserved' = [reserved EXCEPT ![seg[t]] = @ - 1]
    BY <1>7 DEF PushUnreserve
  <2>2. ASSUME NEW s \in 1..(current - 1)
        PROVE  seg[t] # s
    <3>1. s \in Segs /\ reserved[s] = 0 /\ reserved[s] = Cardinality(Reservers(s))
      BY <1>1, <1>2, ProtectionSets DEF RetiredClosed, Inv
    <3>2. Reservers(s) = {}
      <4>1. Reservers(s) \in SUBSET Threads
        BY OneRole DEF Reservers
      <4> QED
        BY <3>1, <4>1, ThreadsFinite, SetSize
    <3>3. pc[t] \in Reserving
      BY <1>7 DEF PushUnreserve, Goto, Reserving
    <3> QED
      BY <3>2, <3>3 DEF Reservers
  <2> QED
    BY <1>1, <1>2, <2>1, <2>2 DEF RetiredClosed
<1> QED
  BY <1>3, <1>4, <1>5, <1>6, <1>7, Cases, Zenon
----------------------------------------------------------------------------

(* The smaller of two numbers.                                             *)
LEMMA MinOfTwo ==
  ASSUME NEW a \in Int, NEW b \in Int
  PROVE  Min({a, b}) \in {a, b} /\ Min({a, b}) <= a /\ Min({a, b}) <= b
<1>1. \E x \in {a, b} : \A y \in {a, b} : x =< y
  OBVIOUS
<1> QED
  BY <1>1 DEF Min

(* The largest of three numbers.                                           *)
LEMMA MaxOfThree ==
  ASSUME NEW a \in Int, NEW b \in Int, NEW c \in Int
  PROVE  Max({a, b, c}) \in {a, b, c} /\ Max({a, b, c}) >= b
<1>1. \E x \in {a, b, c} : \A y \in {a, b, c} : x >= y
  <2>1. CASE a >= b /\ a >= c
    BY <2>1
  <2>2. CASE b >= a /\ b >= c
    BY <2>2
  <2>3. CASE c >= a /\ c >= b
    BY <2>3
  <2> QED
    BY <2>1, <2>2, <2>3
<1> QED
  BY <1>1 DEF Max

(* A segment of the chain has at least one slot.                           *)
LEMMA Sizes ==
  ASSUME Inv
  PROVE  \A s \in 1..nseg : /\ s \in Segs /\ size[s] \in 1..MaxSize /\ size[s] \in Nat
                            /\ head[s] \in Nat /\ head[s] < size[s]
<1>1. nseg \in Nat /\ nseg <= MaxSegs
  BY Numbers DEF Inv
<1> SUFFICES ASSUME NEW s \in 1..nseg
             PROVE  /\ s \in Segs /\ size[s] \in 1..MaxSize /\ size[s] \in Nat
                    /\ head[s] \in Nat /\ head[s] < size[s]
  OBVIOUS
<1>2. s \in Segs
  BY <1>1, Constants DEF Segs
<1>3. head[s] \in Slots /\ size[s] \in 0..MaxSize /\ head[s] < size[s]
  BY <1>2 DEF Inv, TypeOK
<1> QED
  BY <1>2, <1>3, Constants DEF Slots

(* What an index modulo the size of a ring is.                             *)
LEMMA Remainder ==
  ASSUME NEW a \in Int, NEW n \in Nat, n >= 1
  PROVE  a % n \in 0..(n - 1)
OBVIOUS

(* Every slot that a push or a pop computes is one of its segment.         *)
LEMMA SlotsOK ==
  ASSUME Inv, NEW t \in Threads, pc[t] \notin {"idle", "current"}
  PROVE  Slot(t) \in Slots /\ PopSlot(t) \in Slots /\ PopSlot(t) \in 0..(size[seg[t]] - 1)
<1>1. seg[t] \in 1..nseg
  BY DEF Inv, SegOK
<1>2. size[seg[t]] \in Nat /\ size[seg[t]] >= 1 /\ size[seg[t]] <= MaxSize
  BY <1>1, Sizes, Constants
<1>3. hd[t] \in Int /\ cnt[t] \in Int /\ pos[t] \in Int
  BY Constants DEF Inv, TypeOK, Slots
<1>4. hd[t] + cnt[t] + pos[t] \in Int /\ hd[t] + pos[t] \in Int
  BY <1>3
<1>5. Slot(t) \in 0..(size[seg[t]] - 1)
  BY <1>2, <1>4, Remainder DEF Slot
<1>6. PopSlot(t) \in 0..(size[seg[t]] - 1)
  BY <1>2, <1>4, Remainder DEF PopSlot
<1> QED
  BY <1>2, <1>5, <1>6, Constants DEF Slots

(* The variables of the calls, as TypeOK has them.                         *)
LocalsOK ==
  /\ cnt \in [Threads -> Int] /\ hd \in [Threads -> Slots] /\ pos \in [Threads -> 0..MaxSize]
  /\ full \in [Threads -> BOOLEAN] /\ havenext \in [Threads -> BOOLEAN]
  /\ assist \in [Threads -> 0..MaxSize] /\ calls \in [Threads -> Nat]

(* What a thread that has a segment reads of it.                           *)
LEMMA Held ==
  ASSUME Inv, NEW t \in Threads, pc[t] \notin {"idle", "current"}
  PROVE  /\ seg[t] \in Segs /\ size[seg[t]] \in 1..MaxSize /\ size[seg[t]] \in Nat
         /\ count[seg[t]] \in Int /\ head[seg[t]] \in Slots
<1>1. seg[t] \in 1..nseg
  BY DEF Inv, SegOK
<1> QED
  BY <1>1, Sizes DEF Inv, TypeOK

(* A return resets the variables of the call.                              *)
LEMMA ReturnLocals ==
  ASSUME Inv, NEW t \in Threads, NEW from, Return(t, from)
  PROVE  LocalsOK'
<1>1. LocalsOK
  BY DEF Inv, TypeOK, LocalsOK
<1>2. 0 \in Slots /\ 0 \in 0..MaxSize /\ 0 \in Int
  BY Constants DEF Slots
<1> QED
  BY <1>1, <1>2 DEF Return, LocalsOK

(* A call only counts itself.                                              *)
LEMMA CallLocals ==
  ASSUME Inv, NEW t \in Threads, Call(t)
  PROVE  LocalsOK'
<1>1. LocalsOK
  BY DEF Inv, TypeOK, LocalsOK
<1>2. /\ calls' = [calls EXCEPT ![t] = @ + 1]
      /\ UNCHANGED <<cnt, hd, pos, full, havenext, assist>>
  BY DEF Call
<1>3. calls' \in [Threads -> Nat]
  BY <1>1, <1>2 DEF LocalsOK
<1> QED
  BY <1>1, <1>2, <1>3 DEF LocalsOK

(* The first steps set no more than the threshold of a pop.                *)
LEMMA WalkLocals ==
  ASSUME Inv, NEW t \in Threads, Walk(t)
  PROVE  LocalsOK'
<1> USE DEF local
<1>1. LocalsOK
  BY DEF Inv, TypeOK, LocalsOK
<1>2. CASE Current(t)
  BY <1>1, <1>2 DEF Current, LocalsOK
<1>3. CASE Use(t)
  BY <1>1, <1>3 DEF Use, LocalsOK
<1>4. CASE Leave(t)
  <2>1. size[seg[t]] \in 1..MaxSize /\ MaxSize \in Nat /\ Concurrence \in Nat
    BY <1>4, Held, Constants DEF Leave, Goto
  <2>2. size[seg[t]] \div 2 \in 0..MaxSize /\ size[seg[t]] \div 2 \in Int /\ Concurrence \in Int
    BY <2>1
  <2>3. Min({Concurrence, size[seg[t]] \div 2}) \in {Concurrence, size[seg[t]] \div 2}
    BY <2>2, MinOfTwo
  <2>4. Min({Concurrence, size[seg[t]] \div 2}) <= size[seg[t]] \div 2
    BY <2>2, MinOfTwo
  <2>5. Min({Concurrence, size[seg[t]] \div 2}) \in 0..MaxSize
    BY <2>1, <2>2, <2>3, <2>4
  <2> QED
    BY <1>1, <1>4, <2>5 DEF Leave, LocalsOK
<1>5. CASE Hop(t)
  BY <1>1, <1>5 DEF Hop, LocalsOK
<1>6. CASE Unhop(t)
  BY <1>1, <1>6 DEF Unhop, LocalsOK
<1> QED
  BY <1>2, <1>3, <1>4, <1>5, <1>6 DEF Walk

(* Every step of a push keeps LocalsOK.                                    *)
LEMMA PushLocals ==
  ASSUME Inv, NEW t \in Pushers, PushStep(t)
  PROVE  LocalsOK'
<1> USE DEF local
<1>1. LocalsOK /\ t \in Threads /\ 0 \in 0..MaxSize
  <2>1. LocalsOK
    BY DEF Inv, TypeOK, LocalsOK
  <2>2. t \in Threads
    BY OneRole
  <2>3. 0 \in 0..MaxSize
    BY Constants
  <2> QED
    BY <2>1, <2>2, <2>3
<1>2. CASE Push(t)
  BY <1>1, <1>2, CallLocals DEF Push
<1>3. CASE PushChase(t)
  BY <1>1, <1>3 DEF PushChase, LocalsOK
<1>4. CASE PushCount(t)
  <2>1. count[seg[t]] \in Int
    BY <1>1, <1>4, Held DEF PushCount
  <2>2. full' \in [Threads -> BOOLEAN]
    BY <1>1, <1>4 DEF PushCount, AtLeast, LocalsOK
  <2> QED
    BY <1>1, <1>4, <2>1, <2>2 DEF PushCount, LocalsOK
<1>5. CASE PushGrow(t)
  BY <1>1, <1>5 DEF PushGrow, LocalsOK
<1>6. CASE PushReserve(t)
  BY <1>1, <1>6 DEF PushReserve, LocalsOK
<1>7. CASE PushHead(t)
  <2>1. head[seg[t]] \in Slots
    BY <1>1, <1>7, Held DEF PushHead, Goto
  <2> QED
    BY <1>1, <1>7, <2>1 DEF PushHead, LocalsOK
<1>8. CASE PushScan(t)
  <2>1. /\ size[seg[t]] \in 1..MaxSize /\ pos[t] <= size[seg[t]] /\ pos[t] # size[seg[t]]
        /\ MaxSize \in Nat
    BY <1>1, <1>8, Held, Constants DEF PushScan, PushScanEnds, Inv, PosOK
  <2>2. pos[t] + 1 \in 0..MaxSize
    BY <1>1, <2>1 DEF LocalsOK
  <2>3. pos' \in [Threads -> 0..MaxSize]
    BY <1>1, <1>8, <2>2 DEF PushScan, LocalsOK
  <2> QED
    BY <1>1, <1>8, <2>3 DEF PushScan, LocalsOK
<1>9. CASE PushScanFails(t)
  <2>1. count[seg[t]] \in Int
    BY <1>1, <1>9, Held DEF PushScanFails
  <2>2. full' \in [Threads -> BOOLEAN]
    BY <1>1, <1>9 DEF PushScanFails, AtLeast, LocalsOK
  <2> QED
    BY <1>1, <1>9, <2>1, <2>2 DEF PushScanFails, LocalsOK
<1>10. CASE PushAdded(t)
  BY <1>1, <1>10 DEF PushAdded, LocalsOK
<1>11. CASE PushUnreserve(t)
  BY <1>1, <1>11 DEF PushUnreserve, LocalsOK
<1>12. CASE PushDone(t)
  BY <1>1, <1>12, ReturnLocals DEF PushDone
<1> QED
  BY <1>2, <1>3, <1>4, <1>5, <1>6, <1>7, <1>8, <1>9, <1>10, <1>11, <1>12 DEF PushStep

(* Every step of a pop keeps LocalsOK.                                     *)
LEMMA PopLocals ==
  ASSUME Inv, NEW t \in Poppers, PopStep(t)
  PROVE  LocalsOK'
<1> USE DEF local
<1>1. LocalsOK /\ t \in Threads /\ 0 \in 0..MaxSize
  <2>1. LocalsOK
    BY DEF Inv, TypeOK, LocalsOK
  <2>2. t \in Threads
    BY OneRole
  <2>3. 0 \in 0..MaxSize
    BY Constants
  <2> QED
    BY <2>1, <2>2, <2>3
<1>2. CASE Pop(t)
  BY <1>1, <1>2, CallLocals DEF Pop
<1>3. CASE PopCount(t)
  <2>1. count[seg[t]] \in Int
    BY <1>1, <1>3, Held DEF PopCount, Goto
  <2> QED
    BY <1>1, <1>3, <2>1 DEF PopCount, LocalsOK
<1>4. CASE PopHead(t)
  <2>1. head[seg[t]] \in Slots
    BY <1>1, <1>4, Held DEF PopHead, Goto
  <2> QED
    BY <1>1, <1>4, <2>1 DEF PopHead, LocalsOK
<1>5. CASE PopNext(t)
  BY <1>1, <1>5 DEF PopNext, LocalsOK
<1>6. CASE PopFlag(t)
  <2>1. havenext' \in [Threads -> BOOLEAN]
    BY <1>1, <1>6 DEF PopFlag, HasNext, LocalsOK
  <2> QED
    BY <1>1, <1>6, <2>1 DEF PopFlag, LocalsOK
<1>7. CASE PopLoad(t) \/ PopTake(t)
  <2>1. size[seg[t]] \in 1..MaxSize /\ MaxSize \in Nat /\ (pc[t] = "take" => pos[t] < size[seg[t]])
    BY <1>1, <1>7, Held, Constants DEF PopLoad, PopTake, Inv, PosOK
  <2>2. pos[t] < size[seg[t]] => pos[t] + 1 \in 0..MaxSize
    BY <1>1, <2>1 DEF LocalsOK
  <2>3. pos' \in [Threads -> 0..MaxSize]
    BY <1>1, <1>7, <2>1, <2>2 DEF PopLoad, PopTake, LocalsOK
  <2> QED
    BY <1>1, <1>7, <2>3 DEF PopLoad, PopTake, LocalsOK
<1>8. CASE PopTaken(t)
  BY <1>1, <1>8 DEF PopTaken, LocalsOK
<1>9. CASE PopAdvance(t)
  BY <1>1, <1>9 DEF PopAdvance, LocalsOK
<1>10. CASE PopDone(t)
  BY <1>1, <1>10, ReturnLocals DEF PopDone
<1> QED
  BY <1>2, <1>3, <1>4, <1>5, <1>6, <1>7, <1>8, <1>9, <1>10 DEF PopStep

(* Every step keeps LocalsOK.                                              *)
LEMMA StepLocals ==
  ASSUME Inv, Next
  PROVE  LocalsOK'
<1>1. CASE CollectStep
  <2>1. UNCHANGED <<cnt, hd, pos, full, havenext, assist, calls>>
    BY <1>1, CollectFrame DEF local
  <2> QED
    BY <2>1 DEF Inv, TypeOK, LocalsOK
<1> QED
  BY <1>1, WalkLocals, PushLocals, PopLocals DEF Next

(* Who writes what: all but the calls themselves.                          *)
LEMMA PushWrites ==
  ASSUME NEW t, PushStep(t)
  PROVE  /\ UNCHANGED <<head, popped, gcvars>>
         /\ PushScan(t) \/ UNCHANGED buffer
         /\ PushAdded(t) \/ UNCHANGED count
         /\ Push(t) \/ PushScan(t) \/ PushDone(t) \/ UNCHANGED val
         /\ PushHead(t) \/ PushScan(t) \/ PushDone(t) \/ UNCHANGED pos
<1> USE DEF segvars, local
<1>1. CASE Push(t)
  BY <1>1 DEF Push, Call
<1>2. CASE PushChase(t)
  BY <1>2 DEF PushChase
<1>3. CASE PushCount(t)
  BY <1>3 DEF PushCount
<1>4. CASE PushGrow(t)
  BY <1>4 DEF PushGrow
<1>5. CASE PushReserve(t)
  BY <1>5 DEF PushReserve
<1>6. CASE PushHead(t)
  BY <1>6 DEF PushHead
<1>7. CASE PushScan(t)
  BY <1>7 DEF PushScan
<1>8. CASE PushScanFails(t)
  BY <1>8 DEF PushScanFails
<1>9. CASE PushAdded(t)
  BY <1>9 DEF PushAdded
<1>10. CASE PushUnreserve(t)
  BY <1>10 DEF PushUnreserve
<1>11. CASE PushDone(t)
  BY <1>11 DEF PushDone, Return
<1> QED
  BY <1>1, <1>2, <1>3, <1>4, <1>5, <1>6, <1>7, <1>8, <1>9, <1>10, <1>11 DEF PushStep

(* The same of a pop.                                                      *)
LEMMA PopWrites ==
  ASSUME NEW t, PopStep(t)
  PROVE  /\ UNCHANGED <<nseg, size, gcvars>>
         /\ PopAdvance(t) \/ UNCHANGED head
         /\ PopTake(t) \/ UNCHANGED <<buffer, popped>>
         /\ PopTaken(t) \/ UNCHANGED count
         /\ PopLoad(t) \/ PopTake(t) \/ PopDone(t) \/ UNCHANGED val
         /\ PopHead(t) \/ PopLoad(t) \/ PopTake(t) \/ PopDone(t) \/ UNCHANGED pos
<1> USE DEF segvars, local
<1>1. CASE Pop(t)
  BY <1>1 DEF Pop, Call
<1>2. CASE PopCount(t)
  BY <1>2 DEF PopCount
<1>3. CASE PopHead(t)
  BY <1>3 DEF PopHead
<1>4. CASE PopNext(t)
  BY <1>4 DEF PopNext
<1>5. CASE PopFlag(t)
  BY <1>5 DEF PopFlag
<1>6. CASE PopLoad(t)
  BY <1>6 DEF PopLoad
<1>7. CASE PopTake(t)
  BY <1>7 DEF PopTake
<1>8. CASE PopTaken(t)
  BY <1>8 DEF PopTaken
<1>9. CASE PopAdvance(t)
  BY <1>9 DEF PopAdvance
<1>10. CASE PopDone(t)
  BY <1>10 DEF PopDone, Return
<1> QED
  BY <1>1, <1>2, <1>3, <1>4, <1>5, <1>6, <1>7, <1>8, <1>9, <1>10 DEF PopStep

(* The same of the steps that get and change segments.                     *)
LEMMA WalkWrites ==
  ASSUME NEW t, Walk(t)
  PROVE  UNCHANGED <<nseg, size, head, buffer, count, val, pos, popped, gcvars>>
<1> USE DEF segvars, local
<1>1. CASE Current(t)
  BY <1>1 DEF Current
<1>2. CASE Use(t)
  BY <1>2 DEF Use
<1>3. CASE Leave(t)
  BY <1>3 DEF Leave
<1>4. CASE Hop(t)
  BY <1>4 DEF Hop
<1>5. CASE Unhop(t)
  BY <1>5 DEF Unhop
<1> QED
  BY <1>1, <1>2, <1>3, <1>4, <1>5 DEF Walk
----------------------------------------------------------------------------

(* The sizes that a new segment can have.                                  *)
LEMMA NewSizes ==
  ASSUME Inv, NEW n \in 1..MaxSize
  PROVE  GrowSize(n) \in 1..MaxSize /\ ShrinkSize(n) \in 1..MaxSize
<1>1. MaxSize \in Nat /\ n \in Nat /\ TargetSize \in 1..MaxSize
  BY Constants
<1>2. GrowSize(n) \in {2 * n, MaxSize} /\ GrowSize(n) <= MaxSize
  BY <1>1, MinOfTwo DEF GrowSize
<1>3. work.minsz \in 1..MaxSize
  BY PrQueueAssumption DEF Inv, TypeOK
<1>4. n \div 2 \in Int /\ n \div 2 <= n /\ TargetSize \in Int /\ work.minsz \in Int
  BY <1>1, <1>3
<1>5. /\ ShrinkSize(n) \in {n \div 2, TargetSize, work.minsz}
      /\ ShrinkSize(n) >= TargetSize
  BY <1>4, MaxOfThree DEF ShrinkSize
<1>6. GrowSize(n) \in 1..MaxSize
  BY <1>1, <1>2
<1>7. ShrinkSize(n) \in 1..MaxSize
  BY <1>1, <1>3, <1>4, <1>5
<1> QED
  BY <1>6, <1>7

(* A step leaves the chain alone or appends a segment of a legal size.     *)
LEMMA ChainWriters ==
  ASSUME Inv, Next
  PROVE  UNCHANGED <<nseg, size>> \/ \E n \in 1..MaxSize : Chain(nseg, n) /\ UNCHANGED head
<1> USE DEF segvars
<1>1. TypeOK /\ SegOK /\ nseg \in 1..nseg
  <2>1. TypeOK /\ SegOK
    BY DEF Inv
  <2>2. nseg \in 1..nseg
    BY <2>1, Constants DEF TypeOK, Segs
  <2> QED
    BY <2>1, <2>2
<1>2. CASE CollectStep
  <2>1. CASE CollectShrink
    <3>1. ShrinkSize(size[nseg]) \in 1..MaxSize
      BY <1>1, Sizes, NewSizes
    <3> QED
      BY <2>1, <3>1 DEF CollectShrink
  <2>2. CASE ~CollectShrink
    BY <1>2, <2>2 DEF CollectStep, Collect, CollectCount, CollectRetire, CollectNoShrink, CollectFree
  <2> QED
    BY <2>1, <2>2
<1>3. ASSUME NEW t \in Threads,
             \/ QuietStep(t) \/ Call(t) \/ Walk(t)
             \/ \E from \in {"done", "fail", "empty"} : Return(t, from)
      PROVE  UNCHANGED <<nseg, size>>
  BY <1>3 DEF QuietStep, Call, Walk, Current, Use, Leave, Hop, Unhop, Return
<1>4. ASSUME NEW t \in Pushers, PushGrow(t), ~UNCHANGED <<nseg, size>>
      PROVE  \E n \in 1..MaxSize : Chain(nseg, n) /\ UNCHANGED head
  <2>1. seg[t] \in 1..nseg
    BY <1>1, <1>4, OneRole DEF SegOK, PushGrow, Goto
  <2>2. GrowSize(size[seg[t]]) \in 1..MaxSize
    BY <2>1, Sizes, NewSizes
  <2>3. Chain(seg[t], GrowSize(size[seg[t]])) /\ UNCHANGED head
    BY <1>4 DEF PushGrow
  <2>4. seg[t] = nseg
    BY <1>1, <2>1, <2>3, ChainAppends
  <2> QED
    BY <2>2, <2>3, <2>4
<1>5. ASSUME NEW t \in Pushers, PushReserve(t) \/ PushUnreserve(t)
      PROVE  UNCHANGED <<nseg, size>>
  BY <1>5 DEF PushReserve, PushUnreserve
<1> QED
  BY <1>2, <1>3, <1>4, <1>5, Cases, Zenon

(* The part of the invariant about rings: their sizes and heads.           *)
LEMMA StepRings ==
  ASSUME Inv, Next
  PROVE  /\ size' \in [Segs -> 0..MaxSize] /\ head' \in [Segs -> Slots]
         /\ \A s \in 1..nseg : size'[s] = size[s]
         /\ \A s \in 1..nseg' : head'[s] < size'[s]
         /\ Unused'
<1>1. /\ nseg \in Nat /\ nseg <= MaxSegs /\ MaxSegs \in Nat /\ MaxSize \in Nat
      /\ size \in [Segs -> 0..MaxSize] /\ head \in [Segs -> Slots] /\ Unused
      /\ \A s \in 1..nseg : head[s] < size[s]
  BY Numbers, Constants DEF Inv, TypeOK
<1>2. CASE UNCHANGED <<nseg, size, head>>
  BY <1>1, <1>2 DEF Unused
<1>3. ASSUME NEW n \in 1..MaxSize, Chain(nseg, n), UNCHANGED head
      PROVE  /\ size' \in [Segs -> 0..MaxSize] /\ head' \in [Segs -> Slots]
             /\ \A s \in 1..nseg : size'[s] = size[s]
             /\ \A s \in 1..nseg' : head'[s] < size'[s]
             /\ Unused'
  <2>1. nseg' = nseg + 1 /\ nseg + 1 \in Segs /\ size' = [size EXCEPT ![nseg + 1] = n]
    BY <1>1, <1>3 DEF Chain, Segs
  <2>2. head[nseg + 1] = 0 /\ size'[nseg + 1] = n
    BY <1>1, <2>1 DEF Unused
  <2>3. size' \in [Segs -> 0..MaxSize]
    BY <1>1, <2>1
  <2>4. \A s \in 1..nseg : s \in Segs /\ size'[s] = size[s]
    BY <1>1, <2>1 DEF Segs
  <2>5. \A s \in 1..nseg' : head[s] < size'[s]
    BY <1>1, <2>1, <2>2, <2>4
  <2> QED
    BY <1>1, <1>3, <2>1, <2>3, <2>4, <2>5 DEF Unused, Segs
<1>4. ASSUME NEW t \in Poppers, PopAdvance(t), UNCHANGED <<nseg, size>>
      PROVE  /\ head' \in [Segs -> Slots]
             /\ \A s \in 1..nseg' : head'[s] < size'[s]
             /\ Unused'
  <2>1. t \in Threads /\ pc[t] = "advance"
    BY <1>4, OneRole DEF PopAdvance, Goto
  <2>2. seg[t] \in 1..nseg /\ seg[t] \in Segs /\ size[seg[t]] \in Nat /\ size[seg[t]] >= 1
        /\ size[seg[t]] <= MaxSize
    BY <1>1, <2>1, Sizes DEF Inv, SegOK
  <2>3. PopSlot(t) + 1 \in Int
    BY <2>1, SlotsOK
  <2>4. (PopSlot(t) + 1) % size[seg[t]] \in 0..(size[seg[t]] - 1)
    BY <2>2, <2>3, Remainder
  <2>5. PICK h \in 0..(size[seg[t]] - 1) : head' = head \/ head' = [head EXCEPT ![seg[t]] = h]
    BY <1>4, <2>4 DEF PopAdvance
  <2>6. h \in Slots
    BY <1>1, <2>2 DEF Slots
  <2>7. CASE head' = head
    BY <1>1, <1>4, <2>7 DEF Unused
  <2>8. CASE head' = [head EXCEPT ![seg[t]] = h]
    <3>1. head' \in [Segs -> Slots]
      BY <1>1, <2>6, <2>8
    <3>2. \A s \in Segs : head'[s] = IF s = seg[t] THEN h ELSE head[s]
      BY <1>1, <2>8
    <3>3. \A s \in 1..nseg : s \in Segs
      BY <1>1 DEF Segs
    <3> QED
      BY <1>1, <1>4, <2>2, <3>1, <3>2, <3>3 DEF Unused
  <2> QED
    BY <2>5, <2>7, <2>8
<1>5. \/ UNCHANGED head
      \/ \E t \in Poppers : PopAdvance(t) /\ UNCHANGED <<nseg, size>>
  BY CollectFrame, WalkWrites, PushWrites, PopWrites DEF Next
<1> QED
  BY <1>1, <1>2, <1>3, <1>4, <1>5, ChainWriters

(* A scan stays within its ring, as rings keep their size: t looks at one  *)
(* slot after the other, and the others where they did.                    *)
PosStep(t) ==
  /\ \A u \in Threads : u # t => pos'[u] = pos[u]
  /\ pc'[t] \in {"scan", "flag", "load", "take"} => seg'[t] = seg[t] /\ pos'[t] <= size[seg[t]]
  /\ pc'[t] = "take" => pos'[t] < size[seg[t]]

(* Every step of a push scans as PosStep says.                             *)
LEMMA PushPos ==
  ASSUME Inv, NEW t \in Pushers, PushStep(t)
  PROVE  PosStep(t)
<1> USE DEF local
<1>1. /\ t \in Threads /\ pc \in [Threads -> Labels] /\ pos \in [Threads -> 0..MaxSize] /\ PosOK
      /\ MaxSize \in Nat
  BY OneRole, Constants DEF Inv, TypeOK, Labels
<1>2. pc[t] \notin {"idle", "current"} => size[seg[t]] \in Nat
  BY <1>1, Held
<1>3. CASE Push(t)
  BY <1>1, <1>3 DEF Push, Call, Goto, PosStep
<1>4. CASE PushChase(t)
  BY <1>1, <1>4 DEF PushChase, Goto, PosStep
<1>5. CASE PushCount(t)
  BY <1>1, <1>5 DEF PushCount, Goto, PosStep
<1>6. CASE PushGrow(t)
  BY <1>1, <1>6 DEF PushGrow, Goto, PosStep
<1>7. CASE PushReserve(t)
  BY <1>1, <1>7 DEF PushReserve, Goto, PosStep
<1>8. CASE PushHead(t)
  BY <1>1, <1>2, <1>8 DEF PushHead, Goto, PosStep
<1>9. CASE PushScan(t)
  <2>1. UNCHANGED seg /\ pos[t] <= size[seg[t]] /\ pos[t] # size[seg[t]] /\ size[seg[t]] \in Nat
    BY <1>1, <1>2, <1>9 DEF PushScan, PushScanEnds, PosOK
  <2>2. pos' = pos \/ pos' = [pos EXCEPT ![t] = @ + 1]
    BY <1>9 DEF PushScan
  <2>3. pc'[t] \in {"scan", "added"}
    BY <1>1, <1>9 DEF PushScan, Goto
  <2> QED
    BY <1>1, <2>1, <2>2, <2>3 DEF PosStep
<1>10. CASE PushScanFails(t)
  BY <1>1, <1>10 DEF PushScanFails, Goto, PosStep
<1>11. CASE PushAdded(t)
  BY <1>1, <1>11 DEF PushAdded, Goto, PosStep
<1>12. CASE PushUnreserve(t)
  BY <1>1, <1>12 DEF PushUnreserve, Goto, PosStep
<1>13. CASE PushDone(t)
  BY <1>1, <1>13 DEF PushDone, Return, Goto, PosStep
<1> QED
  BY <1>3, <1>4, <1>5, <1>6, <1>7, <1>8, <1>9, <1>10, <1>11, <1>12, <1>13 DEF PushStep

(* Every step of a pop does, too.                                          *)
LEMMA PopPos ==
  ASSUME Inv, NEW t \in Poppers, PopStep(t)
  PROVE  PosStep(t)
<1> USE DEF local
<1>1. /\ t \in Threads /\ pc \in [Threads -> Labels] /\ pos \in [Threads -> 0..MaxSize] /\ PosOK
      /\ MaxSize \in Nat
  BY OneRole, Constants DEF Inv, TypeOK, Labels
<1>2. pc[t] \notin {"idle", "current"} => size[seg[t]] \in Nat
  BY <1>1, Held
<1>3. CASE Pop(t)
  BY <1>1, <1>3 DEF Pop, Call, Goto, PosStep
<1>4. CASE PopCount(t)
  BY <1>1, <1>4 DEF PopCount, Goto, PosStep
<1>5. CASE PopHead(t)
  BY <1>1, <1>2, <1>5 DEF PopHead, Goto, PosStep
<1>6. CASE PopNext(t)
  BY <1>1, <1>6 DEF PopNext, Goto, PosStep
<1>7. CASE PopFlag(t)
  BY <1>1, <1>7 DEF PopFlag, Goto, PosStep, PosOK
<1>8. CASE PopLoad(t)
  <2>1. UNCHANGED seg /\ pos[t] <= size[seg[t]] /\ size[seg[t]] \in Nat
    BY <1>1, <1>2, <1>8 DEF PopLoad, PosOK
  <2>2. \/ pos' = pos /\ pc'[t] \notin {"scan", "flag", "load", "take"}
        \/ pos' = pos /\ pc'[t] = "take" /\ pos[t] < size[seg[t]]
        \/ pos' = [pos EXCEPT ![t] = @ + 1] /\ pc'[t] = "load" /\ pos[t] < size[seg[t]]
    BY <1>1, <1>8 DEF PopLoad, Goto
  <2> QED
    BY <1>1, <2>1, <2>2 DEF PosStep
<1>9. CASE PopTake(t)
  <2>1. UNCHANGED seg /\ pos[t] < size[seg[t]] /\ size[seg[t]] \in Nat
    BY <1>1, <1>2, <1>9 DEF PopTake, PosOK
  <2>2. \/ pos' = pos /\ pc'[t] = "taken"
        \/ pos' = [pos EXCEPT ![t] = @ + 1] /\ pc'[t] = "load"
    BY <1>1, <1>9 DEF PopTake, Goto
  <2> QED
    BY <1>1, <2>1, <2>2 DEF PosStep
<1>10. CASE PopTaken(t)
  BY <1>1, <1>10 DEF PopTaken, Goto, PosStep
<1>11. CASE PopAdvance(t)
  BY <1>1, <1>11 DEF PopAdvance, Goto, PosStep
<1>12. CASE PopDone(t)
  BY <1>1, <1>12 DEF PopDone, Return, Goto, PosStep
<1> QED
  BY <1>3, <1>4, <1>5, <1>6, <1>7, <1>8, <1>9, <1>10, <1>11, <1>12 DEF PopStep

(* The other steps are no part of a scan.                                  *)
LEMMA WalkPos ==
  ASSUME Inv, NEW t \in Threads, Walk(t)
  PROVE  PosStep(t)
<1>1. pc \in [Threads -> Labels] /\ UNCHANGED pos
  BY WalkWrites DEF Inv, TypeOK, Labels
<1>2. pc'[t] \notin {"scan", "flag", "load", "take"}
  BY <1>1 DEF Walk, Current, Use, Leave, Hop, Unhop, Goto
<1> QED
  BY <1>1, <1>2 DEF PosStep

(* A thread's step, with all that follows from who steps.                  *)
LEMMA Steps ==
  ASSUME Inv, Next
  PROVE  \/ CollectStep
         \/ \E t \in Threads : ThreadStep(t) /\ PosStep(t)
<1>1. ASSUME NEW t \in Threads, Walk(t)
      PROVE  ThreadStep(t) /\ PosStep(t)
  BY <1>1, WalkRoute, WalkPos
<1>2. ASSUME NEW t \in Pushers, PushStep(t)
      PROVE  t \in Threads /\ ThreadStep(t) /\ PosStep(t)
  <2>1. QuietPush(t) => QuietStep(t)
    BY QuietPushIsQuiet
  <2>2. ThreadStep(t)
    BY <1>2, <2>1, OneRole, QuietRoute, ReturnRoute, PushRoute, WalkRoute
    DEF PushStep, QuietPush, Push, PushDone
  <2> QED
    BY <1>2, <2>2, OneRole, PushPos
<1>3. ASSUME NEW t \in Poppers, PopStep(t)
      PROVE  t \in Threads /\ ThreadStep(t) /\ PosStep(t)
  <2>1. QuietPop(t) => QuietStep(t)
    BY QuietPopIsQuiet
  <2>2. ThreadStep(t)
    BY <1>3, <2>1, OneRole, QuietRoute, ReturnRoute, WalkRoute
    DEF PopStep, QuietPop, Pop, PopDone
  <2> QED
    BY <1>3, <2>2, OneRole, PopPos
<1> QED
  BY <1>1, <1>2, <1>3 DEF Next

(* Every step keeps PosOK.                                                 *)
LEMMA StepPosOK ==
  ASSUME Inv, Next
  PROVE  PosOK'
<1>1. PosOK /\ SegOK
  BY DEF Inv
<1>2. \A s \in 1..nseg : size'[s] = size[s]
  BY StepRings
<1>3. CASE CollectStep
  <2>1. UNCHANGED <<pc, pos, seg>>
    BY <1>3, CollectFrame DEF local
  <2> QED
    BY <1>1, <1>2, <2>1 DEF PosOK, SegOK
<1>4. ASSUME NEW t \in Threads, ThreadStep(t), PosStep(t)
      PROVE  PosOK'
  <2>1. \A u \in Threads : pc[u] \in {"scan", "flag", "load", "take"} => seg[u] \in 1..nseg
    BY <1>1 DEF SegOK
  <2>2. ASSUME NEW u \in Threads, u # t
        PROVE  pc'[u] = pc[u] /\ seg'[u] = seg[u] /\ pos'[u] = pos[u]
    BY <1>4, <2>2 DEF ThreadStep, OthersStay, PosStep
  <2>3. pc'[t] \in {"scan", "flag", "load", "take"} => seg[t] \in 1..nseg
    BY <1>1, <1>4 DEF ThreadStep, Route, SegOK
  <2> QED
    BY <1>1, <1>2, <1>4, <2>1, <2>2, <2>3 DEF PosOK, PosStep
<1> QED
  BY <1>3, <1>4, Steps
----------------------------------------------------------------------------

(* The part of the invariant about values: those in the slots, those that  *)
(* a call has, and those that were popped.                                 *)
DataOK ==
  /\ buffer \in [Segs -> [Slots -> Values \union {Null}]]
  /\ val \in [Threads -> Values \union {Null}]
  /\ popped \in [Poppers -> Seq(Values)]
  /\ count \in [Segs -> Int]

(* Every step of a push keeps DataOK and ValOK.                            *)
LEMMA PushData ==
  ASSUME Inv, NEW t \in Pushers, PushStep(t)
  PROVE  DataOK' /\ ValOK'
<1>1. DataOK /\ ValOK /\ t \in Threads /\ t \notin Poppers /\ pc \in [Threads -> Labels]
  BY OneRole DEF Inv, TypeOK, DataOK, Labels
<1>2. UNCHANGED popped
  BY PushWrites
<1>3. /\ Null \notin Values
      /\ \A u \in Pushers : u \in Threads /\ u \notin Poppers
      /\ \A u \in Poppers : u \in Threads /\ u \notin Pushers
  BY OneRole, PrQueueAssumption
<1>4. CASE Push(t)
  <2>1. work.push[t] \in Seq(Values) /\ calls[t] \in Nat /\ calls[t] < Len(work.push[t])
    BY <1>1, <1>4, PrQueueAssumption DEF Push, Inv, TypeOK
  <2>2. work.push[t][calls[t] + 1] \in Values
    BY <2>1
  <2>3. UNCHANGED <<buffer, count>> /\ Goto(t, "idle", "current")
    BY <1>4 DEF Push, Call, segvars
  <2>4. val' = [val EXCEPT ![t] = work.push[t][calls[t] + 1]]
    BY <1>4 DEF Push
  <2>5. DataOK'
    BY <1>1, <1>2, <2>2, <2>3, <2>4 DEF DataOK
  <2>6. ValOK'
    BY <1>1, <1>3, <2>2, <2>3, <2>4 DEF ValOK, DataOK, Goto
  <2> QED
    BY <2>5, <2>6
<1>5. CASE PushScan(t)
  <2>1. pc[t] = "scan" /\ val[t] # Null /\ UNCHANGED count
    BY <1>1, <1>5 DEF PushScan, ValOK
  <2>2. Slot(t) \in Slots /\ seg[t] \in Segs
    BY <1>1, <2>1, SlotsOK, Held
  <2>3. CASE UNCHANGED <<buffer, val, pc>>
    BY <1>1, <1>2, <2>1, <2>3 DEF DataOK, ValOK
  <2>4. CASE /\ buffer' = [buffer EXCEPT ![seg[t]][Slot(t)] = val[t]]
             /\ val' = [val EXCEPT ![t] = Null]
             /\ Goto(t, "scan", "added")
    <3>1. DataOK'
      BY <1>1, <1>2, <2>1, <2>2, <2>4 DEF DataOK
    <3>2. ValOK'
      BY <1>1, <1>3, <2>4 DEF ValOK, DataOK, Goto
    <3> QED
      BY <3>1, <3>2
  <2> QED
    BY <1>5, <2>3, <2>4 DEF PushScan
<1>6. CASE PushAdded(t)
  <2>1. /\ count' = [count EXCEPT ![seg[t]] = @ + 1] /\ UNCHANGED <<buffer, val>>
        /\ Goto(t, "added", "unreserve")
    BY <1>6 DEF PushAdded, local
  <2>2. DataOK'
    <3>1. count[seg[t]] + 1 \in Int
      BY <1>1, <2>1, Held DEF Goto
    <3>2. count' \in [Segs -> Int]
      BY <1>1, <2>1, <3>1 DEF DataOK
    <3> QED
      BY <1>1, <1>2, <2>1, <3>2 DEF DataOK
  <2>3. ValOK'
    BY <1>1, <1>3, <2>1 DEF ValOK, Goto
  <2> QED
    BY <2>2, <2>3
<1>7. CASE PushDone(t)
  <2>1. val' = [val EXCEPT ![t] = Null] /\ UNCHANGED <<buffer, count>> /\ pc' = [pc EXCEPT ![t] = "idle"]
    BY <1>7 DEF PushDone, Return, Goto
  <2>2. DataOK'
    BY <1>1, <1>2, <2>1 DEF DataOK
  <2>3. ValOK'
    BY <1>1, <1>3, <2>1 DEF ValOK, DataOK
  <2> QED
    BY <2>2, <2>3
<1>8. CASE \/ PushChase(t) \/ PushCount(t) \/ PushGrow(t) \/ PushReserve(t) \/ PushHead(t)
           \/ PushScanFails(t) \/ PushUnreserve(t)
  <2>1. UNCHANGED <<buffer, val, count>>
    BY <1>8 DEF PushChase, PushCount, PushGrow, PushReserve, PushHead, PushScanFails,
                PushUnreserve, local, segvars
  <2>2. PICK to : pc' = [pc EXCEPT ![t] = to]
    BY <1>8 DEF PushChase, PushCount, PushGrow, PushReserve, PushHead, PushScanFails,
                PushUnreserve, Goto
  <2>3. pc[t] \notin {"idle", "added", "unreserve", "done"} \/ to = "done"
    BY <1>1, <1>8, <2>2 DEF PushChase, PushCount, PushGrow, PushReserve, PushHead, PushScanFails,
                PushUnreserve, Goto
  <2>4. DataOK'
    BY <1>1, <1>2, <2>1 DEF DataOK
  <2>5. ValOK'
    BY <1>1, <1>3, <2>1, <2>2, <2>3 DEF ValOK
  <2> QED
    BY <2>4, <2>5
<1> QED
  BY <1>4, <1>5, <1>6, <1>7, <1>8 DEF PushStep

(* Every step of a pop does, too.                                          *)
LEMMA PopData ==
  ASSUME Inv, NEW t \in Poppers, PopStep(t)
  PROVE  DataOK' /\ ValOK'
<1>1. DataOK /\ ValOK /\ t \in Threads /\ t \notin Pushers /\ pc \in [Threads -> Labels]
  BY OneRole DEF Inv, TypeOK, DataOK, Labels
<1>2. /\ Null \notin Values
      /\ \A u \in Pushers : u \in Threads /\ u \notin Poppers
      /\ \A u \in Poppers : u \in Threads /\ u \notin Pushers
  BY OneRole, PrQueueAssumption
<1>3. CASE PopLoad(t)
  <2>1. pc[t] = "load" /\ UNCHANGED <<buffer, count, popped>>
    BY <1>3 DEF PopLoad, segvars
  <2>2. PopSlot(t) \in Slots /\ seg[t] \in Segs
    BY <1>1, <2>1, SlotsOK, Held
  <2>3. CASE UNCHANGED val /\ (UNCHANGED pc \/ Goto(t, "load", "next"))
    <3>1. DataOK'
      BY <1>1, <2>1, <2>3 DEF DataOK
    <3>2. ValOK'
      BY <1>1, <1>2, <2>3 DEF ValOK, Goto
    <3> QED
      BY <3>1, <3>2
  <2>4. CASE /\ buffer[seg[t]][PopSlot(t)] # Null /\ Goto(t, "load", "take")
             /\ val' = [val EXCEPT ![t] = buffer[seg[t]][PopSlot(t)]]
    <3>1. buffer[seg[t]][PopSlot(t)] \in Values
      BY <1>1, <2>2, <2>4 DEF DataOK
    <3>2. DataOK'
      BY <1>1, <2>1, <2>4, <3>1 DEF DataOK
    <3>3. ValOK'
      BY <1>1, <1>2, <2>4 DEF ValOK, DataOK, Goto
    <3> QED
      BY <3>2, <3>3
  <2> QED
    BY <1>3, <2>3, <2>4 DEF PopLoad
<1>4. CASE PopTake(t)
  <2>1. pc[t] = "take" /\ val[t] \in Values /\ val' = [val EXCEPT ![t] = Null] /\ UNCHANGED count
    BY <1>1, <1>4 DEF PopTake, ValOK, DataOK
  <2>2. PopSlot(t) \in Slots /\ seg[t] \in Segs
    BY <1>1, <2>1, SlotsOK, Held
  <2>3. PICK to \in {"taken", "load"} : Goto(t, "take", to)
    BY <1>4 DEF PopTake
  <2>4. ValOK'
    BY <1>1, <1>2, <2>1, <2>3 DEF ValOK, DataOK, Goto
  <2>5. CASE UNCHANGED <<buffer, popped>>
    BY <1>1, <2>1, <2>4, <2>5 DEF DataOK
  <2>6. CASE /\ buffer' = [buffer EXCEPT ![seg[t]][PopSlot(t)] = Null]
             /\ popped' = [popped EXCEPT ![t] = Append(@, val[t])]
    <3>1. popped' \in [Poppers -> Seq(Values)]
      BY <1>1, <2>1, <2>6 DEF DataOK
    <3>2. buffer' \in [Segs -> [Slots -> Values \union {Null}]]
      BY <1>1, <2>2, <2>6 DEF DataOK
    <3> QED
      BY <1>1, <2>1, <2>4, <3>1, <3>2 DEF DataOK
  <2> QED
    BY <1>4, <2>5, <2>6 DEF PopTake
<1>5. CASE PopTaken(t)
  <2>1. /\ count' = [count EXCEPT ![seg[t]] = @ - 1] /\ UNCHANGED <<buffer, val, popped>>
        /\ Goto(t, "taken", "advance")
    BY <1>5 DEF PopTaken, local
  <2>2. DataOK'
    <3>1. count[seg[t]] - 1 \in Int
      BY <1>1, <2>1, Held DEF Goto
    <3>2. count' \in [Segs -> Int]
      BY <1>1, <2>1, <3>1 DEF DataOK
    <3> QED
      BY <1>1, <2>1, <3>2 DEF DataOK
  <2>3. ValOK'
    BY <1>1, <1>2, <2>1 DEF ValOK, Goto
  <2> QED
    BY <2>2, <2>3
<1>6. CASE PopDone(t)
  <2>1. /\ val' = [val EXCEPT ![t] = Null] /\ UNCHANGED <<buffer, count, popped>>
        /\ pc' = [pc EXCEPT ![t] = "idle"]
    BY <1>6 DEF PopDone, Return, Goto
  <2>2. DataOK'
    BY <1>1, <2>1 DEF DataOK
  <2>3. ValOK'
    BY <1>1, <1>2, <2>1 DEF ValOK, DataOK
  <2> QED
    BY <2>2, <2>3
<1>7. CASE Pop(t) \/ PopCount(t) \/ PopHead(t) \/ PopNext(t) \/ PopFlag(t) \/ PopAdvance(t)
  <2>1. UNCHANGED <<buffer, val, count, popped>>
    BY <1>7 DEF Pop, Call, PopCount, PopHead, PopNext, PopFlag, PopAdvance, local, segvars
  <2>2. PICK to \in Labels : pc' = [pc EXCEPT ![t] = to] /\ to # "take"
    BY <1>7 DEF Pop, Call, PopCount, PopHead, PopNext, PopFlag, PopAdvance, Goto,
                Labels, PopLabels, WalkLabels
  <2>3. DataOK'
    BY <1>1, <2>1 DEF DataOK
  <2>4. ValOK'
    BY <1>1, <1>2, <2>1, <2>2 DEF ValOK
  <2> QED
    BY <2>3, <2>4
<1> QED
  BY <1>3, <1>4, <1>5, <1>6, <1>7 DEF PopStep

(* Every step keeps DataOK and ValOK.                                      *)
LEMMA StepData ==
  ASSUME Inv, Next
  PROVE  DataOK' /\ ValOK'
<1>1. DataOK /\ ValOK
  BY DEF Inv, TypeOK, DataOK
<1>2. CASE CollectStep
  <2>1. UNCHANGED <<buffer, val, popped, count, pc>>
    BY <1>2, CollectFrame DEF local
  <2> QED
    BY <1>1, <2>1 DEF DataOK, ValOK
<1>3. ASSUME NEW t \in Threads, Walk(t)
      PROVE  DataOK' /\ ValOK'
  <2>1. UNCHANGED <<buffer, val, popped, count>>
    BY <1>3, WalkWrites
  <2>2. ThreadStep(t)
    BY <1>3, WalkRoute
  <2>3. pc[t] \in WalkLabels \ {"idle"} /\ pc'[t] # "take"
    BY <1>3 DEF Walk, Current, Use, Leave, Hop, Unhop, Goto, WalkLabels, Inv, TypeOK
  <2>4. DataOK'
    BY <1>1, <2>1 DEF DataOK
  <2>5. ValOK'
    BY <1>1, <2>1, <2>2, <2>3, OneRole DEF ValOK, ThreadStep, OthersStay, WalkLabels
  <2> QED
    BY <2>4, <2>5
<1> QED
  BY <1>2, <1>3, PushData, PopData DEF Next
----------------------------------------------------------------------------

(* A step that neither fills nor empties a slot and only finishes the push *)
(* it belongs to, or goes on with it, keeps the values in their places.    *)
LEMMA MovesOn ==
  ASSUME Inv, NEW t \in Threads, UNCHANGED <<buffer, popped, work>>,
         \A u \in Pushers : calls'[u] = calls[u],
         \A u \in Pushers : u # t => pc'[u] = pc[u] /\ val'[u] = val[u],
         t \in Pushers => pc'[t] \in Delivered \/ (pc[t] \notin Delivered /\ val'[t] = val[t])
  PROVE  Carries' /\ AllOnce'
<1>1. Carries /\ AllOnce
  BY DEF Inv
<1>2. Carries'
  BY <1>1 DEF Carries
<1>3. \A u, i : Due(u, i)' => Due(u, i)
  BY DEF Due
<1>4. \A v : (Once(v)' <=> Once(v)) /\ (Placed(v)' <=> Placed(v))
  BY DEF Once, Placed, InSlot, IsGot
<1>5. DistinctPushes' <=> DistinctPushes
  BY DEF DistinctPushes
<1>6. AllOnce'
  BY <1>1, <1>3, <1>4, <1>5 DEF AllOnce
<1> QED
  BY <1>2, <1>6

(* A call to prqPush takes up the next value, which had yet to be placed.  *)
LEMMA PushOnce ==
  ASSUME Inv, NEW t \in Pushers, Push(t)
  PROVE  Carries' /\ AllOnce'
<1>1. Carries /\ AllOnce /\ t \in Threads /\ (\A u \in Pushers : u \in Threads)
  BY OneRole DEF Inv
<1>2. /\ calls[t] \in Nat /\ calls[t] < Len(work.push[t]) /\ work.push[t] \in Seq(Values)
      /\ calls \in [Threads -> Nat] /\ val \in [Threads -> Values \union {Null}]
      /\ pc \in [Threads -> Labels]
  BY <1>1, PrQueueAssumption DEF Push, Inv, TypeOK, Labels
<1>3. /\ UNCHANGED <<buffer, popped, work>>
      /\ calls' = [calls EXCEPT ![t] = @ + 1]
      /\ val' = [val EXCEPT ![t] = work.push[t][calls[t] + 1]]
      /\ pc[t] = "idle" /\ pc' = [pc EXCEPT ![t] = "current"]
  BY DEF Push, Call, Goto, segvars, gcvars
<1>4. calls[t] + 1 \in DOMAIN work.push[t]
  BY <1>2
<1>5. Carries'
  <2>1. \A u \in Pushers : u # t => calls'[u] = calls[u] /\ val'[u] = val[u] /\ pc'[u] = pc[u]
    BY <1>1, <1>2, <1>3
  <2>2. calls'[t] = calls[t] + 1 /\ val'[t] = work.push[t][calls[t] + 1]
    BY <1>1, <1>2, <1>3
  <2> QED
    BY <1>1, <1>3, <1>4, <2>1, <2>2 DEF Carries
<1>6. ASSUME NEW u, NEW i, Due(u, i)' PROVE Due(u, i)
  <2>1. u \in Pushers /\ u \in Threads /\ i \in DOMAIN work.push[u] /\ i \in Nat /\ calls[u] \in Nat
    <3>1. u \in Pushers /\ i \in DOMAIN work.push[u]
      BY <1>3, <1>6 DEF Due
    <3>2. work.push[u] \in Seq(Values)
      BY <3>1, PrQueueAssumption DEF Inv, TypeOK
    <3> QED
      BY <1>1, <1>2, <3>1, <3>2
  <2>2. CASE u = t
    BY <1>1, <1>2, <1>3, <1>6, <2>1, <2>2 DEF Due
  <2>3. CASE u # t
    BY <1>1, <1>2, <1>3, <1>6, <2>1, <2>3 DEF Due
  <2> QED
    BY <2>2, <2>3
<1>7. \A v : (Once(v)' <=> Once(v)) /\ (Placed(v)' <=> Placed(v))
  BY <1>3 DEF Once, Placed, InSlot, IsGot
<1>8. DistinctPushes' <=> DistinctPushes
  BY <1>3 DEF DistinctPushes
<1>9. AllOnce'
  BY <1>1, <1>3, <1>6, <1>7, <1>8 DEF AllOnce
<1> QED
  BY <1>5, <1>9

(* A push puts its value into a free slot: it was nowhere before.          *)
LEMMA ScanOnce ==
  ASSUME Inv, NEW t \in Pushers, PushScan(t)
  PROVE  Carries' /\ AllOnce'
<1>1. Carries /\ AllOnce /\ t \in Threads /\ (\A u \in Pushers : u \in Threads)
  BY OneRole DEF Inv
<1>2. /\ pc[t] = "scan" /\ UNCHANGED <<popped, work, calls>>
      /\ val \in [Threads -> Values \union {Null}] /\ pc \in [Threads -> Labels]
      /\ buffer \in [Segs -> [Slots -> Values \union {Null}]]
  BY DEF PushScan, gcvars, Inv, TypeOK, Labels
<1>3. CASE UNCHANGED <<buffer, val, pc>>
  BY <1>1, <1>2, <1>3, MovesOn DEF Delivered
<1>4. CASE /\ buffer[seg[t]][Slot(t)] = Null
           /\ buffer' = [buffer EXCEPT ![seg[t]][Slot(t)] = val[t]]
           /\ val' = [val EXCEPT ![t] = Null]
           /\ Goto(t, "scan", "added")
  <2>1. Slot(t) \in Slots /\ seg[t] \in Segs
    BY <1>1, <1>2, SlotsOK, Held
  <2>2. \A u \in Pushers : u # t => val'[u] = val[u] /\ pc'[u] = pc[u]
    BY <1>1, <1>2, <1>4 DEF Goto
  <2>3. pc'[t] = "added"
    BY <1>1, <1>2, <1>4 DEF Goto
  <2>4. Carries'
    BY <1>1, <1>2, <2>2, <2>3 DEF Carries, Delivered
  <2>5. /\ calls[t] \in DOMAIN work.push[t] /\ val[t] = work.push[t][calls[t]]
        /\ Due(t, calls[t])
    BY <1>1, <1>2 DEF Carries, Delivered, Due
  <2>6. val[t] # Null /\ Null \notin Values
    BY <1>2, PrQueueAssumption DEF Inv, ValOK
  <2>7. ASSUME NEW s, NEW i, NEW v, v # Null
        PROVE  InSlot(s, i, v)' <=> InSlot(s, i, v) \/ (s = seg[t] /\ i = Slot(t) /\ v = val[t])
    BY <1>2, <1>4, <2>1, <2>7 DEF InSlot
  <2>8. \A u, i, v : IsGot(u, i, v)' <=> IsGot(u, i, v)
    BY <1>2 DEF IsGot
  <2>9. ASSUME DistinctPushes PROVE \A v \in Values : Once(v)'
    <3>1. ~Placed(val[t])
      BY <1>1, <2>5, <2>9 DEF AllOnce
    <3>2. ASSUME NEW v \in Values PROVE Once(v)'
      <4>1. Once(v) /\ v # Null
        BY <1>1, <2>6, <2>9 DEF AllOnce
      <4>2. \A s, i : InSlot(s, i, v)' <=> InSlot(s, i, v) \/ (s = seg[t] /\ i = Slot(t) /\ v = val[t])
        BY <2>7, <4>1
      <4>3. CASE v = val[t]
        BY <2>8, <3>1, <4>2, <4>3 DEF Once, Placed
      <4>4. CASE v # val[t]
        BY <2>8, <4>1, <4>2, <4>4 DEF Once
      <4> QED
        BY <4>3, <4>4
    <3> QED
      BY <3>2
  <2>10. ASSUME DistinctPushes, NEW u, NEW i, Due(u, i)' PROVE ~Placed(work.push[u][i])'
    <3>1. u \in Pushers /\ i \in DOMAIN work.push[u]
      BY <1>2, <2>10 DEF Due
    <3>2. Due(u, i) /\ ~(u = t /\ i = calls[t])
      <4>1. CASE u = t
        <5>1. i > calls[t]
          BY <1>2, <2>3, <2>10, <4>1 DEF Due, Delivered
        <5>2. i \in Nat /\ calls[t] \in Nat
          <6>1. work.push[t] \in Seq(Values)
            BY PrQueueAssumption DEF Inv, TypeOK
          <6> QED
            BY <2>5, <3>1, <4>1, <6>1
        <5> QED
          BY <3>1, <4>1, <5>1, <5>2 DEF Due
      <4>2. CASE u # t
        BY <1>2, <2>2, <2>10, <3>1, <4>2 DEF Due
      <4> QED
        BY <4>1, <4>2
    <3>3. work.push[u][i] # val[t]
      BY <2>5, <2>10, <3>1, <3>2 DEF DistinctPushes
    <3>4. work.push[u][i] # Null
      <4>1. work.push[u] \in Seq(Values)
        BY <3>1, PrQueueAssumption DEF Inv, TypeOK
      <4> QED
        BY <2>6, <3>1, <4>1
    <3>5. ~Placed(work.push[u][i])
      BY <1>1, <2>10, <3>2 DEF AllOnce
    <3> DEFINE v == work.push[u][i]
    <3>6. ASSUME NEW w, w # Null, w # val[t], ~Placed(w) PROVE ~Placed(w)'
      <4>1. \A s, j : ~InSlot(s, j, w)'
        BY <2>7, <3>6 DEF Placed
      <4>2. \A p, j : ~IsGot(p, j, w)'
        BY <2>8, <3>6 DEF Placed
      <4> QED
        BY <4>1, <4>2 DEF Placed
    <3>7. ~Placed(v)'
      <4>1. v' = v
        BY <1>2
      <4> QED
        BY <3>3, <3>4, <3>5, <3>6, <4>1
    <3> QED
      BY <3>7
  <2>11. DistinctPushes' <=> DistinctPushes
    BY <1>2 DEF DistinctPushes
  <2>12. AllOnce'
    BY <2>9, <2>10, <2>11 DEF AllOnce
  <2> QED
    BY <2>4, <2>12
<1> QED
  BY <1>2, <1>3, <1>4 DEF PushScan

(* A pop takes what it has seen in the slot only if it is still there.     *)
LEMMA TakeOnce ==
  ASSUME Inv, NEW t \in Poppers, PopTake(t)
  PROVE  Carries' /\ AllOnce'
<1>1. /\ Carries /\ AllOnce /\ t \in Threads /\ t \notin Pushers
      /\ (\A u \in Pushers : u \in Threads /\ u # t)
  BY OneRole DEF Inv
<1>2. /\ pc[t] = "take" /\ UNCHANGED <<work, calls>> /\ val' = [val EXCEPT ![t] = Null]
      /\ val \in [Threads -> Values \union {Null}] /\ pc \in [Threads -> Labels]
      /\ buffer \in [Segs -> [Slots -> Values \union {Null}]]
      /\ popped \in [Poppers -> Seq(Values)]
  BY DEF PopTake, gcvars, Inv, TypeOK, Labels
<1>3. \A u \in Pushers : val'[u] = val[u] /\ pc'[u] = pc[u]
  BY <1>1, <1>2 DEF PopTake, Goto
<1>4. CASE UNCHANGED <<buffer, popped>>
  BY <1>1, <1>2, <1>3, <1>4, MovesOn
<1>5. CASE /\ buffer[seg[t]][PopSlot(t)] = val[t]
           /\ buffer' = [buffer EXCEPT ![seg[t]][PopSlot(t)] = Null]
           /\ popped' = [popped EXCEPT ![t] = Append(@, val[t])]
  <2>1. PopSlot(t) \in Slots /\ seg[t] \in Segs /\ val[t] \in Values /\ Null \notin Values
    BY <1>1, <1>2, SlotsOK, Held, PrQueueAssumption DEF Inv, ValOK
  <2>2. Carries'
    BY <1>1, <1>2, <1>3 DEF Carries
  <2> DEFINE n == Len(popped[t])
  <2>3. InSlot(seg[t], PopSlot(t), val[t])
    BY <1>5, <2>1 DEF InSlot
  <2>4. ASSUME NEW s, NEW i, NEW v, v # Null
        PROVE  InSlot(s, i, v)' <=> InSlot(s, i, v) /\ ~(s = seg[t] /\ i = PopSlot(t))
    BY <1>2, <1>5, <2>1, <2>4 DEF InSlot
  <2>5. ASSUME NEW u, NEW i, NEW v
        PROVE  IsGot(u, i, v)' <=> IsGot(u, i, v) \/ (u = t /\ i = n + 1 /\ v = val[t])
    <3>1. popped[t] \in Seq(Values)
      BY <1>2
    <3>2. CASE u = t
      <4>1. popped'[t] = Append(popped[t], val[t])
        BY <1>2, <1>5
      <4>2. DOMAIN popped'[t] = 1..(n + 1) /\ DOMAIN popped[t] = 1..n /\ n \in Nat
        BY <3>1, <4>1
      <4>3. \A j \in 1..(n + 1) : popped'[t][j] = IF j = n + 1 THEN val[t] ELSE popped[t][j]
        BY <3>1, <4>1
      <4> HIDE DEF n
      <4> QED
        BY <3>2, <4>2, <4>3 DEF IsGot
    <3>3. CASE u # t
      BY <1>2, <1>5, <3>3 DEF IsGot
    <3> QED
      BY <3>2, <3>3
  <2>6. ~IsGot(t, n + 1, val[t])
    BY <1>2 DEF IsGot
  <2> HIDE DEF n
  <2>7. ASSUME DistinctPushes, NEW v \in Values PROVE Once(v)'
    <3>1. Once(v) /\ v # Null
      BY <1>1, <2>1, <2>7 DEF AllOnce
    <3>2. \A s, i : InSlot(s, i, v)' <=> InSlot(s, i, v) /\ ~(s = seg[t] /\ i = PopSlot(t))
      BY <2>4, <3>1
    <3>3. CASE v = val[t]
      <4>1. \A s, i : ~InSlot(s, i, v)'
        BY <2>3, <3>1, <3>2, <3>3 DEF Once
      <4>2. \A u, i : ~IsGot(u, i, v)
        BY <2>3, <3>1, <3>3 DEF Once
      <4> QED
        BY <2>5, <4>1, <4>2 DEF Once
    <3>4. CASE v # val[t]
      BY <2>5, <3>1, <3>2, <3>4 DEF Once
    <3> QED
      BY <3>3, <3>4
  <2>8. ASSUME NEW v, v # Null, ~Placed(v) PROVE ~Placed(v)'
    <3>1. v # val[t]
      BY <2>3, <2>8 DEF Placed
    <3>2. \A s, j : ~InSlot(s, j, v)'
      BY <2>4, <2>8 DEF Placed
    <3>3. \A p, j : ~IsGot(p, j, v)'
      BY <2>5, <2>8, <3>1 DEF Placed
    <3> QED
      BY <3>2, <3>3 DEF Placed
  <2>9. ASSUME DistinctPushes, NEW u, NEW i, Due(u, i)' PROVE ~Placed(work.push[u][i])'
    <3>1. u \in Pushers /\ i \in DOMAIN work.push[u] /\ Due(u, i)
      BY <1>2, <1>3, <2>9 DEF Due
    <3>2. work.push[u][i] # Null
      <4>1. work.push[u] \in Seq(Values)
        BY <3>1, PrQueueAssumption DEF Inv, TypeOK
      <4> QED
        BY <2>1, <3>1, <4>1
    <3>3. ~Placed(work.push[u][i])
      BY <1>1, <2>9, <3>1 DEF AllOnce
    <3>4. work'.push[u][i] = work.push[u][i]
      BY <1>2
    <3> QED
      BY <2>8, <3>2, <3>3, <3>4
  <2>10. DistinctPushes' <=> DistinctPushes
    BY <1>2 DEF DistinctPushes
  <2>11. AllOnce'
    BY <2>7, <2>9, <2>10 DEF AllOnce
  <2> QED
    BY <2>2, <2>11
<1> QED
  BY <1>2, <1>4, <1>5 DEF PopTake

(* Every step leaves each value in one place at most.                      *)
LEMMA StepOnce ==
  ASSUME Inv, Next
  PROVE  Carries' /\ AllOnce'
<1>1. /\ pc \in [Threads -> Labels] /\ val \in [Threads -> Values \union {Null}]
      /\ calls \in [Threads -> Nat]
  BY DEF Inv, TypeOK, Labels
<1>2. CASE CollectStep
  <2>1. UNCHANGED <<buffer, val, popped, calls, pc, work>>
    BY <1>2, CollectFrame DEF local
  <2>2. \A v : (Once(v)' <=> Once(v)) /\ (Placed(v)' <=> Placed(v))
    BY <2>1 DEF Once, Placed, InSlot, IsGot
  <2> QED
    BY <2>1, <2>2 DEF Inv, Carries, AllOnce, Due, DistinctPushes
<1>3. ASSUME NEW t \in Threads, Walk(t)
      PROVE  Carries' /\ AllOnce'
  <2>1. UNCHANGED <<buffer, val, popped, work, calls>>
    <3>1. UNCHANGED calls
      BY <1>3 DEF Walk, Current, Use, Leave, Hop, Unhop
    <3> QED
      BY <1>3, <3>1, WalkWrites DEF gcvars
  <2>2. ThreadStep(t)
    BY <1>3, WalkRoute
  <2>3. pc[t] \notin Delivered
    BY <1>3 DEF Walk, Current, Use, Leave, Hop, Unhop, Goto, Delivered
  <2>4. \A u \in Pushers : u # t => pc'[u] = pc[u]
    BY <2>2, OneRole DEF ThreadStep, OthersStay
  <2> QED
    BY <2>1, <2>3, <2>4, MovesOn
<1>4. ASSUME NEW t \in Pushers, PushStep(t)
      PROVE  Carries' /\ AllOnce'
  <2>1. CASE Push(t)
    BY <2>1, PushOnce
  <2>2. CASE PushScan(t)
    BY <2>2, ScanOnce
  <2>3. CASE PushDone(t)
    <3>1. /\ UNCHANGED <<buffer, popped, work, calls>> /\ val' = [val EXCEPT ![t] = Null]
          /\ pc' = [pc EXCEPT ![t] = "idle"]
      BY <2>3 DEF PushDone, Return, Goto, gcvars
    <3>2. \A u \in Pushers : u # t => pc'[u] = pc[u] /\ val'[u] = val[u]
      BY <1>1, <3>1, OneRole
    <3>3. pc'[t] \in Delivered /\ t \in Threads
      BY <1>1, <3>1, OneRole DEF Delivered
    <3> QED
      BY <3>1, <3>2, <3>3, MovesOn
  <2>4. CASE \/ PushChase(t) \/ PushCount(t) \/ PushGrow(t) \/ PushReserve(t) \/ PushHead(t)
             \/ PushScanFails(t) \/ PushAdded(t) \/ PushUnreserve(t)
    <3>1. UNCHANGED <<buffer, val, popped, work, calls>>
      BY <2>4 DEF PushChase, PushCount, PushGrow, PushReserve, PushHead, PushScanFails,
                  PushAdded, PushUnreserve, local, segvars, gcvars
    <3>2. PICK to : pc' = [pc EXCEPT ![t] = to]
      BY <2>4 DEF PushChase, PushCount, PushGrow, PushReserve, PushHead, PushScanFails,
                  PushAdded, PushUnreserve, Goto
    <3>3. t \in Threads /\ pc'[t] = to /\ \A u \in Pushers : u # t => pc'[u] = pc[u]
      BY <1>1, <3>2, OneRole
    <3>4. pc[t] \notin Delivered \/ pc'[t] \in Delivered
      BY <1>1, <2>4, <3>3 DEF PushChase, PushCount, PushGrow, PushReserve, PushHead, PushScanFails,
                  PushAdded, PushUnreserve, Goto, Delivered
    <3> QED
      BY <3>1, <3>3, <3>4, MovesOn
  <2> QED
    BY <1>4, <2>1, <2>2, <2>3, <2>4 DEF PushStep
<1>5. ASSUME NEW t \in Poppers, PopStep(t)
      PROVE  Carries' /\ AllOnce'
  <2>1. CASE PopTake(t)
    BY <2>1, TakeOnce
  <2>2. CASE ~PopTake(t)
    <3>1. UNCHANGED <<buffer, popped, work>>
      BY <1>5, <2>2, PopWrites DEF gcvars
    <3>2. t \in Threads /\ t \notin Pushers /\ \A u \in Pushers : u \in Threads /\ u # t
      BY OneRole
    <3>3. \A u \in Pushers : pc'[u] = pc[u] /\ val'[u] = val[u] /\ calls'[u] = calls[u]
      <4>1. CASE Pop(t)
        BY <1>1, <3>2, <4>1 DEF Pop, Call, Goto
      <4>2. CASE PopLoad(t)
        BY <1>1, <3>2, <4>2 DEF PopLoad, Goto
      <4>3. CASE PopDone(t)
        BY <1>1, <3>2, <4>3 DEF PopDone, Return, Goto
      <4>4. CASE PopCount(t) \/ PopHead(t) \/ PopNext(t) \/ PopFlag(t) \/ PopTaken(t) \/ PopAdvance(t)
        BY <1>1, <3>2, <4>4 DEF PopCount, PopHead, PopNext, PopFlag, PopTaken, PopAdvance, Goto, local
      <4> QED
        BY <1>5, <2>2, <4>1, <4>2, <4>3, <4>4 DEF PopStep
    <3> QED
      BY <3>1, <3>2, <3>3, MovesOn
  <2> QED
    BY <2>1, <2>2
<1> QED
  BY <1>2, <1>3, <1>4, <1>5 DEF Next
----------------------------------------------------------------------------

(* The sets that CountExact counts, besides Filled.                        *)
Takers(s) == {t \in Poppers : seg[t] = s /\ pc[t] = "taken"}
Adders(s) == {t \in Pushers : seg[t] = s /\ pc[t] = "added"}

(* CountExact, said of these sets.                                         *)
LEMMA CountSets ==
  CountExact <=>
    \A s \in Segs : count[s] = Cardinality(Filled(s)) + Cardinality(Takers(s)) - Cardinality(Adders(s))
BY DEF CountExact, Takers, Adders

(* A ring is finite.                                                       *)
LEMMA SlotsFinite == IsFiniteSet(Slots)
<1>1. 0 \in Int /\ MaxSize - 1 \in Int
  BY Constants
<1> QED
  BY <1>1, FS_Interval DEF Slots

(* A step of t changes these sets by t at most.                            *)
LEMMA CountSwaps ==
  ASSUME NEW t \in Threads, OthersStay(t), NEW s \in Segs
  PROVE  /\ Swap(Takers(s), Takers(s)', t) /\ Swap(Adders(s), Adders(s)', t)
         /\ t \in Takers(s) <=> t \in Poppers /\ seg[t] = s /\ pc[t] = "taken"
         /\ t \in Takers(s)' <=> t \in Poppers /\ seg'[t] = s /\ pc'[t] = "taken"
         /\ t \in Adders(s) <=> t \in Pushers /\ seg[t] = s /\ pc[t] = "added"
         /\ t \in Adders(s)' <=> t \in Pushers /\ seg'[t] = s /\ pc'[t] = "added"
<1> USE ThreadsFinite DEF OthersStay
<1>1. Swap(Takers(s), Takers(s)', t)
  <2>1. Takers(s) \in SUBSET Threads /\ Takers(s)' \in SUBSET Threads
    BY OneRole DEF Takers
  <2>2. \A u \in Threads : u # t => (u \in Takers(s) <=> u \in Takers(s)')
    BY DEF Takers
  <2> QED
    BY <2>1, <2>2, SetSwap
<1>2. Swap(Adders(s), Adders(s)', t)
  <2>1. Adders(s) \in SUBSET Threads /\ Adders(s)' \in SUBSET Threads
    BY OneRole DEF Adders
  <2>2. \A u \in Threads : u # t => (u \in Adders(s) <=> u \in Adders(s)')
    BY DEF Adders
  <2> QED
    BY <2>1, <2>2, SetSwap
<1> QED
  BY <1>1, <1>2 DEF Takers, Adders

Written(s, i, v) == buffer' = [buffer EXCEPT ![s][i] = v]

(* A write to a slot changes the entries by that slot at most.             *)
LEMMA FilledSwaps ==
  ASSUME Inv, NEW r \in Segs, NEW i \in Slots, NEW v, Written(r, i, v), NEW s \in Segs
  PROVE  /\ Swap(Filled(s), Filled(s)', i)
         /\ i \in Filled(s) <=> buffer[s][i] # Null
         /\ i \in Filled(s)' <=> buffer'[s][i] # Null
         /\ buffer'[s][i] = IF s = r THEN v ELSE buffer[s][i]
<1>1. Filled(s) \in SUBSET Slots /\ Filled(s)' \in SUBSET Slots
  BY DEF Filled
<1>2. buffer \in [Segs -> [Slots -> Values \union {Null}]]
  BY DEF Inv, TypeOK
<1>3. \A j \in Slots : buffer'[s][j] = IF s = r /\ j = i THEN v ELSE buffer[s][j]
  BY <1>2 DEF Written
<1>4. \A j \in Slots : j # i => (j \in Filled(s) <=> j \in Filled(s)')
  BY <1>3 DEF Filled
<1> QED
  BY <1>1, <1>3, <1>4, SlotsFinite, SetSwap DEF Filled

(* A step that neither puts a value into a slot, nor takes one, nor counts *)
(* it.                                                                     *)
LEMMA QuietCount ==
  ASSUME Inv, NEW t \in Threads, OthersStay(t), UNCHANGED <<buffer, count>>,
         pc[t] \notin {"taken", "added"}, pc'[t] \notin {"taken", "added"}
  PROVE  CountExact'
<1> SUFFICES ASSUME NEW s \in Segs
             PROVE  count'[s] = Cardinality(Filled(s)') + Cardinality(Takers(s)') - Cardinality(Adders(s)')
  BY DEF CountExact, Takers, Adders
<1>1. count[s] = Cardinality(Filled(s)) + Cardinality(Takers(s)) - Cardinality(Adders(s))
  BY CountSets DEF Inv
<1>2. Filled(s)' = Filled(s)
  BY DEF Filled
<1>3. Takers(s)' = Takers(s)
  BY OneRole DEF Takers, OthersStay
<1>4. Adders(s)' = Adders(s)
  BY OneRole DEF Adders, OthersStay
<1> QED
  BY <1>1, <1>2, <1>3, <1>4

(* A push that fills a slot is to be counted ...                           *)
LEMMA FillCounts ==
  ASSUME Inv, NEW t \in Pushers, PushScan(t)
  PROVE  CountExact'
<1>1. t \in Threads /\ t \notin Poppers /\ pc[t] = "scan" /\ UNCHANGED <<seg, count>> /\ val[t] # Null
  BY OneRole DEF PushScan, Inv, ValOK
<1>2. OthersStay(t)
  BY <1>1, QuietPushIsQuiet DEF QuietPush, QuietStep, OnlyMoves, OthersStay
<1>3. CASE UNCHANGED <<buffer, pc>>
  BY <1>1, <1>2, <1>3, QuietCount
<1>4. CASE /\ buffer[seg[t]][Slot(t)] = Null /\ Goto(t, "scan", "added")
           /\ Written(seg[t], Slot(t), val[t])
  <2> SUFFICES ASSUME NEW s \in Segs
               PROVE  count'[s] = Cardinality(Filled(s)') + Cardinality(Takers(s)') - Cardinality(Adders(s)')
    BY DEF CountExact, Takers, Adders
  <2>1. count[s] = Cardinality(Filled(s)) + Cardinality(Takers(s)) - Cardinality(Adders(s))
    BY CountSets DEF Inv
  <2>2. Slot(t) \in Slots /\ seg[t] \in Segs
    BY <1>1, SlotsOK, Held
  <2>3. /\ Swap(Filled(s), Filled(s)', Slot(t))
        /\ Slot(t) \in Filled(s) <=> buffer[s][Slot(t)] # Null
        /\ Slot(t) \in Filled(s)' <=> buffer'[s][Slot(t)] # Null
        /\ buffer'[s][Slot(t)] = IF s = seg[t] THEN val[t] ELSE buffer[s][Slot(t)]
    BY <1>4, <2>2, FilledSwaps
  <2>4. pc'[t] = "added"
    BY <1>1, <1>4 DEF Goto, Inv, TypeOK
  <2>5. /\ Swap(Takers(s), Takers(s)', t) /\ Swap(Adders(s), Adders(s)', t)
        /\ t \notin Takers(s) /\ t \notin Takers(s)'
        /\ t \notin Adders(s) /\ (t \in Adders(s)' <=> seg[t] = s)
    BY <1>1, <1>2, <2>4, CountSwaps
  <2>6. CASE s = seg[t]
    <3>1. Cardinality(Filled(s)') = Cardinality(Filled(s)) + 1
      BY <1>1, <1>4, <2>3, <2>6 DEF Swap
    <3>2. /\ Cardinality(Adders(s)') = Cardinality(Adders(s)) + 1
          /\ Cardinality(Takers(s)') = Cardinality(Takers(s))
      BY <2>5, <2>6 DEF Swap
    <3> QED
      BY <1>1, <2>1, <2>3, <2>5, <3>1, <3>2 DEF Swap
  <2>7. CASE s # seg[t]
    <3>1. Cardinality(Filled(s)') = Cardinality(Filled(s))
      BY <2>3, <2>7 DEF Swap
    <3>2. /\ Cardinality(Adders(s)') = Cardinality(Adders(s))
          /\ Cardinality(Takers(s)') = Cardinality(Takers(s))
      BY <2>5, <2>7 DEF Swap
    <3> QED
      BY <1>1, <2>1, <3>1, <3>2
  <2> QED
    BY <2>6, <2>7
<1> QED
  BY <1>3, <1>4 DEF PushScan, Written

(* ... a pop that empties one is to be counted ...                         *)
LEMMA TakeCounts ==
  ASSUME Inv, NEW t \in Poppers, PopTake(t)
  PROVE  CountExact'
<1>1. t \in Threads /\ t \notin Pushers /\ pc[t] = "take" /\ UNCHANGED <<seg, count>> /\ val[t] # Null
  BY OneRole DEF PopTake, Inv, ValOK
<1>2. OthersStay(t)
  BY <1>1, QuietPopIsQuiet DEF QuietPop, QuietStep, OnlyMoves, OthersStay
<1>3. CASE UNCHANGED buffer /\ Goto(t, "take", "load")
  <2>1. pc'[t] = "load"
    BY <1>1, <1>3 DEF Goto, Inv, TypeOK
  <2>2. UNCHANGED <<buffer, count>> /\ pc[t] \notin {"taken", "added"} /\ pc'[t] \notin {"taken", "added"}
    BY <1>1, <1>3, <2>1
  <2> QED
    BY <1>1, <1>2, <2>2, QuietCount
<1>4. CASE /\ buffer[seg[t]][PopSlot(t)] = val[t] /\ Goto(t, "take", "taken")
           /\ Written(seg[t], PopSlot(t), Null)
  <2> SUFFICES ASSUME NEW s \in Segs
               PROVE  count'[s] = Cardinality(Filled(s)') + Cardinality(Takers(s)') - Cardinality(Adders(s)')
    BY DEF CountExact, Takers, Adders
  <2>1. count[s] = Cardinality(Filled(s)) + Cardinality(Takers(s)) - Cardinality(Adders(s))
    BY CountSets DEF Inv
  <2>2. PopSlot(t) \in Slots /\ seg[t] \in Segs
    BY <1>1, SlotsOK, Held
  <2>3. /\ Swap(Filled(s), Filled(s)', PopSlot(t))
        /\ PopSlot(t) \in Filled(s) <=> buffer[s][PopSlot(t)] # Null
        /\ PopSlot(t) \in Filled(s)' <=> buffer'[s][PopSlot(t)] # Null
        /\ buffer'[s][PopSlot(t)] = IF s = seg[t] THEN Null ELSE buffer[s][PopSlot(t)]
    BY <1>4, <2>2, FilledSwaps
  <2>4. pc'[t] = "taken"
    BY <1>1, <1>4 DEF Goto, Inv, TypeOK
  <2>5. /\ Swap(Takers(s), Takers(s)', t) /\ Swap(Adders(s), Adders(s)', t)
        /\ t \notin Adders(s) /\ t \notin Adders(s)'
        /\ t \notin Takers(s) /\ (t \in Takers(s)' <=> seg[t] = s)
    BY <1>1, <1>2, <2>4, CountSwaps
  <2>6. CASE s = seg[t]
    <3>1. Cardinality(Filled(s)) = Cardinality(Filled(s)') + 1
      BY <1>1, <1>4, <2>3, <2>6 DEF Swap
    <3>2. /\ Cardinality(Takers(s)') = Cardinality(Takers(s)) + 1
          /\ Cardinality(Adders(s)') = Cardinality(Adders(s))
      BY <2>5, <2>6 DEF Swap
    <3> QED
      BY <1>1, <2>1, <2>3, <2>5, <3>1, <3>2 DEF Swap
  <2>7. CASE s # seg[t]
    <3>1. Cardinality(Filled(s)') = Cardinality(Filled(s))
      BY <2>3, <2>7 DEF Swap
    <3>2. /\ Cardinality(Adders(s)') = Cardinality(Adders(s))
          /\ Cardinality(Takers(s)') = Cardinality(Takers(s))
      BY <2>5, <2>7 DEF Swap
    <3> QED
      BY <1>1, <2>1, <3>1, <3>2
  <2> QED
    BY <2>6, <2>7
<1> QED
  BY <1>3, <1>4 DEF PopTake, Written

(* ... the push counts itself ...                                          *)
LEMMA AddedCounts ==
  ASSUME Inv, NEW t \in Pushers, PushAdded(t)
  PROVE  CountExact'
<1>1. /\ t \in Threads /\ t \notin Poppers /\ pc[t] = "added" /\ UNCHANGED <<seg, buffer>>
      /\ count' = [count EXCEPT ![seg[t]] = @ + 1]
  BY OneRole DEF PushAdded, Goto, local
<1>2. OthersStay(t) /\ pc'[t] = "unreserve"
  BY <1>1, QuietPushIsQuiet DEF QuietPush, QuietStep, OnlyMoves, OthersStay, PushAdded, Goto, Inv, TypeOK
<1> SUFFICES ASSUME NEW s \in Segs
             PROVE  count'[s] = Cardinality(Filled(s)') + Cardinality(Takers(s)') - Cardinality(Adders(s)')
  BY DEF CountExact, Takers, Adders
<1>3. /\ count[s] = Cardinality(Filled(s)) + Cardinality(Takers(s)) - Cardinality(Adders(s))
      /\ count'[s] = IF s = seg[t] THEN count[s] + 1 ELSE count[s]
      /\ count[s] \in Int
  BY <1>1, CountSets DEF Inv, TypeOK
<1>4. Filled(s)' = Filled(s) /\ Cardinality(Filled(s)) \in Nat
  <2>1. Filled(s) \in SUBSET Slots
    BY DEF Filled
  <2> QED
    BY <1>1, <2>1, SlotsFinite, SetSize DEF Filled
<1>5. /\ Swap(Takers(s), Takers(s)', t) /\ Swap(Adders(s), Adders(s)', t)
      /\ t \notin Takers(s) /\ t \notin Takers(s)'
      /\ t \notin Adders(s)' /\ (t \in Adders(s) <=> seg[t] = s)
  BY <1>1, <1>2, CountSwaps
<1>6. Cardinality(Filled(s)') = Cardinality(Filled(s))
  BY <1>4
<1> QED
  BY <1>3, <1>4, <1>5, <1>6 DEF Swap

(* ... and so does the pop.                                                *)
LEMMA TakenCounts ==
  ASSUME Inv, NEW t \in Poppers, PopTaken(t)
  PROVE  CountExact'
<1>1. /\ t \in Threads /\ t \notin Pushers /\ pc[t] = "taken" /\ UNCHANGED <<seg, buffer>>
      /\ count' = [count EXCEPT ![seg[t]] = @ - 1]
  BY OneRole DEF PopTaken, Goto, local
<1>2. OthersStay(t) /\ pc'[t] = "advance"
  BY <1>1, QuietPopIsQuiet DEF QuietPop, QuietStep, OnlyMoves, OthersStay, PopTaken, Goto, Inv, TypeOK
<1> SUFFICES ASSUME NEW s \in Segs
             PROVE  count'[s] = Cardinality(Filled(s)') + Cardinality(Takers(s)') - Cardinality(Adders(s)')
  BY DEF CountExact, Takers, Adders
<1>3. /\ count[s] = Cardinality(Filled(s)) + Cardinality(Takers(s)) - Cardinality(Adders(s))
      /\ count'[s] = IF s = seg[t] THEN count[s] - 1 ELSE count[s]
      /\ count[s] \in Int
  BY <1>1, CountSets DEF Inv, TypeOK
<1>4. Filled(s)' = Filled(s) /\ Cardinality(Filled(s)) \in Nat
  <2>1. Filled(s) \in SUBSET Slots
    BY DEF Filled
  <2> QED
    BY <1>1, <2>1, SlotsFinite, SetSize DEF Filled
<1>5. /\ Swap(Takers(s), Takers(s)', t) /\ Swap(Adders(s), Adders(s)', t)
      /\ t \notin Adders(s) /\ t \notin Adders(s)'
      /\ t \notin Takers(s)' /\ (t \in Takers(s) <=> seg[t] = s)
  BY <1>1, <1>2, CountSwaps
<1>6. Cardinality(Filled(s)') = Cardinality(Filled(s))
  BY <1>4
<1> QED
  BY <1>3, <1>4, <1>5, <1>6 DEF Swap

(* Every step keeps the counts exact.                                      *)
LEMMA StepCounts ==
  ASSUME Inv, Next
  PROVE  CountExact'
<1>1. pc \in [Threads -> Labels]
  BY DEF Inv, TypeOK, Labels
<1>2. CASE CollectStep
  <2>1. UNCHANGED <<pc, seg, count, buffer>>
    BY <1>2, CollectFrame
  <2> QED
    BY <2>1 DEF Inv, CountExact, Filled
<1>3. ASSUME NEW t \in Threads, Walk(t)
      PROVE  CountExact'
  <2>1. UNCHANGED <<buffer, count>> /\ OthersStay(t)
    BY <1>3, WalkWrites, WalkRoute DEF ThreadStep
  <2>2. pc[t] \notin {"taken", "added"} /\ pc'[t] \notin {"taken", "added"}
    BY <1>1, <1>3 DEF Walk, Current, Use, Leave, Hop, Unhop, Goto
  <2> QED
    BY <2>1, <2>2, QuietCount
<1>4. ASSUME NEW t \in Pushers, PushStep(t), ~PushScan(t), ~PushAdded(t)
      PROVE  CountExact'
  <2>1. t \in Threads /\ UNCHANGED <<buffer, count>>
    BY <1>4, PushWrites, OneRole
  <2>2. OthersStay(t)
    <3>1. QuietPush(t) => QuietStep(t)
      BY QuietPushIsQuiet
    <3>2. ThreadStep(t)
      BY <1>4, <2>1, <3>1, QuietRoute, ReturnRoute, PushRoute, WalkRoute
      DEF PushStep, QuietPush, Push, PushDone
    <3> QED
      BY <3>2 DEF ThreadStep
  <2>3. pc[t] \notin {"taken", "added"} /\ pc'[t] \notin {"taken", "added"}
    <3>1. PICK from, to : Goto(t, from, to) /\ from \notin {"taken", "added"} /\ to \notin {"taken", "added"}
      BY <1>4 DEF PushStep, Push, Call, PushChase, PushCount, PushGrow, PushReserve, PushHead,
                  PushScanFails, PushUnreserve, PushDone, Return
    <3> QED
      BY <1>1, <2>1, <3>1 DEF Goto
  <2> QED
    BY <2>1, <2>2, <2>3, QuietCount
<1>5. ASSUME NEW t \in Poppers, PopStep(t), ~PopTake(t), ~PopTaken(t)
      PROVE  CountExact'
  <2>1. t \in Threads /\ UNCHANGED <<buffer, count>>
    BY <1>5, PopWrites, OneRole
  <2>2. OthersStay(t)
    <3>1. QuietPop(t) => QuietStep(t)
      BY QuietPopIsQuiet
    <3>2. ThreadStep(t)
      BY <1>5, <2>1, <3>1, QuietRoute, ReturnRoute, WalkRoute DEF PopStep, QuietPop, Pop, PopDone
    <3> QED
      BY <3>2 DEF ThreadStep
  <2>3. pc[t] \notin {"taken", "added"} /\ pc'[t] \notin {"taken", "added"}
    <3>1. \/ pc' = pc /\ pc[t] = "load"
          \/ \E from, to : Goto(t, from, to) /\ from \notin {"taken", "added"} /\ to \notin {"taken", "added"}
      BY <1>5 DEF PopStep, Pop, Call, PopCount, PopHead, PopNext, PopFlag, PopLoad, PopAdvance,
                  PopDone, Return
    <3> QED
      BY <1>1, <2>1, <3>1 DEF Goto
  <2> QED
    BY <2>1, <2>2, <2>3, QuietCount
<1> QED
  BY <1>2, <1>3, <1>4, <1>5, FillCounts, AddedCounts, TakeCounts, TakenCounts DEF Next

(* A retired segment stays empty, and the collector retires an empty one   *)
(* unless its count was overtaken: a write that it has not seen counted    *)
(* would still be reserved.                                                *)
LEMMA StepRetiredIsEmpty ==
  ASSUME Inv, Next
  PROVE  RetiredIsEmptyUnlessOvertaken'
<1>1. RetiredIsEmptyUnlessOvertaken /\ current \in Nat /\ \A s \in 1..(current - 1) : s \in Segs
  BY Numbers, Constants DEF Inv, TypeOK, Segs
<1>2. CASE CollectStep
  <2>1. UNCHANGED buffer
    BY <1>2, CollectFrame
  <2>2. \/ UNCHANGED <<current, overtaken>>
        \/ /\ current' = current + 1 /\ reserved[current] = 0
           /\ overtaken' = IF count[current] # 0 THEN overtaken \union {current} ELSE overtaken
    BY <1>2 DEF CollectStep, Collect, CollectCount, CollectRetire, CollectShrink, CollectNoShrink,
                CollectFree
  <2>3. CASE UNCHANGED <<current, overtaken>>
    BY <1>1, <2>1, <2>3 DEF RetiredIsEmptyUnlessOvertaken, Filled
  <2>4. CASE /\ current' = current + 1 /\ reserved[current] = 0
             /\ overtaken' = IF count[current] # 0 THEN overtaken \union {current} ELSE overtaken
    <3>1. current \in Segs /\ Reservers(current) \in SUBSET Threads /\ Filled(current) \in SUBSET Slots
          /\ Takers(current) \in SUBSET Threads
      BY OneRole DEF Inv, TypeOK, Reservers, Filled, Takers
    <3>2. Reservers(current) = {}
      BY <2>4, <3>1, ProtectionSets, ThreadsFinite, SetSize DEF Inv
    <3>3. Adders(current) = {}
      BY <3>2 DEF Adders, Reservers, Reserving
    <3>4. Cardinality(Adders(current)) = 0
      BY <3>3, FS_EmptySet
    <3>5. count[current] = Cardinality(Filled(current)) + Cardinality(Takers(current))
                             - Cardinality(Adders(current))
      BY <3>1, CountSets DEF Inv
    <3>6. Cardinality(Filled(current)) \in Nat /\ Cardinality(Takers(current)) \in Nat
          /\ (Cardinality(Filled(current)) = 0 <=> Filled(current) = {})
      BY <3>1, ThreadsFinite, SlotsFinite, SetSize
    <3>7. count[current] = 0 => Filled(current) = {}
      BY <3>4, <3>5, <3>6
    <3>8. \A s \in Segs : Filled(s)' = Filled(s)
      BY <2>1 DEF Filled
    <3>9. ASSUME NEW s \in (1..(current' - 1)) \ overtaken'
          PROVE  Filled(s) = {}
      <4>1. CASE s = current
        BY <2>4, <3>7, <3>9, <4>1
      <4>2. CASE s # current
        BY <1>1, <2>4, <3>9, <4>2 DEF RetiredIsEmptyUnlessOvertaken
      <4> QED
        BY <4>1, <4>2
    <3>10. \A s \in 1..(current' - 1) : s \in Segs
      BY <1>1, <2>4, <3>1
    <3> QED
      BY <3>8, <3>9, <3>10 DEF RetiredIsEmptyUnlessOvertaken
  <2> QED
    BY <2>2, <2>3, <2>4
<1>3. ASSUME UNCHANGED <<current, overtaken>>,
             \A s \in (1..(current - 1)) \ overtaken : Filled(s)' \in SUBSET Filled(s)
      PROVE  RetiredIsEmptyUnlessOvertaken'
  BY <1>1, <1>3 DEF RetiredIsEmptyUnlessOvertaken
<1>4. ASSUME NEW t \in Pushers, PushScan(t)
      PROVE  \A s \in 1..(current - 1) : Filled(s)' \in SUBSET Filled(s)
  <2>1. t \in Threads /\ pc[t] = "scan" /\ seg[t] \in Segs
    BY <1>4, OneRole, Held DEF PushScan
  <2>2. ASSUME NEW s \in 1..(current - 1)
        PROVE  seg[t] # s
    <3>1. s \in Segs /\ reserved[s] = 0 /\ Reservers(s) \in SUBSET Threads
      BY <1>1, OneRole DEF Inv, RetiredClosed, Reservers
    <3>2. Reservers(s) = {}
      BY <3>1, ProtectionSets, ThreadsFinite, SetSize DEF Inv
    <3> QED
      BY <2>1, <3>2 DEF Reservers, Reserving
  <2>3. \A s \in Segs : s # seg[t] => buffer'[s] = buffer[s]
    BY <1>4, <2>1 DEF PushScan, Inv, TypeOK
  <2> QED
    BY <1>1, <2>2, <2>3 DEF Filled
<1>5. ASSUME NEW t \in Poppers, PopTake(t)
      PROVE  \A s \in Segs : Filled(s)' \in SUBSET Filled(s)
  <2>1. t \in Threads /\ pc[t] = "take" /\ seg[t] \in Segs /\ PopSlot(t) \in Slots
    BY <1>5, OneRole, Held, SlotsOK DEF PopTake
  <2>2. buffer \in [Segs -> [Slots -> Values \union {Null}]]
    BY DEF Inv, TypeOK
  <2>3. buffer' = buffer \/ Written(seg[t], PopSlot(t), Null)
    BY <1>5 DEF PopTake, Written
  <2>4. \A s \in Segs, i \in Slots : buffer'[s][i] = buffer[s][i] \/ buffer'[s][i] = Null
    BY <2>1, <2>2, <2>3 DEF Written
  <2> QED
    BY <2>4 DEF Filled
<1>6. ASSUME UNCHANGED buffer
      PROVE  \A s \in Segs : Filled(s)' \in SUBSET Filled(s)
  BY <1>6 DEF Filled
<1>7. ASSUME NEW t \in Threads, Walk(t)
      PROVE  UNCHANGED <<current, overtaken, buffer>>
  BY <1>7, WalkWrites DEF gcvars
<1>8. ASSUME NEW t \in Pushers, PushStep(t)
      PROVE  UNCHANGED <<current, overtaken>> /\ (PushScan(t) \/ UNCHANGED buffer)
  BY <1>8, PushWrites DEF gcvars
<1>9. ASSUME NEW t \in Poppers, PopStep(t)
      PROVE  UNCHANGED <<current, overtaken>> /\ (PopTake(t) \/ UNCHANGED buffer)
  BY <1>9, PopWrites DEF gcvars
<1> QED
  BY <1>1, <1>2, <1>3, <1>4, <1>5, <1>6, <1>7, <1>8, <1>9 DEF Next
----------------------------------------------------------------------------

(* A counter that is counted up or down stays a function to the integers.  *)
LEMMA Updated ==
  ASSUME NEW S, NEW f \in [S -> Int], NEW x
  PROVE  [f EXCEPT ![x] = @ + 1] \in [S -> Int] /\ [f EXCEPT ![x] = @ - 1] \in [S -> Int]
<1>1. CASE x \in S
  BY <1>1
<1>2. CASE x \notin S
  BY <1>2
<1> QED
  BY <1>1, <1>2

(* The counters, and the segments that threads have, keep their shape.     *)
LEMMA Shapes ==
  ASSUME Inv, Next
  PROVE  /\ reserved' \in [Segs -> Int] /\ inuse' \in [Segs -> Int]
         /\ seg' \in [Threads -> Nat] /\ access' \in Int
<1>1. /\ reserved \in [Segs -> Int] /\ inuse \in [Segs -> Int] /\ seg \in [Threads -> Nat]
      /\ access \in Int /\ current \in Nat
  BY Constants DEF Inv, TypeOK, Segs
<1> USE DEF segvars, local
<1>2. CASE CollectStep
  BY <1>1, <1>2, CollectFrame
<1>3. ASSUME NEW t \in Threads, QuietStep(t)
      PROVE  UNCHANGED <<reserved, inuse, seg, access>>
  BY <1>3 DEF QuietStep
<1>4. ASSUME NEW t \in Threads, Call(t)
      PROVE  UNCHANGED <<reserved, inuse, seg>> /\ access' \in Int
  BY <1>1, <1>4 DEF Call
<1>5. ASSUME NEW t \in Threads, Walk(t)
      PROVE  /\ UNCHANGED reserved /\ inuse' \in [Segs -> Int]
             /\ seg' \in [Threads -> Nat] /\ access' \in Int
  <2>1. CASE Current(t)
    BY <1>1, <2>1 DEF Current
  <2>2. CASE Use(t)
    BY <1>1, <2>2, Updated DEF Use
  <2>3. CASE Leave(t)
    BY <1>1, <2>3 DEF Leave
  <2>4. CASE Hop(t)
    BY <1>1, <2>4, Updated DEF Hop
  <2>5. CASE Unhop(t)
    <3>1. UNCHANGED <<reserved, access>> /\ inuse' = [inuse EXCEPT ![seg[t]] = @ - 1]
          /\ seg' = [seg EXCEPT ![t] = @ + 1]
      BY <2>5 DEF Unhop
    <3>2. inuse' \in [Segs -> Int]
      BY <1>1, <3>1, Updated
    <3>3. seg' \in [Threads -> Nat]
      BY <1>1, <3>1
    <3> QED
      BY <1>1, <3>1, <3>2, <3>3
  <2> QED
    BY <1>5, <2>1, <2>2, <2>3, <2>4, <2>5 DEF Walk
<1>6. ASSUME NEW t \in Threads, NEW from, Return(t, from)
      PROVE  /\ UNCHANGED <<reserved, access>> /\ inuse' \in [Segs -> Int] /\ seg' \in [Threads -> Nat]
  BY <1>1, <1>6, Updated DEF Return
<1>7. ASSUME NEW t \in Pushers, PushGrow(t)
      PROVE  UNCHANGED <<reserved, inuse, seg, access>>
  BY <1>7 DEF PushGrow
<1>8. ASSUME NEW t \in Pushers, PushReserve(t)
      PROVE  UNCHANGED <<inuse, seg, access>> /\ reserved' \in [Segs -> Int]
  BY <1>1, <1>8, Updated DEF PushReserve
<1>9. ASSUME NEW t \in Pushers, PushUnreserve(t)
      PROVE  UNCHANGED <<inuse, seg, access>> /\ reserved' \in [Segs -> Int]
  BY <1>1, <1>9, Updated DEF PushUnreserve
<1> QED
  BY <1>1, <1>2, <1>3, <1>4, <1>5, <1>6, <1>7, <1>8, <1>9, Cases

(* The collector's own variables.                                          *)
LEMMA StepCollector ==
  ASSUME Inv, Next
  PROVE  /\ work' \in Workloads /\ retiring' \in [Segs -> BOOLEAN]
         /\ gc' \in CollectorLabels /\ gccount' \in Int /\ gcaccess' \in Nat /\ cycles' \in Nat
         /\ overtaken' \subseteq Segs
<1>1. /\ work \in Workloads /\ retiring \in [Segs -> BOOLEAN]
      /\ gc \in CollectorLabels /\ gccount \in Int /\ gcaccess \in Nat /\ cycles \in Nat
      /\ overtaken \subseteq Segs /\ current \in Segs /\ access \in Nat /\ count \in [Segs -> Int]
  BY DEF Inv, TypeOK
<1> USE DEF CollectorLabels
<1>2. CASE Collect
  BY <1>1, <1>2 DEF Collect, segvars
<1>3. CASE CollectCount
  BY <1>1, <1>3 DEF CollectCount, segvars
<1>4. CASE CollectRetire
  <2>1. retiring' \in [Segs -> BOOLEAN] /\ overtaken' \subseteq Segs
    BY <1>1, <1>4 DEF CollectRetire
  <2>2. UNCHANGED <<work, gcaccess, cycles>> /\ gccount' = 0 /\ gc' \in {"idle", "shrink"}
    BY <1>4 DEF CollectRetire
  <2> QED
    BY <1>1, <2>1, <2>2
<1>5. CASE CollectShrink
  BY <1>1, <1>5 DEF CollectShrink
<1>6. CASE CollectNoShrink
  BY <1>1, <1>6 DEF CollectNoShrink, segvars
<1>7. CASE CollectFree
  BY <1>1, <1>7 DEF CollectFree, segvars
<1>8. ASSUME NEW t \in Threads, ThreadStep(t), UNCHANGED gcvars
      PROVE  UNCHANGED <<work, retiring, gc, gccount, gcaccess, cycles, overtaken>>
  BY <1>8 DEF ThreadStep, gcvars
<1>9. CollectStep \/ UNCHANGED gcvars
  BY WalkWrites, PushWrites, PopWrites DEF Next
<1>10. CASE CollectStep
  BY <1>2, <1>3, <1>4, <1>5, <1>6, <1>7, <1>10 DEF CollectStep
<1> QED
  BY <1>1, <1>8, <1>9, <1>10, Routes

(* Every step keeps the types.                                             *)
LEMMA StepTypeOK ==
  ASSUME Inv, Next
  PROVE  TypeOK'
<1>1. /\ nseg' \in Segs /\ nseg' \in 1..MaxSegs /\ MaxSegs \in Nat
      /\ current' \in Segs /\ freed' \in 0..MaxSegs
  BY ChainGrows, StepCollectorOK, Constants DEF Segs
<1>2. pc' \in [Threads -> WalkLabels \union PushLabels \union PopLabels]
  <2>1. CASE CollectStep
    BY <2>1, CollectFrame DEF Inv, TypeOK
  <2> QED
    BY <2>1, Routes DEF ThreadStep, Labels
<1>3. seg' \in [Threads -> 0..MaxSegs]
  <2>1. \A t \in Threads : seg'[t] \in 0..MaxSegs
    BY <1>1, StepSegOK DEF SegOK
  <2> QED
    BY <2>1, Shapes
<1>4. access' \in Nat /\ reserved' \in [Segs -> Nat] /\ inuse' \in [Segs -> Nat]
  <2>1. /\ access' = Cardinality(Accessing')
        /\ \A s \in Segs : /\ reserved'[s] = Cardinality(Reservers(s)')
                           /\ inuse'[s] = Cardinality(Users(s)') + Cardinality(Hoppers(s)')
    BY StepProtects DEF ProtectionExact, Accessing, Reservers, Users, Hoppers
  <2>2. /\ Accessing' \in SUBSET Threads
        /\ \A s \in Segs : /\ Reservers(s)' \in SUBSET Threads /\ Users(s)' \in SUBSET Threads
                           /\ Hoppers(s)' \in SUBSET Threads
    BY OneRole DEF Accessing, Reservers, Users, Hoppers
  <2>3. \A A \in SUBSET Threads : Cardinality(A) \in Nat
    BY ThreadsFinite, SetSize
  <2>4. access' \in Nat /\ \A s \in Segs : reserved'[s] \in Nat /\ inuse'[s] \in Nat
    BY <2>1, <2>2, <2>3
  <2> QED
    BY <2>4, Shapes
<1>5. DataOK' /\ LocalsOK'
  BY StepData, StepLocals
<1>6. /\ size' \in [Segs -> 0..MaxSize] /\ head' \in [Segs -> Slots]
      /\ \A s \in 1..nseg' : head'[s] < size'[s]
  BY StepRings
<1>7. /\ work' \in Workloads /\ retiring' \in [Segs -> BOOLEAN]
      /\ gc' \in CollectorLabels /\ gccount' \in Int /\ gcaccess' \in Nat /\ cycles' \in Nat
      /\ overtaken' \subseteq Segs
  BY StepCollector
<1> QED
  BY <1>1, <1>2, <1>3, <1>4, <1>5, <1>6, <1>7 DEF TypeOK, DataOK, LocalsOK

(* Every step keeps the invariant.                                         *)
LEMMA StepKeepsInv ==
  ASSUME Inv, Next
  PROVE  Inv'
<1>1. TypeOK' /\ SegOK' /\ PosOK' /\ DataOK' /\ ValOK'
  BY StepTypeOK, StepSegOK, StepPosOK, StepData
<1>2. Unused'
  BY StepRings
<1>3. NoUseAfterFree'
  <2>1. \A t \in Threads : seg'[t] \in Nat
    BY Shapes
  <2>2. freed' \in Nat
    BY StepCollectorOK, Constants
  <2> QED
    BY <2>1, <2>2, StepNoUseAfterFree DEF NoUseAfterFree, Touches
<1>4. ProtectionExact' /\ CollectorOK' /\ CountExact' /\ RetiredClosed' /\ RetiredIsEmptyUnlessOvertaken'
  BY StepProtects, StepCollectorOK, StepCounts, StepRetiredClosed, StepRetiredIsEmpty
<1>5. Carries' /\ AllOnce'
  BY StepOnce
<1> QED
  BY <1>1, <1>2, <1>3, <1>4, <1>5 DEF Inv

(* The invariant holds initially.                                          *)
LEMMA InitInv ==
  ASSUME Init
  PROVE  Inv
<1> USE DEF Init
<1>1. 1 \in Segs /\ 0 \in Slots /\ 0 \in 0..MaxSize /\ 0 \in 0..MaxSegs /\ MaxSegs \in Nat
  BY Constants DEF Segs, Slots
<1>2. work.minsz \in 1..MaxSize
  BY PrQueueAssumption
<1>3. TypeOK
  <2>1. /\ work \in Workloads /\ nseg \in Segs /\ current \in Segs /\ freed \in 0..MaxSegs
        /\ access \in Nat /\ count \in [Segs -> Int] /\ head \in [Segs -> Slots]
        /\ reserved \in [Segs -> Nat] /\ retiring \in [Segs -> BOOLEAN] /\ inuse \in [Segs -> Nat]
        /\ buffer \in [Segs -> [Slots -> Values \union {Null}]]
    BY <1>1
  <2>2. size \in [Segs -> 0..MaxSize] /\ size[1] = work.minsz /\ head[1] = 0
    BY <1>1, <1>2, Constants
  <2>3. \A s \in 1..nseg : head[s] < size[s]
    <3>1. \A s \in 1..nseg : s = 1
      OBVIOUS
    <3> QED
      BY <1>2, <2>2, <3>1
  <2>4. /\ seg \in [Threads -> 0..MaxSegs]
        /\ cnt \in [Threads -> Int] /\ hd \in [Threads -> Slots] /\ pos \in [Threads -> 0..MaxSize]
        /\ full \in [Threads -> BOOLEAN] /\ havenext \in [Threads -> BOOLEAN]
        /\ assist \in [Threads -> 0..MaxSize] /\ calls \in [Threads -> Nat]
    BY <1>1
  <2>5. /\ pc \in [Threads -> WalkLabels \union PushLabels \union PopLabels]
        /\ val \in [Threads -> Values \union {Null}]
        /\ gc \in CollectorLabels /\ gccount \in Int /\ gcaccess \in Nat /\ cycles \in Nat
        /\ overtaken \subseteq Segs
    BY DEF WalkLabels, CollectorLabels
  <2>6. popped \in [Poppers -> Seq(Values)]
    OBVIOUS
  <2> QED
    BY <2>1, <2>2, <2>3, <2>4, <2>5, <2>6 DEF TypeOK
<1>4. SegOK /\ Unused /\ PosOK /\ ValOK /\ CollectorOK /\ RetiredClosed /\ NoUseAfterFree
  BY OneRole DEF SegOK, Unused, PosOK, ValOK, CollectorOK, RetiredClosed, NoUseAfterFree, Touches
<1>5. Cardinality({}) = 0
  BY FS_EmptySet
<1>6. ProtectionExact
  <2>1. Accessing = {}
    BY DEF Accessing
  <2>2. \A s \in Segs : Reservers(s) = {} /\ Users(s) = {} /\ Hoppers(s) = {}
    BY OneRole DEF Reservers, Users, Hoppers, Reserving, Segs
  <2>3. access = 0 /\ \A s \in Segs : reserved[s] = 0 /\ inuse[s] = 0
    OBVIOUS
  <2>4. 0 = 0 + 0
    OBVIOUS
  <2> HIDE DEF Init
  <2> QED
    BY <1>5, <2>1, <2>2, <2>3, <2>4, ProtectionSets
<1>7. CountExact
  <2>1. \A s \in Segs : Filled(s) = {} /\ Takers(s) = {} /\ Adders(s) = {}
    BY OneRole DEF Filled, Takers, Adders
  <2>2. (\A s \in Segs : count[s] = 0) /\ 0 = 0 + 0 - 0
    OBVIOUS
  <2> HIDE DEF Init
  <2> QED
    BY <1>5, <2>1, <2>2, CountSets
<1>8. RetiredIsEmptyUnlessOvertaken
  BY DEF RetiredIsEmptyUnlessOvertaken
<1>9. Carries
  BY OneRole DEF Carries, Delivered
<1>10. AllOnce
  <2>1. ASSUME NEW v, v # Null PROVE ~Placed(v)
    BY <2>1 DEF Placed, InSlot, IsGot
  <2>2. \A v \in Values : v # Null
    BY PrQueueAssumption
  <2>3. \A v \in Values : Once(v)
    BY <2>1, <2>2 DEF Once, Placed
  <2>4. ASSUME NEW t, NEW i, Due(t, i) PROVE work.push[t][i] \in Values
    <3>1. work.push[t] \in Seq(Values) /\ i \in DOMAIN work.push[t]
      BY <2>4, PrQueueAssumption DEF Due
    <3> QED
      BY <3>1
  <2> HIDE DEF Init
  <2> QED
    BY <2>1, <2>2, <2>3, <2>4 DEF AllOnce
<1> QED
  BY <1>3, <1>4, <1>6, <1>7, <1>8, <1>9, <1>10 DEF Inv

(* A step that changes nothing keeps the invariant.                        *)
LEMMA StutterKeepsInv ==
  ASSUME Inv, UNCHANGED vars
  PROVE  Inv'
<1>1. UNCHANGED <<work, nseg, current, freed, access, size, count, head, reserved, retiring, inuse,
                  buffer, pc, seg, cnt, hd, pos, full, havenext, assist, val, calls, popped,
                  gc, gccount, gcaccess, cycles, overtaken>>
  BY DEF vars, segvars, local, gcvars
<1>2. TypeOK' /\ SegOK' /\ Unused' /\ PosOK' /\ ValOK'
  <2>1. TypeOK'
    BY <1>1 DEF Inv, TypeOK
  <2>2. SegOK' /\ Unused' /\ PosOK' /\ ValOK'
    BY <1>1 DEF Inv, SegOK, Unused, PosOK, ValOK
  <2> QED
    BY <2>1, <2>2
<1>3. ProtectionExact'
  BY <1>1 DEF Inv, ProtectionExact
<1>4. CollectorOK' /\ RetiredClosed'
  BY <1>1 DEF Inv, CollectorOK, RetiredClosed
<1>5. NoUseAfterFree'
  BY <1>1 DEF Inv, NoUseAfterFree, Touches
<1>6. CountExact'
  BY <1>1 DEF Inv, CountExact, Filled
<1>7. RetiredIsEmptyUnlessOvertaken'
  BY <1>1 DEF Inv, RetiredIsEmptyUnlessOvertaken, Filled
<1>8. Carries'
  BY <1>1 DEF Inv, Carries
<1>9. AllOnce'
  <2>1. \A v : (Once(v)' <=> Once(v)) /\ (Placed(v)' <=> Placed(v))
    BY <1>1 DEF Once, Placed, InSlot, IsGot
  <2> QED
    BY <1>1, <2>1 DEF Inv, AllOnce, Due, DistinctPushes
<1> QED
  BY <1>2, <1>3, <1>4, <1>5, <1>6, <1>7, <1>8, <1>9 DEF Inv

(* The invariant holds in every reachable state.                           *)
LEMMA InvHolds == Spec => []Inv
<1>1. Inv /\ [Next]_vars => Inv'
  BY StepKeepsInv, StutterKeepsInv
<1> QED
  BY InitInv, <1>1, PTL DEF Spec
----------------------------------------------------------------------------

(* Every variable of the queue keeps its type; in particular every slot    *)
(* that prqPush and prqPop compute is within the ring.                     *)
THEOREM TypeCorrect == Spec => []TypeOK
<1>1. Inv => TypeOK
  BY DEF Inv
<1> QED
  BY InvHolds, <1>1, PTL

(* seg->reserved, seg->inuse and prq->access count exactly the threads     *)
(* that rely on them, after every retry and every early return of prqPush  *)
(* and prqPop.                                                             *)
THEOREM ProtectionExactHolds == Spec => []ProtectionExact
<1>1. Inv => ProtectionExact
  BY DEF Inv
<1> QED
  BY InvHolds, <1>1, PTL

(* No thread touches a segment that prqCollect has freed: that access and  *)
(* inuse are loaded one after the other, in this order, is enough.         *)
THEOREM NoUseAfterFreeHolds == Spec => []NoUseAfterFree
<1>1. Inv => NoUseAfterFree
  BY DEF Inv
<1> QED
  BY InvHolds, <1>1, PTL

(* seg->count differs from the number of entries by the calls that have    *)
(* not yet counted theirs, and by nothing else.                            *)
THEOREM CountExactHolds == Spec => []CountExact
<1>1. Inv => CountExact
  BY DEF Inv
<1> QED
  BY InvHolds, <1>1, PTL

(* What prqCollect retires is empty and stays so, unless a push was        *)
(* counted between its loads of count and of reserved.                     *)
THEOREM RetiredIsEmptyHolds == Spec => []RetiredIsEmptyUnlessOvertaken
<1>1. Inv => RetiredIsEmptyUnlessOvertaken
  BY DEF Inv
<1> QED
  BY InvHolds, <1>1, PTL
----------------------------------------------------------------------------

(* Whichever calls of prqPush and prqPop race for a slot, a value is in    *)
(* one slot or was returned by one pop: the exchange of prqPop takes an    *)
(* entry only once, that of prqPush writes it only once.                   *)
THEOREM OnePlaceHolds == Spec => []OnePlace
<1>1. Inv => OnePlace
  <2> SUFFICES ASSUME Inv, DistinctPushes, NEW v \in Values
               PROVE  Cardinality(SlotsOf(v)) + Cardinality(PopsOf(v)) <= 1
    BY DEF OnePlace
  <2>1. Once(v)
    BY DEF Inv, AllOnce
  <2>2. \A q \in SlotsOf(v) : q = <<q[1], q[2]>> /\ InSlot(q[1], q[2], v)
    BY DEF SlotsOf, InSlot
  <2>3. \A q \in PopsOf(v) : q = <<q[1], q[2]>> /\ IsGot(q[1], q[2], v)
    BY DEF PopsOf, IsGot
  <2>4. \A q, r \in SlotsOf(v) : q = r
    BY <2>1, <2>2 DEF Once
  <2>5. \A q, r \in PopsOf(v) : q = r
    BY <2>1, <2>3 DEF Once
  <2>6. SlotsOf(v) = {} \/ PopsOf(v) = {}
    BY <2>1, <2>2, <2>3 DEF Once
  <2>7. /\ Cardinality(SlotsOf(v)) \in 0..1 /\ Cardinality(PopsOf(v)) \in 0..1
        /\ Cardinality(SlotsOf(v)) = 0 \/ Cardinality(PopsOf(v)) = 0
    BY <2>4, <2>5, <2>6, AtMostOne
  <2> QED
    BY <2>7
<1> QED
  BY InvHolds, <1>1, PTL
============================================================================
