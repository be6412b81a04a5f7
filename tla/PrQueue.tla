------------------------------ MODULE PrQueue ------------------------------
(***************************************************************************)
(* The lock-free pointer queue of cx/thread/prqueue.[ch], in its dynamic   *)
(* form, which the task queues use.  The queue is a chain of ring buffers, *)
(* the segments.  Threads push into the last one; when it is full, one of  *)
(* them chains a larger one to it.  Threads pop from the first that seems  *)
(* to have something.  A collector retires the first segment once it is    *)
(* empty and replaced, chains a smaller one when the queue is large for    *)
(* long, and frees a retired segment that no thread can be looking at.     *)
(*                                                                         *)
(* Segments are numbered in the order of the chain, which is the order in  *)
(* which they are retired and freed: nextseg of s is s + 1 if there is     *)
(* such a segment, those before current are retired, and those up to freed *)
(* are freed.  Each step is one access to shared memory; memory is         *)
(* sequentially consistent, and a weak exchange fails only when the value  *)
(* differs.  gcmtx lets one thread collect at a time, and whoever cannot   *)
(* have it returns: one collector stands for all.  Whether the time and    *)
(* the average say that the queue may shrink is left open.                 *)
(***************************************************************************)
EXTENDS Integers, FiniteSets, FiniteSetsExt, Sequences

CONSTANTS
  Pushers, Poppers,
  Workloads,            \* what is asked of the queue: its minsz, what each pusher
                        \* pushes, how often each popper pops, and how many
                        \* cycles the collector makes
  Concurrence,          \* concurrence: 4 or more, from the number of CPUs
  MaxSegs,              \* bound on the segments ever allocated
  TargetSize, MaxSize,  \* targetsz, maxsz; all sizes are powers of two, to wrap
                        \* around where unsigned numbers do
  Null

Threads == Pushers \union Poppers
Segs == 1..MaxSegs
Values == UNION {UNION {{w.push[p][i] : i \in DOMAIN w.push[p]} : p \in Pushers} : w \in Workloads}

ASSUME PrQueueAssumption ==
  /\ MaxSize \in Nat \ {0} /\ TargetSize \in 1..MaxSize
  /\ Workloads \subseteq [minsz : 1..MaxSize, push : [Pushers -> Seq(Values)],
                          pops : [Poppers -> Nat], cycles : Nat]
  /\ Concurrence \in Nat /\ MaxSegs \in Nat \ {0}
  /\ Null \notin Values
  /\ IsFiniteSet(Pushers) /\ IsFiniteSet(Poppers) /\ Pushers \intersect Poppers = {}

VARIABLES
  work,                   \* the workload, chosen once
  nseg, current, freed,   \* segments allocated, prq->current, segments freed
  access,                 \* prq->access
  size, count, head,      \* of each segment; count may be overtaken and fall
                          \* below 0, which reads as a huge unsigned number
  reserved, retiring,     \* seg->reserved without, and only, its high bit
  inuse, buffer,
  pc,                     \* where each thread is
  seg,                    \* its seg
  cnt, hd,                \* its count and head
  pos,                    \* slots it has looked at
  full,                   \* its full, if it is a pusher
  havenext, assist,       \* its havenext and assist_thresh, if it is a popper
  val,                    \* the value it pushes, or has found
  calls,                  \* calls it has made
  popped,                 \* what each popper got, in order
  gc, gccount, gcaccess,  \* the collector: where it is, its count and access
  cycles,                 \* cycles it has begun
  overtaken               \* segments retired after their count had changed
                          \* (history, read by properties only)

segvars == <<nseg, size, count, head, reserved, retiring, inuse, buffer>>
local == <<seg, cnt, hd, pos, full, havenext, assist, val>>
gcvars == <<current, freed, gc, gccount, gcaccess, cycles, overtaken, work>>
vars == <<segvars, access, pc, local, calls, popped, gcvars>>

Slots == 0..(MaxSize - 1)

WalkLabels == {"idle", "current", "use", "leave", "hop", "unhop"}
PushLabels == {"chase", "count", "grow", "reserve", "head", "scan", "rehead",
               "added", "unreserve", "backout", "done", "fail"}
PopLabels == {"count", "head", "next", "flag", "load", "take", "taken", "advance", "done", "empty"}
CollectorLabels == {"idle", "replaced", "reserved", "shrink", "inuse"}

TypeOK ==
  /\ work \in Workloads
  /\ nseg \in Segs /\ current \in Segs /\ freed \in 0..MaxSegs
  /\ access \in Nat
  /\ size \in [Segs -> 0..MaxSize] /\ count \in [Segs -> Int] /\ head \in [Segs -> Slots]
  /\ \A s \in 1..nseg : head[s] < size[s]
  /\ reserved \in [Segs -> Nat] /\ retiring \in [Segs -> BOOLEAN] /\ inuse \in [Segs -> Nat]
  /\ buffer \in [Segs -> [Slots -> Values \union {Null}]]
  /\ pc \in [Threads -> WalkLabels \union PushLabels \union PopLabels]
  /\ seg \in [Threads -> 0..MaxSegs]
  /\ cnt \in [Threads -> Int] /\ hd \in [Threads -> Slots] /\ pos \in [Threads -> 0..MaxSize]
  /\ full \in [Threads -> BOOLEAN] /\ havenext \in [Threads -> BOOLEAN]
  /\ assist \in [Threads -> 0..MaxSize]
  /\ val \in [Threads -> Values \union {Null}]
  /\ calls \in [Threads -> Nat]
  /\ popped \in [Poppers -> Seq(Values)]
  /\ gc \in CollectorLabels /\ gccount \in Int /\ gcaccess \in Nat /\ cycles \in Nat
  /\ overtaken \subseteq Segs

(* prqInitDynamic *)
Init ==
  /\ work \in Workloads
  /\ nseg = 1 /\ current = 1 /\ freed = 0 /\ access = 0
  /\ size = [s \in Segs |-> IF s = 1 THEN work.minsz ELSE 0]
  /\ count = [s \in Segs |-> 0] /\ head = [s \in Segs |-> 0]
  /\ reserved = [s \in Segs |-> 0] /\ retiring = [s \in Segs |-> FALSE]
  /\ inuse = [s \in Segs |-> 0]
  /\ buffer = [s \in Segs |-> [i \in Slots |-> Null]]
  /\ pc = [t \in Threads |-> "idle"]
  /\ seg = [t \in Threads |-> 0]
  /\ cnt = [t \in Threads |-> 0] /\ hd = [t \in Threads |-> 0] /\ pos = [t \in Threads |-> 0]
  /\ full = [t \in Threads |-> FALSE] /\ havenext = [t \in Threads |-> FALSE]
  /\ assist = [t \in Threads |-> 0]
  /\ val = [t \in Threads |-> Null]
  /\ calls = [t \in Threads |-> 0]
  /\ popped = [t \in Poppers |-> <<>>]
  /\ gc = "idle" /\ gccount = 0 /\ gcaccess = 0 /\ cycles = 0
  /\ overtaken = {}
----------------------------------------------------------------------------

Goto(t, from, to) == pc[t] = from /\ pc' = [pc EXCEPT ![t] = to]

(* A count as an unsigned number is at least n.                            *)
AtLeast(c, n) == c < 0 \/ c >= n

(* The slot a scan looks at: pushes look from head + count on, pops from   *)
(* head on.                                                                *)
Slot(t) == (hd[t] + cnt[t] + pos[t]) % size[seg[t]]
PopSlot(t) == (hd[t] + pos[t]) % size[seg[t]]

HasNext(s) == s < nseg

(* prqGrow and prqShrink, when their exchange succeeds: chain a segment.   *)
Chain(s, newsize) ==
  /\ ~HasNext(s) /\ s < MaxSegs
  /\ nseg' = s + 1
  /\ size' = [size EXCEPT ![s + 1] = newsize]

(* prqGrowSize and prqShrinkSize for PRQ_Grow_100, within the bounds.      *)
GrowSize(n) == Min({2 * n, MaxSize})
ShrinkSize(n) == Max({n \div 2, TargetSize, work.minsz})

(* prqPush, prqPop: announce the access ...                                *)
Call(t) ==
  /\ calls' = [calls EXCEPT ![t] = @ + 1]
  /\ access' = access + 1
  /\ Goto(t, "idle", "current")
  /\ UNCHANGED <<segvars, seg, cnt, hd, pos, full, havenext, assist, popped, gcvars>>

Push(t) ==
  /\ calls[t] < Len(work.push[t])
  /\ val' = [val EXCEPT ![t] = work.push[t][calls[t] + 1]]
  /\ Call(t)

Pop(t) == calls[t] < work.pops[t] /\ UNCHANGED val /\ Call(t)

(* ... load the current segment ...                                        *)
Current(t) ==
  /\ Goto(t, "current", "use")
  /\ seg' = [seg EXCEPT ![t] = current]
  /\ UNCHANGED <<segvars, access, cnt, hd, pos, full, havenext, assist, val, calls, popped, gcvars>>

(* ... mark it as in use ...                                               *)
Use(t) ==
  /\ Goto(t, "use", "leave")
  /\ inuse' = [inuse EXCEPT ![seg[t]] = @ + 1]
  /\ UNCHANGED <<nseg, size, count, head, reserved, retiring, buffer,
                 access, local, calls, popped, gcvars>>

(* ... and end the access.  A pop sets its threshold for moving the head   *)
(* by the size of the segment it starts from.                              *)
Leave(t) ==
  /\ Goto(t, "leave", IF t \in Pushers THEN "chase" ELSE "count")
  /\ access' = access - 1
  /\ assist' = IF t \in Pushers THEN assist
               ELSE [assist EXCEPT ![t] = Min({Concurrence, size[seg[t]] \div 2})]
  /\ UNCHANGED <<segvars, seg, cnt, hd, pos, full, havenext, val, calls, popped, gcvars>>

(* Move on to the next segment: use it, then let go of this one.           *)
Hop(t) ==
  /\ Goto(t, "hop", "unhop")
  /\ inuse' = [inuse EXCEPT ![seg[t] + 1] = @ + 1]
  /\ UNCHANGED <<nseg, size, count, head, reserved, retiring, buffer,
                 access, local, calls, popped, gcvars>>

Unhop(t) ==
  /\ Goto(t, "unhop", IF t \in Pushers THEN "chase" ELSE "count")
  /\ inuse' = [inuse EXCEPT ![seg[t]] = @ - 1]
  /\ seg' = [seg EXCEPT ![t] = @ + 1]
  /\ full' = [full EXCEPT ![t] = FALSE]
  /\ UNCHANGED <<nseg, size, count, head, reserved, retiring, buffer,
                 access, cnt, hd, pos, havenext, assist, val, calls, popped, gcvars>>

(* The call returns: let go of the segment.                                *)
Return(t, from) ==
  /\ Goto(t, from, "idle")
  /\ inuse' = [inuse EXCEPT ![seg[t]] = @ - 1]
  /\ seg' = [seg EXCEPT ![t] = 0] /\ cnt' = [cnt EXCEPT ![t] = 0]
  /\ hd' = [hd EXCEPT ![t] = 0] /\ pos' = [pos EXCEPT ![t] = 0]
  /\ full' = [full EXCEPT ![t] = FALSE] /\ havenext' = [havenext EXCEPT ![t] = FALSE]
  /\ assist' = [assist EXCEPT ![t] = 0]
  /\ val' = [val EXCEPT ![t] = Null]
  /\ UNCHANGED <<nseg, size, count, head, reserved, retiring, buffer, access, calls, gcvars>>
----------------------------------------------------------------------------

(* prqPush: follow the chain to its end.                                   *)
PushChase(t) ==
  /\ Goto(t, "chase", IF HasNext(seg[t]) THEN "hop" ELSE "count")
  /\ UNCHANGED <<segvars, access, local, calls, popped, gcvars>>

(* Load the count: grow if the segment appears full and may grow; fail if  *)
(* it is full and may not.                                                 *)
PushCount(t) ==
  LET s == seg[t]
      grows == size[s] < MaxSize
      isfull == full[t] \/ (grows /\ AtLeast(count[s], size[s]))
  IN  /\ pc[t] = "count"
      /\ Goto(t, "count", IF isfull THEN (IF grows THEN "grow" ELSE "fail") ELSE "reserve")
      /\ full' = [full EXCEPT ![t] = isfull]
      /\ cnt' = [cnt EXCEPT ![t] = count[s]]
      /\ UNCHANGED <<segvars, access, seg, hd, pos, havenext, assist, val, calls, popped, gcvars>>

(* prqGrow: chain a larger segment, or find that another has done so; in   *)
(* both cases go there.                                                    *)
PushGrow(t) ==
  /\ Goto(t, "grow", "chase")
  /\ \/ Chain(seg[t], GrowSize(size[seg[t]])) /\ full' = [full EXCEPT ![t] = FALSE]
     \/ HasNext(seg[t]) /\ UNCHANGED <<nseg, size, full>>
  /\ UNCHANGED <<count, head, reserved, retiring, inuse, buffer,
                 access, seg, cnt, hd, pos, havenext, assist, val, calls, popped, gcvars>>

(* Reserve a write, unless the segment is being retired.                   *)
PushReserve(t) ==
  /\ pc[t] = "reserve"
  /\ \/ /\ ~retiring[seg[t]]
        /\ reserved' = [reserved EXCEPT ![seg[t]] = @ + 1]
        /\ Goto(t, "reserve", "head")
     \/ retiring[seg[t]] /\ Goto(t, "reserve", "chase") /\ UNCHANGED reserved
  /\ UNCHANGED <<nseg, size, count, head, retiring, inuse, buffer,
                 access, local, calls, popped, gcvars>>

(* Load the head, for the first scan or for another one.                   *)
PushHead(t) ==
  /\ Goto(t, "head", "scan") \/ Goto(t, "rehead", "scan")
  /\ hd' = [hd EXCEPT ![t] = head[seg[t]]]
  /\ pos' = [pos EXCEPT ![t] = 0]
  /\ UNCHANGED <<segvars, access, seg, cnt, full, havenext, assist, val, calls, popped, gcvars>>

(* The scan runs over every slot once, or over none if head + count wraps  *)
(* around between its ends.                                                *)
PushScanEnds(t) ==
  LET first == hd[t] + cnt[t]
  IN  pos[t] = size[seg[t]] \/ (first < 0 /\ first + size[seg[t]] >= 0)

(* Put the value into the slot if it is free.                              *)
PushScan(t) ==
  /\ pc[t] = "scan"
  /\ ~PushScanEnds(t)
  /\ \/ /\ buffer[seg[t]][Slot(t)] = Null
        /\ buffer' = [buffer EXCEPT ![seg[t]][Slot(t)] = val[t]]
        /\ Goto(t, "scan", "added")
        /\ val' = [val EXCEPT ![t] = Null]
        /\ UNCHANGED pos
     \/ /\ buffer[seg[t]][Slot(t)] # Null
        /\ pos' = [pos EXCEPT ![t] = @ + 1]
        /\ UNCHANGED <<buffer, val, pc>>
  /\ UNCHANGED <<nseg, size, count, head, reserved, retiring, inuse,
                 access, seg, cnt, hd, full, havenext, assist, calls, popped, gcvars>>

(* No slot was free: is the segment full after all?                        *)
PushScanFails(t) ==
  /\ pc[t] = "scan"
  /\ PushScanEnds(t)
  /\ LET isfull == AtLeast(count[seg[t]], size[seg[t]])
     IN  /\ Goto(t, "scan", IF isfull THEN "backout" ELSE "rehead")
         /\ full' = [full EXCEPT ![t] = isfull]
  /\ cnt' = [cnt EXCEPT ![t] = count[seg[t]]]
  /\ UNCHANGED <<segvars, access, seg, hd, pos, havenext, assist, val, calls, popped, gcvars>>

(* Mutant: it is not counted if the segment appeared full.                 *)
PushAddedUncounted(t) ==
  /\ Goto(t, "added", "unreserve")
  /\ count' = IF AtLeast(cnt[t], size[seg[t]]) THEN count ELSE [count EXCEPT ![seg[t]] = @ + 1]
  /\ UNCHANGED <<nseg, size, head, reserved, retiring, inuse, buffer,
                 access, local, calls, popped, gcvars>>

(* The value is in: count it ...                                           *)
PushAdded(t) ==
  /\ Goto(t, "added", "unreserve")
  /\ count' = [count EXCEPT ![seg[t]] = @ + 1]
  /\ UNCHANGED <<nseg, size, head, reserved, retiring, inuse, buffer,
                 access, local, calls, popped, gcvars>>

(* Mutant: a retry keeps its reservation.                                  *)
PushUnreserveOnce(t) ==
  /\ Goto(t, "unreserve", "done") \/ Goto(t, "backout", "chase")
  /\ reserved' = IF pc[t] = "backout" THEN reserved ELSE [reserved EXCEPT ![seg[t]] = @ - 1]
  /\ UNCHANGED <<nseg, size, count, head, retiring, inuse, buffer,
                 access, local, calls, popped, gcvars>>

(* ... and give the reservation back, as before a retry.                   *)
PushUnreserve(t) ==
  /\ Goto(t, "unreserve", "done") \/ Goto(t, "backout", "chase")
  /\ reserved' = [reserved EXCEPT ![seg[t]] = @ - 1]
  /\ UNCHANGED <<nseg, size, count, head, retiring, inuse, buffer,
                 access, local, calls, popped, gcvars>>

PushDone(t) == (Return(t, "done") \/ Return(t, "fail")) /\ UNCHANGED popped
----------------------------------------------------------------------------

(* prqPop: load the count; 0 is empty, on to the next segment.             *)
PopCount(t) ==
  /\ Goto(t, "count", "head")
  /\ cnt' = [cnt EXCEPT ![t] = count[seg[t]]]
  /\ UNCHANGED <<segvars, access, seg, hd, pos, full, havenext, assist, val, calls, popped, gcvars>>

PopHead(t) ==
  /\ Goto(t, "head", IF cnt[t] = 0 THEN "next" ELSE "flag")
  /\ hd' = [hd EXCEPT ![t] = head[seg[t]]]
  /\ pos' = [pos EXCEPT ![t] = 0]
  /\ UNCHANGED <<segvars, access, seg, cnt, full, havenext, assist, val, calls, popped, gcvars>>

PopNext(t) ==
  /\ Goto(t, "next", IF HasNext(seg[t]) THEN "hop" ELSE "empty")
  /\ UNCHANGED <<segvars, access, local, calls, popped, gcvars>>

PopFlag(t) ==
  /\ Goto(t, "flag", "load")
  /\ havenext' = [havenext EXCEPT ![t] = HasNext(seg[t])]
  /\ UNCHANGED <<segvars, access, seg, cnt, hd, pos, full, assist, val, calls, popped, gcvars>>

(* Look at the next slot of the scan.                                      *)
PopLoad(t) ==
  /\ pc[t] = "load"
  /\ \/ /\ pos[t] = size[seg[t]]
        /\ Goto(t, "load", "next")
        /\ UNCHANGED <<pos, val>>
     \/ /\ pos[t] < size[seg[t]] /\ buffer[seg[t]][PopSlot(t)] = Null
        /\ UNCHANGED <<pc, val>>
        /\ pos' = [pos EXCEPT ![t] = @ + 1]
     \/ /\ pos[t] < size[seg[t]] /\ buffer[seg[t]][PopSlot(t)] # Null
        /\ Goto(t, "load", "take")
        /\ val' = [val EXCEPT ![t] = buffer[seg[t]][PopSlot(t)]]
        /\ UNCHANGED pos
  /\ UNCHANGED <<segvars, access, seg, cnt, hd, full, havenext, assist, calls, popped, gcvars>>

(* Mutant: what was loaded is taken with a store.                          *)
PopTakeStore(t) ==
  /\ Goto(t, "take", "taken")
  /\ buffer' = [buffer EXCEPT ![seg[t]][PopSlot(t)] = Null]
  /\ popped' = [popped EXCEPT ![t] = Append(@, val[t])]
  /\ val' = [val EXCEPT ![t] = Null]
  /\ UNCHANGED <<nseg, size, count, head, reserved, retiring, inuse,
                 access, seg, cnt, hd, pos, full, havenext, assist, calls, gcvars>>

(* Take what was seen, if it is still there; if not, go on.                *)
PopTake(t) ==
  /\ pc[t] = "take"
  /\ val' = [val EXCEPT ![t] = Null]
  /\ \/ /\ buffer[seg[t]][PopSlot(t)] = val[t]
        /\ buffer' = [buffer EXCEPT ![seg[t]][PopSlot(t)] = Null]
        /\ popped' = [popped EXCEPT ![t] = Append(@, val[t])]
        /\ Goto(t, "take", "taken")
        /\ UNCHANGED pos
     \/ /\ buffer[seg[t]][PopSlot(t)] # val[t]
        /\ pos' = [pos EXCEPT ![t] = @ + 1]
        /\ Goto(t, "take", "load")
        /\ UNCHANGED <<buffer, popped>>
  /\ UNCHANGED <<nseg, size, count, head, reserved, retiring, inuse,
                 access, seg, cnt, hd, full, havenext, assist, calls, gcvars>>

PopTaken(t) ==
  /\ Goto(t, "taken", "advance")
  /\ count' = [count EXCEPT ![seg[t]] = @ - 1]
  /\ UNCHANGED <<nseg, size, head, reserved, retiring, inuse, buffer,
                 access, local, calls, popped, gcvars>>

(* Move the head past the slot: if it was the first one, or far from it,   *)
(* or in a segment that has been replaced; unless it has moved already.    *)
PopAdvance(t) ==
  LET s == seg[t]
  IN  /\ Goto(t, "advance", "done")
      /\ head' = IF /\ pos[t] = 0 \/ pos[t] > assist[t] \/ havenext[t]
                    /\ head[s] = hd[t]
                 THEN [head EXCEPT ![s] = (PopSlot(t) + 1) % size[s]] ELSE head
      /\ UNCHANGED <<nseg, size, count, reserved, retiring, inuse, buffer,
                     access, local, calls, popped, gcvars>>

PopDone(t) == (Return(t, "done") \/ Return(t, "empty")) /\ UNCHANGED popped
----------------------------------------------------------------------------

(* prqCollect: is there a next segment, and what does the current count?   *)
Collect ==
  /\ cycles < work.cycles /\ cycles' = cycles + 1
  /\ gc = "idle"
  /\ \/ HasNext(current) /\ gc' = "replaced"
     \/ ~HasNext(current) /\ gc' = "shrink"
  /\ UNCHANGED <<segvars, access, pc, local, calls, popped,
                 current, freed, gccount, gcaccess, overtaken, work>>

CollectCount ==
  /\ gc = "replaced" /\ gc' = "reserved"
  /\ gccount' = count[current]
  /\ UNCHANGED <<segvars, access, pc, local, calls, popped,
                 current, freed, gcaccess, cycles, overtaken, work>>

(* Mutant: the segment is retired whatever is reserved.                    *)
CollectRetireReserved ==
  /\ gc = "reserved" /\ gccount' = 0
  /\ \/ /\ ~retiring[current] /\ gc' = "idle"
        /\ retiring' = [retiring EXCEPT ![current] = TRUE]
        /\ UNCHANGED <<current, overtaken>>
     \/ /\ retiring[current] /\ gccount = 0 /\ gc' = "idle"
        /\ current' = current + 1
        /\ overtaken' = IF count[current] # 0 THEN overtaken \union {current} ELSE overtaken
        /\ UNCHANGED retiring
     \/ /\ retiring[current] /\ gccount # 0 /\ gc' = "shrink"
        /\ UNCHANGED <<current, overtaken, retiring>>
  /\ UNCHANGED <<nseg, size, count, head, reserved, inuse, buffer, access, pc, local, calls, popped,
                 freed, gcaccess, cycles, work>>

(* Load what is reserved: first set the retiring bit; if it is set and     *)
(* there is neither an entry nor a reservation, retire the segment.        *)
CollectRetire ==
  /\ gc = "reserved" /\ gccount' = 0
  /\ \/ /\ ~retiring[current] /\ gc' = "idle"
        /\ retiring' = [retiring EXCEPT ![current] = TRUE]
        /\ UNCHANGED <<current, overtaken>>
     \/ /\ retiring[current] /\ gccount = 0 /\ reserved[current] = 0 /\ gc' = "idle"
        /\ current' = current + 1
        /\ overtaken' = IF count[current] # 0 THEN overtaken \union {current} ELSE overtaken
        /\ UNCHANGED retiring
     \/ /\ retiring[current] /\ (gccount # 0 \/ reserved[current] # 0) /\ gc' = "shrink"
        /\ UNCHANGED <<current, overtaken, retiring>>
  /\ UNCHANGED <<nseg, size, count, head, reserved, inuse, buffer, access, pc, local, calls, popped,
                 freed, gcaccess, cycles, work>>

(* Chain a smaller segment to the last one, which ends the cycle ...       *)
CollectShrink ==
  /\ gc = "shrink" /\ gc' = "idle"
  /\ size[nseg] > TargetSize /\ ShrinkSize(size[nseg]) < size[nseg]
  /\ Chain(nseg, ShrinkSize(size[nseg]))
  /\ UNCHANGED <<count, head, reserved, retiring, inuse, buffer, access, pc, local, calls, popped,
                 current, freed, gccount, gcaccess, cycles, overtaken, work>>

(* ... or do not, and try to free the oldest retired segment: load access  *)
CollectNoShrink ==
  /\ gc = "shrink"
  /\ IF freed + 1 < current THEN gc' = "inuse" /\ gcaccess' = access ELSE gc' = "idle" /\ UNCHANGED gcaccess
  /\ UNCHANGED <<segvars, access, pc, local, calls, popped,
                 current, freed, gccount, cycles, overtaken, work>>

(* Mutant: access is not looked at.                                        *)
CollectFreeUnused ==
  /\ gc = "inuse" /\ gc' = "idle" /\ gcaccess' = 0
  /\ freed' = IF inuse[freed + 1] = 0 THEN freed + 1 ELSE freed
  /\ UNCHANGED <<segvars, access, pc, local, calls, popped, current, gccount, cycles, overtaken, work>>

(* and then inuse; free the segment if both are 0.                         *)
CollectFree ==
  /\ gc = "inuse" /\ gc' = "idle" /\ gcaccess' = 0
  /\ freed' = IF gcaccess = 0 /\ inuse[freed + 1] = 0 THEN freed + 1 ELSE freed
  /\ UNCHANGED <<segvars, access, pc, local, calls, popped, current, gccount, cycles, overtaken, work>>
----------------------------------------------------------------------------

Walk(t) == Current(t) \/ Use(t) \/ Leave(t) \/ Hop(t) \/ Unhop(t)

PushStep(t) ==
  \/ Push(t) \/ PushChase(t) \/ PushCount(t) \/ PushGrow(t) \/ PushReserve(t) \/ PushHead(t)
  \/ PushScan(t) \/ PushScanFails(t) \/ PushAdded(t) \/ PushUnreserve(t) \/ PushDone(t)

PopStep(t) ==
  \/ Pop(t) \/ PopCount(t) \/ PopHead(t) \/ PopNext(t) \/ PopFlag(t)
  \/ PopLoad(t) \/ PopTake(t) \/ PopTaken(t) \/ PopAdvance(t) \/ PopDone(t)

CollectStep ==
  \/ Collect \/ CollectCount \/ CollectRetire \/ CollectShrink \/ CollectNoShrink \/ CollectFree

Next ==
  \/ \E t \in Threads : Walk(t)
  \/ \E t \in Pushers : PushStep(t)
  \/ \E t \in Poppers : PopStep(t)
  \/ CollectStep

Spec == Init /\ [][Next]_vars
----------------------------------------------------------------------------

Filled(s) == {i \in Slots : buffer[s][i] # Null}

(* The segments a thread is about to touch.                                *)
Touches(t) ==
  CASE pc[t] \in {"idle", "current"} -> {}
    [] pc[t] \in {"hop", "unhop"} -> {seg[t], seg[t] + 1}
    [] OTHER -> {seg[t]}

(* No thread ever touches a segment that has been freed: what a thread got *)
(* from current, or from the nextseg of a segment it uses, stays until it  *)
(* lets go of it.                                                          *)
NoUseAfterFree == \A t \in Threads : \A s \in Touches(t) : s > freed

(* A retired segment has "been fully emptied and no longer [has] any valid *)
(* queue entries, nor can [it] have any entries pushed" (prqueue.h).       *)
RetiredIsEmpty == \A s \in 1..(current - 1) : Filled(s) = {}

(* What the code keeps of that: it holds unless a push was counted between *)
(* the collector's loads of count and of reserved.                         *)
RetiredIsEmptyUnlessOvertaken == \A s \in (1..(current - 1)) \ overtaken : Filled(s) = {}

(* The slots that hold v, and the pops that returned it.                   *)
SlotsOf(v) == {q \in Segs \X Slots : buffer[q[1]][q[2]] = v}
PopsOf(v) == UNION {{t} \X {i \in DOMAIN popped[t] : popped[t][i] = v} : t \in Poppers}

(* Each value is pushed once, so that a value stands for its push.         *)
DistinctPushes ==
  \A t, u \in Pushers : \A i \in DOMAIN work.push[t], j \in DOMAIN work.push[u] :
    work.push[t][i] = work.push[u][j] => t = u /\ i = j

(* No value is in two places, whichever threads race for it: it is in one  *)
(* slot, or one popper got it, once.                                       *)
OnePlace ==
  DistinctPushes =>
    \A v \in Values : Cardinality(SlotsOf(v)) + Cardinality(PopsOf(v)) <= 1

(* The count of a segment is the number of its entries, but for the pushes *)
(* that have not yet added theirs and the pops that have not yet taken     *)
(* theirs off: it is right whenever nobody is at work, however often it    *)
(* was overtaken.                                                          *)
CountExact ==
  \A s \in Segs :
    count[s] = Cardinality(Filled(s))
                 + Cardinality({t \in Poppers : seg[t] = s /\ pc[t] = "taken"})
                 - Cardinality({t \in Pushers : seg[t] = s /\ pc[t] = "added"})

Reserving == {"head", "scan", "rehead", "backout", "added", "unreserve"}

(* The counters that protect a segment from the collector count exactly    *)
(* the threads that rely on it, also after retries: none is forgotten,     *)
(* which would keep the segment for ever, and none is given back twice,    *)
(* which would free it too early.                                          *)
ProtectionExact ==
  /\ access = Cardinality({t \in Threads : pc[t] \in {"current", "use", "leave"}})
  /\ \A s \in Segs :
       /\ reserved[s] = Cardinality({t \in Pushers : seg[t] = s /\ pc[t] \in Reserving})
       /\ inuse[s] = Cardinality({t \in Threads : seg[t] = s /\ pc[t] # "use"})
                       + Cardinality({t \in Threads : seg[t] + 1 = s /\ pc[t] = "unhop"})

Index(p, v) == CHOOSE i \in DOMAIN work.push[p] : work.push[p][i] = v

(* "Pushes from a single thread are popped in order, as long as a single   *)
(* thread (not necessarily the same one) pops them sequentially"           *)
(* (prqueue.h).                                                            *)
PopsInOrder ==
  Cardinality(Poppers) = 1 =>
    \A p \in Pushers, t \in Poppers : \A i, j \in DOMAIN popped[t] :
      /\ i < j
      /\ \E k \in DOMAIN work.push[p] : work.push[p][k] = popped[t][i]
      /\ \E k \in DOMAIN work.push[p] : work.push[p][k] = popped[t][j]
      => Index(p, popped[t][i]) < Index(p, popped[t][j])
============================================================================
