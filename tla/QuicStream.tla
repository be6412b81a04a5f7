----------------------------- MODULE QuicStream -----------------------------
(***************************************************************************)
(* QUIC stream transfer over an unreliable network (src/cxquic).           *)
(*                                                                         *)
(* One endpoint, "tx", opens unidirectional streams and writes to them;    *)
(* the other, "rx", reads them.  Both send packets: tx stream data and     *)
(* resets, rx flow control limits and STOP_SENDING.  A packet may be lost, *)
(* delayed past later ones, or declared lost and then arrive; what it      *)
(* carried is found again by its number, as in stream.c: every byte of a   *)
(* send buffer and every control frame is a cell that is waiting, in a     *)
(* packet, or settled.                                                     *)
(*                                                                         *)
(* A chunk list (sendbuf.c) is the function from offsets to cells it       *)
(* stands for, a range list (reasm.c) the set of offsets it covers.  A     *)
(* data byte costs one unit of a packet's room, a control frame none.      *)
(* Time is abstracted: a timer may fire whenever it is armed, and the      *)
(* drops and premature timeouts of a behaviour are bounded.                *)
(***************************************************************************)
EXTENDS Integers, Sequences, SequencesExt, FiniteSets, FiniteSetsExt

CONSTANTS NStreams,    \* streams there may be
          Len0,        \* bytes there may be in one
          StreamWin,   \* initial_max_stream_data_uni of rx
          ConnWin,     \* initial_max_data of rx
          BufMax,      \* sendBufMax
          SendLow,     \* sendLow, the configured watermark
          PktBytes,    \* stream bytes one packet has room for
          MaxRanges,   \* QUIC_REASM_MAX_RANGES
          Plans        \* what may happen in a behaviour: see Plan

Streams == 1..NStreams
Offsets == 0..(Len0 - 1)
Ends    == {"tx", "rx"}

\* A plan: the bytes written to each stream, the streams written with SendAll,
\* the most bytes a write or a read asks for, the streams that may be abandoned,
\* rx's initial_max_streams_uni, the packets the congestion window admits, those
\* the network loses, and the losses and probes that come too early.
Plan == [len : UNION {[1..n -> 0..Len0] : n \in Streams}, whole : SUBSET Streams,
         sizes : SUBSET (1..Len0) \ {{}}, resets : SUBSET Streams, limit : Streams, cwnd : Nat \ {0}, drop : Nat, spur : Nat]

ASSUME QuicAssumption ==
    /\ {NStreams, Len0, StreamWin, ConnWin, BufMax, PktBytes, MaxRanges} \subseteq Nat \ {0}
    /\ SendLow \in Nat
    /\ Plans # {} /\ Plans \subseteq Plan

(***************************************************************************)
(* A cell is a byte or a control frame on its way to the peer.             *)
(***************************************************************************)
Unwritten == -3
Pending   == -2
Settled   == -1   \* a byte: acknowledged; a control frame: nothing to send

Cell == {Unwritten, Pending, Settled} \union Nat

\* _quicCtlAcked/_quicSendBufAcked and _quicCtlLost/_quicSendBufLost.
Acked(c, pn) == IF c = pn THEN Settled ELSE c
Lost(c, pn)  == IF c = pn THEN Pending ELSE c

VARIABLES plan,     \* the plan of this behaviour
          tx,       \* QuicStreams of the writing endpoint
          rx,       \* QuicStreams of the reading endpoint
          sent,     \* packets each endpoint has sent
          live,     \* those whose fate it does not know
          net,      \* the packets still on their way, with their frames
          got,      \* numbers that arrived and whose acknowledgement has not
          la,       \* largestAcked
          armed,    \* lossTime is set
          probes,   \* probe packets owed
          budget,   \* drops, premature timeouts and StopSending calls left
          wrote,    \* history: bytes each stream accepted from the application
          ended     \* history: bytes read when the end was reported, -1 before

vars == <<plan, tx, rx, sent, live, net, got, la, armed, probes, budget, wrote, ended>>

(***************************************************************************)
(* The writing endpoint.                                                   *)
(***************************************************************************)
End(r)         == Cardinality({b \in Offsets : r.out[b] # Unwritten})
Base(r)        == LET U == {b \in 0..(End(r) - 1) : r.out[b] # Settled}
                  IN  IF U = {} THEN End(r) ELSE Min(U)
Outstanding(r) == {b \in Offsets : r.out[b] \notin {Unwritten, Settled}}

IsSend(r)  == "out" \in DOMAIN r
Here(r)    == r.st \notin {"none", "gone"}
Writing(r) == r.st \in {"ready", "send"}

TxCtl == {"fin", "reset", "blocked"}
RxCtl == {"maxd", "stop"}

NewSend == [st |-> "ready", out |-> [b \in Offsets |-> Unwritten], max |-> StreamWin,
            blk |-> -1, want |-> FALSE, low |-> 0, final |-> 0, finAcked |-> FALSE,
            ctl |-> [c \in TxCtl |-> Settled]]
NewRecv == [st |-> "recv", in |-> {}, read |-> 0, limit |-> StreamWin, high |-> 0,
            final |-> -1, ctl |-> [c \in RxCtl |-> Settled]]

Init ==
    /\ plan \in Plans
    /\ tx = [max |-> ConnWin, off |-> 0, blk |-> -1, maxStr |-> plan.limit, next |-> 1,
             strBlk |-> -1, ctl |-> [c \in {"dblocked", "sblocked"} |-> Settled],
             act |-> <<>>, s |-> [i \in Streams |-> [NewSend EXCEPT !.st = "none"]]]
    /\ rx = [max |-> ConnWin, off |-> 0, read |-> 0, maxStr |-> plan.limit, next |-> 1,
             ctl |-> [c \in {"maxdata", "maxstr"} |-> Settled], err |-> "no",
             act |-> <<>>, s |-> [i \in Streams |-> [NewRecv EXCEPT !.st = "none"]]]
    /\ sent = [e \in Ends |-> 0]
    /\ live = [e \in Ends |-> {}]
    /\ net = [e \in Ends |-> {}]
    /\ got = [e \in Ends |-> {}]
    /\ la = [e \in Ends |-> 0]
    /\ armed = [e \in Ends |-> FALSE]
    /\ probes = [e \in Ends |-> 0]
    /\ budget = [drop |-> plan.drop, spur |-> plan.spur, stop |-> plan.resets]
    /\ wrote = [i \in Streams |-> 0]
    /\ ended = [i \in Streams |-> -1]

\* streamArm: on the list of streams the packet builder walks.
Arm(x, i) == IF i \in Range(x.act) THEN x ELSE [x EXCEPT !.act = Append(@, i)]
Disarm(x, i) == [x EXCEPT !.act = SelectSeq(@, LAMBDA j : j # i)]

\* streamPending; and streamPending || streamOutstanding
Waiting(r) == \/ \E c \in DOMAIN r.ctl : r.ctl[c] = Pending
              \/ IsSend(r) /\ \E b \in Offsets : r.out[b] = Pending
Busy(r)    == \/ \E c \in DOMAIN r.ctl : r.ctl[c] # Settled
              \/ IsSend(r) /\ Outstanding(r) # {}

\* Mutant: room that forgets the connection's limit.
SendRoomOfStream(x, i) ==
    IF ~Writing(x.s[i]) THEN 0
    ELSE Max({0, Min({x.s[i].max - End(x.s[i]), BufMax - (End(x.s[i]) - Base(x.s[i]))})})

\* sendRoom: both of the peer's limits and the local buffer.
SendRoom(x, i) ==
    LET r == x.s[i] IN
    IF ~Writing(r) THEN 0
    ELSE Max({0, Min({r.max - End(r), x.max - x.off, BufMax - (End(r) - Base(r))})})

\* sendWait: the sender has stopped and needs `want` bytes of room.
SendWait(x, i, want, room) ==
    LET low == Max({room + 1, Min({BufMax, Max({want, SendLow})})})
    IN  IF x.s[i].want /\ x.s[i].low >= low THEN x
        ELSE [x EXCEPT !.s[i].want = TRUE, !.s[i].low = low]

SendWaitIfFull(x, i) == IF SendRoom(x, i) = 0 THEN SendWait(x, i, 1, 0) ELSE x

\* sendUnblock: clears the wait and calls the writable handler.
SendUnblock(x, i) ==
    LET r == x.s[i]
        room == SendRoom(x, i)
    IN  IF ~r.want \/ room = 0 \/ (room < r.low /\ Outstanding(r) # {}) THEN x
        ELSE [x EXCEPT !.s[i].want = FALSE]

\* sendRefused: wait for room, and complain once for each limit of the peer.
SendRefused(x, i, want) ==
    LET y == SendWait(x, i, want, SendRoom(x, i))
        r == y.s[i]
        z == IF r.max <= End(r) /\ r.blk # r.max
             THEN Arm([y EXCEPT !.s[i].blk = r.max, !.s[i].ctl.blocked = Pending], i) ELSE y
    IN  IF z.max <= z.off /\ z.blk # z.max
        THEN [z EXCEPT !.blk = z.max, !.ctl.dblocked = Pending] ELSE z

\* sendReset: abandons the sending half.
SendReset(x, i) ==
    IF x.s[i].st \notin {"ready", "send", "datasent"} THEN x
    ELSE Arm([x EXCEPT !.s[i].st = "resetsent", !.s[i].final = End(x.s[i]),
                       !.s[i].out = [b \in Offsets |-> Unwritten],
                       !.s[i].ctl = [@ EXCEPT !.fin = Settled, !.blocked = Settled,
                                              !.reset = Pending]], i)

(***************************************************************************)
(* What tx does with rx's frames.  A frame about a stream that is already  *)
(* forgotten is ignored (streamForFrame).                                  *)
(***************************************************************************)
\* connMaxData
HandleMaxData(x, v) ==
    IF v <= x.max THEN x
    ELSE LET here == SetToSeq({i \in Streams : Here(x.s[i])})
             y == FoldLeft(SendWaitIfFull, x, here)
         IN  FoldLeft(SendUnblock, [y EXCEPT !.max = v, !.ctl.dblocked = Settled], here)

HandleMaxStreamData(x, i, v) ==
    IF ~Here(x.s[i]) \/ v <= x.s[i].max THEN x
    ELSE SendUnblock([SendWaitIfFull(x, i) EXCEPT !.s[i].max = v,
                                                  !.s[i].ctl.blocked = Settled], i)

HandleMaxStreams(x, v) ==
    IF v <= x.maxStr THEN x ELSE [x EXCEPT !.maxStr = v, !.ctl.sblocked = Settled]

HandleStopSending(x, i) == IF Here(x.s[i]) THEN SendReset(x, i) ELSE x

TxFrame(x, f) ==
    CASE f.t = "maxdata" -> HandleMaxData(x, f.v)
      [] f.t = "maxstr"  -> HandleMaxStreams(x, f.v)
      [] f.t = "maxd"    -> HandleMaxStreamData(x, f.i, f.v)
      [] f.t = "stop"    -> HandleStopSending(x, f.i)

(***************************************************************************)
(* What rx does with tx's frames.                                          *)
(***************************************************************************)
Fail(x, why) == IF x.err = "no" THEN [x EXCEPT !.err = why] ELSE x

\* streamAdmit: opens the stream and every lower-numbered one.
Admit(x, i) ==
    IF i < x.next THEN x
    ELSE IF i > x.maxStr THEN Fail(x, "streamLimit")
    ELSE [x EXCEPT !.next = i + 1,
                   !.s = [j \in Streams |-> IF j \in x.next..i THEN NewRecv ELSE @[j]]]

\* recvFinalSize
FinalSize(x, i, size) ==
    LET r == x.s[i] IN
    IF (r.final # -1 /\ size # r.final) \/ (r.final = -1 /\ size < r.high)
    THEN Fail(x, "finalSize") ELSE [x EXCEPT !.s[i].final = size]

\* recvAccount: a newly seen offset uses stream and connection credit.
Account(x, i, end) ==
    LET r == x.s[i] IN
    IF end <= r.high THEN x
    ELSE IF end > r.limit \/ x.off + (end - r.high) > x.max THEN Fail(x, "flowControl")
    ELSE [x EXCEPT !.off = @ + (end - r.high), !.s[i].high = end]

\* connWindowUpdate
ConnWindowUpdate(x) ==
    LET want == x.read + ConnWin IN
    IF want <= x.max \/ want - x.max < ConnWin \div 2 THEN x
    ELSE [x EXCEPT !.max = want, !.ctl.maxdata = Pending]

\* Mutant: an update whose stream is not put on the list to send.
RecvWindowUpdateUnarmed(x, i) ==
    LET want == x.s[i].read + StreamWin
    IN  IF x.s[i].st # "recv" \/ want - x.s[i].limit < StreamWin \div 2 THEN x
        ELSE [x EXCEPT !.s[i].limit = want, !.s[i].ctl.maxd = Pending]

\* recvWindowUpdate
RecvWindowUpdate(x, i) ==
    LET r == x.s[i]
        want == r.read + StreamWin
    IN  IF r.st # "recv" \/ want <= r.limit \/ want - r.limit < StreamWin \div 2 THEN x
        ELSE Arm([x EXCEPT !.s[i].limit = want, !.s[i].ctl.maxd = Pending], i)

\* Mutant: a reset that keeps the connection credit of unread bytes.
ReleaseNothing(x, i) == [x EXCEPT !.s[i].read = x.s[i].final]

\* recvRelease: bytes that will not be read give their credit back.
Release(x, i) ==
    ConnWindowUpdate([x EXCEPT !.read = @ + (x.s[i].final - x.s[i].read),
                               !.s[i].read = x.s[i].final])

\* Mutant: bytes that arrive early are dropped.
ReasmAddInOrder(r, off, n) ==
    IF off > r.read THEN r
    ELSE [r EXCEPT !.in = @ \union {b \in off..(off + n - 1) : b >= r.read}]

\* _quicReasmAdd: bytes that would open one range too many are dropped.
ReasmAdd(r, off, n) ==
    LET new    == {b \in off..(off + n - 1) : b >= r.read}
        ranges == {b \in r.in : b - 1 \notin r.in}
        apart  == r.in \intersect (Min(new) - 1)..(off + n) = {}
    IN  IF new = {} \/ (apart /\ Cardinality(ranges) >= MaxRanges) THEN r
        ELSE [r EXCEPT !.in = @ \union new]

\* _quicReasmReadable
Readable(r) == LET gap == {b \in r.read..Len0 : b \notin r.in} IN Min(gap) - r.read

\* Mutant: the end by the highest offset seen, not by what can be read.
AllSeen(r) == r.high = r.final

\* Everything up to the final size can be read.
AllReadable(r) == r.read + Readable(r) = r.final

\* handleStreamData, from the point where the stream is known
TakeData(x, f) ==
    LET i == f.i
        end == f.off + f.n
        y == IF x.s[i].final # -1 /\ (end > x.s[i].final \/ (f.fin /\ end # x.s[i].final))
             THEN Fail(x, "finalSize")
             ELSE IF f.fin THEN FinalSize(x, i, end) ELSE x
        z == IF y.err = "no" THEN Account(y, i, end) ELSE y
        r == IF f.n = 0 THEN z.s[i] ELSE ReasmAdd(z.s[i], f.off, f.n)
        k == IF r.final # -1 /\ r.st = "recv" THEN "sizeknown" ELSE r.st
        d == IF k = "sizeknown" /\ AllReadable(r) THEN "datarecvd" ELSE k
    IN  IF z.err # "no" \/ z.s[i].st \in {"reset", "dataread"} THEN z
        ELSE [z EXCEPT !.s[i] = [r EXCEPT !.st = d]]

\* handleResetStream, likewise
TakeReset(x, f) ==
    LET i == f.i
        y == FinalSize(x, i, f.v)
        z == IF y.err = "no" /\ y.s[i].st # "reset" THEN Account(y, i, y.s[i].final) ELSE y
        r == z.s[i]
    IN  IF z.err # "no" \/ r.st = "reset" THEN z
        ELSE Release([z EXCEPT !.s[i].st = "reset", !.s[i].in = {}], i)

RxFrame(x, f) ==
    IF x.err # "no" \/ f.t \in {"dblocked", "sblocked"} THEN x
    ELSE LET y == Admit(x, f.i) IN
         IF y.err # "no" \/ ~Here(y.s[f.i]) THEN y
         ELSE CASE f.t = "data"    -> TakeData(y, f)
                [] f.t = "reset"   -> TakeReset(y, f)
                [] f.t = "blocked" -> y

(***************************************************************************)
(* Building a packet.                                                      *)
(***************************************************************************)
Frame(t, i, off, n, fin, v) == [t |-> t, i |-> i, off |-> off, n |-> n, fin |-> fin, v |-> v]

\* putCtl: the control frames of `order` that are waiting go out in packet pn.
PutCtl(ctl, order, pn) ==
    [c \in DOMAIN ctl |-> IF c \in Range(order) /\ ctl[c] = Pending THEN pn ELSE ctl[c]]
WaitingCtl(ctl, order) ==
    SelectSeq(order, LAMBDA c : c \in DOMAIN ctl /\ ctl[c] = Pending)

ConnCtl   == <<"maxdata", "dblocked", "maxstr", "sblocked">>
StreamCtl == <<"stop", "maxd", "reset", "blocked">>

\* fillConn
FillConn(x, pn) ==
    LET Val(c) == CASE c = "maxdata" -> x.max [] c = "maxstr" -> x.maxStr [] OTHER -> 0
        put == WaitingCtl(x.ctl, ConnCtl)
    IN  [x |-> [x EXCEPT !.ctl = PutCtl(@, ConnCtl, pn)], room |-> PktBytes,
         fr |-> [k \in 1..Len(put) |-> Frame(put[k], 0, 0, 0, FALSE, Val(put[k]))]]

\* fillStreamData: waiting ranges from the lowest; the end of the stream rides
\* with its last bytes, or goes alone once no byte waits.
FillStreamData(r, i, pn, room) ==
    LET wait == {b \in Offsets : r.out[b] = Pending}
        take == {b \in wait : Cardinality({c \in wait : c < b}) < room}
        starts == SetToSortSeq({b \in take : b - 1 \notin take}, <)
        Stop(b) == Min({c \in b..Len0 : c \notin take})
        ends == r.ctl.fin = Pending
        rides == ends /\ End(r) - 1 \in take
        alone == ends /\ wait = take /\ ~rides /\ room > Cardinality(take)
    IN  [r |-> [r EXCEPT !.out = [b \in Offsets |-> IF b \in take THEN pn ELSE @[b]],
                         !.ctl.fin = IF rides \/ alone THEN pn ELSE @],
         fr |-> [k \in 1..Len(starts) |->
                    LET b == starts[k]
                    IN  Frame("data", i, b, Stop(b) - b, rides /\ Stop(b) = End(r), 0)]
                \o (IF alone THEN <<Frame("data", i, End(r), 0, TRUE, 0)>> ELSE <<>>),
         room |-> room - Cardinality(take)]

\* streamSettle: a finished stream is forgotten; the reader makes room for another.
Settle(x, i) ==
    CASE x.s[i].st \in {"datadone", "resetdone"} ->
           [x EXCEPT !.s[i] = [NewSend EXCEPT !.st = "gone"]]
      [] x.s[i].st \in {"dataread", "resetread"} ->
           [x EXCEPT !.s[i] = [NewRecv EXCEPT !.st = "gone"], !.maxStr = @ + 1,
                     !.ctl.maxstr = Pending]
      [] OTHER -> x

\* fillStream and one turn of _quicStreamsFill: the front of the list goes to its end.
FillStream(a, i, pn) ==
    LET r == a.x.s[i]
        put == WaitingCtl(r.ctl, StreamCtl)
        Val(c) == CASE c = "reset" -> r.final [] c = "maxd" -> r.limit [] OTHER -> 0
        p == [r EXCEPT !.ctl = PutCtl(@, StreamCtl, pn)]
        d == IF IsSend(p) THEN FillStreamData(p, i, pn, a.room)
             ELSE [r |-> p, fr |-> <<>>, room |-> a.room]
        y == [a.x EXCEPT !.act = Tail(@), !.s[i] = d.r]
    IN  IF a.room = 0 THEN a
        ELSE IF ~Here(r) THEN [a EXCEPT !.x.act = Tail(@)]
        ELSE [x |-> IF Busy(d.r) THEN Arm(y, i) ELSE Settle(y, i), room |-> d.room,
              fr |-> a.fr \o [k \in 1..Len(put) |-> Frame(put[k], i, 0, 0, FALSE, Val(put[k]))]
                     \o d.fr]

\* _quicStreamsFill
Fill(x, pn) == FoldLeft(LAMBDA a, i : FillStream(a, i, pn), FillConn(x, pn), x.act)

\* _quicStreamsWantsToSend
WantsToSend(x) ==
    \/ \E c \in DOMAIN x.ctl : x.ctl[c] = Pending
    \/ \E i \in Range(x.act) : Here(x.s[i]) /\ Waiting(x.s[i])

(***************************************************************************)
(* What came back.                                                         *)
(***************************************************************************)
\* streamsResolve, one stream
ResolveStream(x, i, pn, acked) ==
    LET y == IF acked /\ IsSend(x.s[i]) THEN SendWaitIfFull(x, i) ELSE x
        r == y.s[i]
        To(c) == IF acked THEN Acked(c, pn) ELSE Lost(c, pn)
        c == [r EXCEPT !.ctl = [k \in DOMAIN @ |-> To(@[k])]]
        o == IF IsSend(r) THEN [c EXCEPT !.out = [b \in Offsets |-> To(@[b])]] ELSE c
        f == IF acked /\ IsSend(r) /\ r.ctl.fin = pn
             THEN [o EXCEPT !.finAcked = TRUE] ELSE o
        g == IF acked /\ IsSend(r) /\ r.ctl.reset = pn
             THEN [f EXCEPT !.st = "resetdone"] ELSE f
        h == IF acked /\ g.st = "datasent" /\ g.finAcked /\ Outstanding(g) = {}
             THEN [g EXCEPT !.st = "datadone"] ELSE g
        z == [y EXCEPT !.s[i] = h]
        w == IF acked /\ IsSend(r) THEN SendUnblock(z, i) ELSE z
    IN  IF ~Here(x.s[i]) THEN Disarm(x, i)
        ELSE IF Busy(w.s[i]) THEN w ELSE Settle(Disarm(w, i), i)

\* _quicStreamsAcked, _quicStreamsLost
Resolve(x, pn, acked) ==
    LET To(c) == IF acked THEN Acked(c, pn) ELSE Lost(c, pn)
        y == [x EXCEPT !.ctl = [c \in DOMAIN @ |-> To(@[c])]]
    IN  FoldLeft(LAMBDA z, i : ResolveStream(z, i, pn, acked), y, y.act)

ResolveAll(x, S, acked) ==
    FoldLeft(LAMBDA y, pn : Resolve(y, pn, acked), x, SetToSortSeq(S, <))

(***************************************************************************)
(* The endpoints together.                                                 *)
(***************************************************************************)
Side(e) == IF e = "tx" THEN tx ELSE rx
Become(e, x) == IF e = "tx" THEN tx' = x /\ UNCHANGED rx ELSE rx' = x /\ UNCHANGED tx

\* The packets of e that were not dropped and whose ACK is still to come.
Alive(e) == {p.pn : p \in net[e]} \union got[e]

\* conn.c flushOne in the application space.  A probe goes out whatever the
\* window, with a PING if there is nothing else to send.
CanFlush(e) ==
    /\ rx.err = "no"
    /\ \/ WantsToSend(Side(e)) /\ Cardinality(live[e]) < plan.cwnd
       \/ probes[e] > 0

Flush(e) ==
    /\ CanFlush(e)
    /\ LET pn == sent[e] + 1
           a  == Fill(Side(e), pn)
       IN  /\ Become(e, a.x)
           /\ sent' = [sent EXCEPT ![e] = pn]
           /\ live' = [live EXCEPT ![e] = @ \union {pn}]
           /\ net'  = [net EXCEPT ![e] = @ \union {[pn |-> pn, fr |-> a.fr]}]
    /\ probes' = [probes EXCEPT ![e] = Max({0, @ - 1})]
    /\ UNCHANGED <<plan, got, la, armed, budget, wrote, ended>>

\* processPacket: the number is recorded for acknowledgement, then each frame
\* is handled (processFrames, _quicStreamsFrame).
Deliver(e, p) ==
    /\ rx.err = "no"
    /\ net' = [net EXCEPT ![e] = @ \ {p}]
    /\ got' = [got EXCEPT ![e] = @ \union {p.pn}]
    /\ IF e = "tx" THEN Become("rx", FoldLeft(RxFrame, rx, p.fr))
                   ELSE Become("tx", FoldLeft(TxFrame, tx, p.fr))
    /\ UNCHANGED <<plan, sent, live, la, armed, probes, budget, wrote, ended>>

\* What is left of e's packets.  Numbers are only compared with one another, so
\* they are kept relative to the oldest packet that matters.
Keep(e, x, lv, way, arrived, l) ==
    LET d == Min(lv \union {p.pn : p \in way} \union arrived \union {sent[e] + 1}) - 1
        Cells(f) == [c \in DOMAIN f |-> IF f[c] > 0 THEN f[c] - d ELSE f[c]]
        Stream(r) == IF IsSend(r) THEN [r EXCEPT !.ctl = Cells(@), !.out = Cells(@)]
                     ELSE [r EXCEPT !.ctl = Cells(@)]
    IN  /\ Become(e, [x EXCEPT !.ctl = Cells(@), !.s = [i \in Streams |-> Stream(@[i])]])
        /\ sent' = [sent EXCEPT ![e] = @ - d]
        /\ live' = [live EXCEPT ![e] = {p - d : p \in lv}]
        /\ net' = [net EXCEPT ![e] = {[p EXCEPT !.pn = @ - d] : p \in way}]
        /\ got' = [got EXCEPT ![e] = {p - d : p \in arrived}]
        /\ la' = [la EXCEPT ![e] = Max({0, l - d})]

Drop(e, p) ==
    /\ budget.drop > 0
    /\ budget' = [budget EXCEPT !.drop = @ - 1]
    /\ Keep(e, Side(e), live[e], net[e] \ {p}, got[e], la[e])
    /\ UNCHANGED <<plan, armed, probes, wrote, ended>>

\* detectLoss when e's packets are acknowledged up to l and `left` are not: three
\* later numbers are enough, and any age cut is possible, which takes the oldest
\* first.  A cut that gives up a packet still alive is charged to the budget.
DetectLoss(e, x, left, arrived, l, aged) ==
    LET old  == {p \in left : p <= l}
        lost == {p \in old : p + 3 <= l \/ p <= aged}
        cost == Cardinality({p \in lost \intersect Alive(e) : p + 3 > l})
    IN  /\ cost <= budget.spur
        /\ Keep(e, ResolveAll(x, lost, FALSE), left \ lost, net[e], arrived, l)
        /\ armed' = [armed EXCEPT ![e] = old # lost]
        /\ budget' = [budget EXCEPT !.spur = @ - cost]
        /\ UNCHANGED <<plan, probes, wrote, ended>>

\* handleAck, _quicRecovOnAck: an ACK of what has arrived.  A delayed ACK is one
\* that comes later; a lost one is made up for by the next.
AckArrives(e, aged) ==
    LET new == got[e] \intersect live[e]
        l   == Max({la[e]} \union got[e])
    IN  /\ got[e] # {} /\ rx.err = "no"
        /\ IF new = {}
           THEN /\ aged = 0
                /\ Keep(e, Side(e), live[e], net[e], {}, l)
                /\ UNCHANGED <<plan, armed, budget, probes, wrote, ended>>
           ELSE DetectLoss(e, ResolveAll(Side(e), new, TRUE), live[e] \ new, {}, l, aged)

\* _quicRecovOnTimeout with a loss time: the oldest packet is due.
LossDue(e) ==
    /\ armed[e] /\ rx.err = "no"
    /\ budget.spur > 0 \/ Min(live[e]) \notin Alive(e) \/ Min(live[e]) + 3 <= la[e]

LossTimer(e, aged) ==
    /\ LossDue(e) /\ aged >= Min(live[e])
    /\ DetectLoss(e, Side(e), live[e], got[e], la[e], aged)

\* _quicRecovOnTimeout without one: two probes are owed.
PtoCost(e) == IF live[e] \intersect Alive(e) = {} THEN 0 ELSE 1
PtoDue(e) == /\ ~armed[e] /\ live[e] # {} /\ probes[e] < 2 /\ rx.err = "no"
             /\ PtoCost(e) <= budget.spur

Pto(e) ==
    /\ PtoDue(e)
    /\ budget' = [budget EXCEPT !.spur = @ - PtoCost(e)]
    /\ probes' = [probes EXCEPT ![e] = 2]
    /\ UNCHANGED <<plan, tx, rx, sent, live, net, got, la, armed, wrote, ended>>

(***************************************************************************)
(* What the applications call.                                             *)
(***************************************************************************)
network == <<plan, sent, live, net, got, la, armed, probes, budget>>

\* _quicStreamOpen; the complaint about a limit is made once.
CanOpen == tx.next <= Len(plan.len) /\ (tx.next <= tx.maxStr \/ tx.strBlk # tx.maxStr)

Open ==
    /\ CanOpen
    /\ tx' = IF tx.next > tx.maxStr
             THEN [tx EXCEPT !.strBlk = tx.maxStr, !.ctl.sblocked = Pending]
             ELSE [tx EXCEPT !.s[tx.next] = NewSend, !.next = @ + 1]
    /\ UNCHANGED <<rx, network, wrote, ended>>

\* _quicStreamSend of n bytes, from the point where `len` is settled
Take(x, i, want, n) ==
    LET r == x.s[i]
        y == IF n = 0 THEN x
             ELSE Arm([x EXCEPT !.off = @ + n,
                                !.s[i].out = [b \in Offsets |-> IF b \in End(r)..(End(r) + n - 1)
                                                                THEN Pending ELSE @[b]],
                                !.s[i].st = "send"], i)
    IN  IF want > n THEN SendRefused(y, i, want) ELSE y

\* What an application asks for that has m bytes to write, or to read.
UpTo(m) == {Min({n, m}) : n \in plan.sizes}

\* An application that was refused waits for the writable handler.
CanSend(i) == Writing(tx.s[i]) /\ ~tx.s[i].want /\ wrote[i] < plan.len[i]

Send(i, want) ==
    /\ i \notin plan.whole /\ CanSend(i) /\ want \in UpTo(plan.len[i] - wrote[i])
    /\ LET n == Min({want, SendRoom(tx, i)})
       IN  tx' = Take(tx, i, want, n) /\ wrote' = [wrote EXCEPT ![i] = @ + n]
    /\ UNCHANGED <<rx, network, ended>>

SendAll(i, want) ==
    /\ i \in plan.whole /\ CanSend(i) /\ want \in UpTo(plan.len[i] - wrote[i])
    /\ IF SendRoom(tx, i) < want
       THEN tx' = SendRefused(tx, i, want) /\ UNCHANGED wrote
       ELSE tx' = Take(tx, i, want, want) /\ wrote' = [wrote EXCEPT ![i] = @ + want]
    /\ UNCHANGED <<rx, network, ended>>

\* _quicStreamFinish
CanFinish(i) == Writing(tx.s[i]) /\ wrote[i] = plan.len[i]

Finish(i) ==
    /\ CanFinish(i)
    /\ tx' = Arm([tx EXCEPT !.s[i].st = "datasent", !.s[i].ctl.fin = Pending], i)
    /\ UNCHANGED <<rx, network, wrote, ended>>

\* _quicStreamReset
ResetStream(i) ==
    /\ i \in plan.resets /\ Here(tx.s[i])
    /\ tx' = SendReset(tx, i)
    /\ tx' # tx
    /\ UNCHANGED <<rx, network, wrote, ended>>

\* _quicStreamRecv: up to n bytes, after the readable handler said there is something.
CanRecv(i) ==
    /\ Here(rx.s[i]) /\ rx.err = "no"
    /\ Readable(rx.s[i]) > 0 \/ rx.s[i].st \in {"datarecvd", "reset"}

Recv(i, n) ==
    LET r == rx.s[i]
        m == Min({n, Readable(r)})
        y == [rx EXCEPT !.read = @ + m, !.s[i].read = @ + m,
                        !.s[i].in = {b \in @ : b >= r.read + m}]
        z == IF m > 0 THEN ConnWindowUpdate(RecvWindowUpdate(y, i)) ELSE y
        end == r.st = "datarecvd" /\ Readable(z.s[i]) = 0
    IN  /\ CanRecv(i)
        /\ IF r.st = "reset"
           THEN n = 1 /\ rx' = Settle([rx EXCEPT !.s[i].st = "resetread"], i) /\ UNCHANGED ended
           ELSE /\ n \in UpTo(Max({1, Readable(r)}))
                /\ rx' = IF end THEN Settle([z EXCEPT !.s[i].st = "dataread"], i) ELSE z
                /\ ended' = IF end THEN [ended EXCEPT ![i] = z.s[i].read] ELSE ended
        /\ UNCHANGED <<tx, network, wrote>>

\* _quicStreamStopSending
StopSending(i) ==
    /\ i \in budget.stop /\ rx.s[i].st = "recv"
    /\ rx' = Arm([rx EXCEPT !.s[i].ctl.stop = Pending], i)
    /\ budget' = [budget EXCEPT !.stop = @ \ {i}]
    /\ UNCHANGED <<plan, tx, sent, live, net, got, la, armed, probes, wrote, ended>>

Next ==
    \/ Open
    \/ \E i \in Streams, n \in 1..Len0 : Send(i, n) \/ SendAll(i, n) \/ Recv(i, n)
    \/ \E i \in Streams : Finish(i) \/ ResetStream(i) \/ StopSending(i)
    \/ \E e \in Ends : Flush(e) \/ Pto(e)
    \/ \E e \in Ends : \E p \in net[e] : Deliver(e, p) \/ Drop(e, p)
    \/ \E e \in Ends : \E aged \in {0} \union live[e] :
          LossTimer(e, aged) \/ AckArrives(e, aged)

Spec == Init /\ [][Next]_vars

\* Packets that are not dropped arrive, timers fire, the connection is flushed while
\* it has something to send, and the applications use the streams: they write when
\* there is room, finish, and read what there is.
\*
\* Each conjunct is weak fairness of an action, WF_vars(A), with its guard for ENABLED A.
FairSpec ==
    /\ Spec
    /\ []<>~CanOpen \/ []<><<Open>>_vars
    /\ \A i \in Streams :
         /\ \/ []<>~(CanSend(i) /\ (i \in plan.whole \/ SendRoom(tx, i) > 0))
            \/ []<><<\E n \in 1..Len0 : Send(i, n) \/ SendAll(i, n)>>_vars
         /\ []<>~CanFinish(i) \/ []<><<Finish(i)>>_vars
         /\ []<>~CanRecv(i) \/ []<><<\E n \in 1..Len0 : Recv(i, n)>>_vars
    /\ \A e \in Ends :
         /\ []<>~CanFlush(e) \/ []<><<Flush(e)>>_vars
         /\ []<>~PtoDue(e) \/ []<><<Pto(e)>>_vars
         /\ []<>~LossDue(e) \/ []<><<\E aged \in live[e] : LossTimer(e, aged)>>_vars
         /\ \/ []<>~(got[e] # {} /\ rx.err = "no")
            \/ []<><<\E aged \in {0} \union live[e] : AckArrives(e, aged)>>_vars
         /\ \/ []<>~(net[e] # {} /\ rx.err = "no")
            \/ []<><<\E p \in net[e] : Deliver(e, p)>>_vars

(***************************************************************************)
(* Properties.                                                             *)
(***************************************************************************)
\* Types; a stream the reader is done with does not linger with it, and every number watched
\* or on its way was used (streamSettle, _quicRecovOnSent).
TypeOK ==
    /\ tx.max \in Nat /\ tx.off \in Nat /\ tx.maxStr \in Nat /\ tx.next \in 1..(NStreams + 1)
    /\ \A i \in Streams :
         /\ tx.s[i].st \in {"none", "ready", "send", "datasent", "datadone", "resetsent",
                            "resetdone", "gone"}
         /\ tx.s[i].out \in [Offsets -> Cell] /\ tx.s[i].ctl \in [TxCtl -> Cell]
         /\ rx.s[i].st \in {"none", "recv", "sizeknown", "datarecvd", "reset", "gone"}
         /\ rx.s[i].in \subseteq Offsets /\ rx.s[i].ctl \in [RxCtl -> Cell]
    /\ \A e \in Ends : live[e] \subseteq 1..sent[e] /\ Alive(e) \subseteq 1..sent[e]

\* A byte the writer has let go of because it was acknowledged has been read,
\* or is held for the reader, or belongs to a stream the reader gave up.
AckedIsHeld ==
    \A i \in Streams : \A b \in Offsets :
        tx.s[i].out[b] = Settled =>
            rx.s[i].st \in {"reset", "gone"} \/ b < rx.s[i].read \/ b \in rx.s[i].in

\* Nothing a writer that keeps to the limits it was told sends, lost, late or
\* twice, makes the reader close the connection.
NoSelfInflictedError == rx.err = "no"

\* A reader that is told the stream ended has been given every byte written to it.
CleanEndIsComplete ==
    \A i \in Streams : ended[i] # -1 => ended[i] = wrote[i] /\ wrote[i] = plan.len[i]

\* Credit is neither lost nor made: once the reader is done with every stream that
\* was opened, by reading or by a reset, each byte the writer charged to the
\* connection has been given back.
CreditReturned ==
    (\A i \in 1..(tx.next - 1) : rx.s[i].st = "gone") => rx.read = tx.off /\ rx.off = tx.off

Gone(i) == tx.s[i].st = "gone" /\ rx.s[i].st = "gone"

\* A write that may not be split was refused although part of it would fit, and nothing is in
\* flight: the reader has given less than half a window back, and sendUnblock is not called.
Stuck(i) ==
    /\ i \in plan.whole /\ tx.s[i].want
    /\ SendRoom(tx, i) > 0 /\ Outstanding(tx.s[i]) = {}

\* Whatever is lost, late or reset, every stream is opened, ends and is forgotten at both
\* ends: a lost limit, a withdrawn frame and credit held back until half a window has been
\* read stop no transfer. The exception is a write with _quicStreamSendAll that finds room for
\* part of itself and nothing in flight, which nothing ever wakes (sendUnblock's comment says
\* that such a sender is woken), and a stream that waits for that one's number.
AllStreamsEnd ==
    \A i \in Streams :
        \/ <>(Gone(i) \/ i > Len(plan.len))
        \/ <>[](Stuck(i) \/ (i >= tx.next /\ \E j \in Streams : Stuck(j)))
=============================================================================
