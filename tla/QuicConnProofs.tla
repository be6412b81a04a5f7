--------------------------- MODULE QuicConnProofs ---------------------------
(***************************************************************************)
(* The safety properties of QuicConn, for every length of the server's     *)
(* flight and every plan of losses, duplicates, overtakings, timeouts,     *)
(* closes and refusals.                                                    *)
(*                                                                         *)
(* A step runs a chain of operators over one connection's record, the last *)
(* of which is the loop of a flush.  Each operator has a lemma that says   *)
(* what it may change, and the loop is reasoned about by induction on its  *)
(* turns.  What ties the two ends together are facts that never become     *)
(* false again: how far an end's TLS engine must have come for a packet to *)
(* have been sent, for a key to be there, for a space to be gone.          *)
(***************************************************************************)
EXTENDS QuicConn, SequenceTheorems, FiniteSetTheorems, WellFoundedInduction, TLAPS

ConnFields  == {"st", "tls", "confirmed", "valid", "sawHs", "soon", "iLater", "pto", "credit",
                "closePending", "sp", "torn", "appClosing", "why", "told", "spoke", "outbox"}
SpaceFields == {"tx", "rx", "gone", "out", "in", "next", "got", "ackp", "ackPn", "live", "elic",
                "la", "armed", "probes"}

(* What EXCEPT needs to know of the records; packet numbers are naturals,  *)
(* so that no cell is confused with one.                                   *)
SpaceShape(p) ==
  /\ DOMAIN p = SpaceFields /\ DOMAIN p.out = Pieces
  /\ p.next \in Nat /\ p.live \subseteq Nat

Shape(x) ==
  /\ DOMAIN x = ConnFields /\ DOMAIN x.sp = Spaces
  /\ \A s \in Spaces : SpaceShape(x.sp[s])

IsSeq(q) == q \in Seq(Range(q))

(* The engine's progress at which it has Handshake keys.                   *)
Keyed(e) == IF e = "client" THEN 2 ELSE 1

(* Nothing has been written into the space.                                *)
Blank(p) == \A i \in Pieces : p.out[i] = Unwritten

(* Which keys an end that is not torn down has, and which spaces it has    *)
(* thrown away, given how far its TLS engine is.                           *)
Keys(e, x) ==
  LET I == x.sp["initial"]
      H == x.sp["handshake"]
      A == x.sp["app"]
  IN  /\ x.tls \in 0..(Keyed(e) + 1)
      /\ H.tx \/ H.rx => x.tls >= Keyed(e)
      /\ x.tls >= Keyed(e) => H.tx \/ H.gone
      /\ A.rx => Done(e, x)
      /\ Done(e, x) \/ (e = "server" /\ x.tls = 1) => A.tx
      /\ x.sawHs => x.tls >= Keyed(e)
      /\ I.gone => x.sawHs
      /\ I.gone \/ I.tx
      /\ x.soon => e = "server"
      /\ x.soon \/ H.gone => Done(e, x)
      /\ ~A.gone
      /\ e = "client" => (Blank(H) \/ x.tls = 3)
      /\ e = "server" => /\ Blank(I) \/ x.tls >= 1
                         /\ Blank(A) \/ x.tls = 2
                         /\ x.tls = 2 => x.confirmed

(* What an end may conclude about the other, o, from what it has got.      *)
Knows(e, x, o) ==
  LET I == x.sp["initial"]
      H == x.sp["handshake"]
  IN  IF e = "client"
      THEN /\ x.tls >= 2 \/ I.in # {} => o.tls >= 1
           /\ H.gone \/ x.confirmed => o.tls = 2 /\ o.confirmed
      ELSE /\ x.sawHs => o.tls >= 2
           /\ x.tls = 2 \/ H.in # {} => o.tls = 3

(* The packet numbers a space has used.                                    *)
Used(p) == 0..(p.next - 1)

(* A space still there was there before, and has used no fewer numbers.    *)
Ahead(x, y) ==
  \A s \in Spaces : ~y.sp[s].gone => /\ ~x.sp[s].gone
                                    /\ Used(x.sp[s]) \subseteq Used(y.sp[s])

(* What an end has recorded in a space that both ends still have are       *)
(* numbers the other one has used.                                         *)
Heard(x, o) ==
  \A s \in Spaces : ~x.sp[s].gone /\ ~o.sp[s].gone => x.sp[s].got \subseteq Used(o.sp[s])

(* The numbers of a datagram are the sender's, those it acknowledges the   *)
(* receiver's.                                                             *)
Numbered(c, d) == \A s \in DOMAIN d : ~c.sp[s].gone => d[s].pn \in Used(c.sp[s])
Answers(c, d)  == \A s \in DOMAIN d : ~c.sp[s].gone => d[s].ack \subseteq Used(c.sp[s])

(* A datagram that f, whose connection is c, can have sent.                *)
Genuine(f, c, d) ==
  /\ DOMAIN d \subseteq Spaces
  /\ Numbered(c, d)
  /\ \A s, t \in DOMAIN d : d[s].close <=> d[t].close
  /\ "handshake" \in DOMAIN d =>
        /\ c.tls >= Keyed(f)
        /\ f = "client" /\ d["handshake"].cr # {} => c.tls = 3
  /\ f = "server" =>
        /\ "initial" \in DOMAIN d /\ d["initial"].cr # {} => c.tls >= 1
        /\ "app" \in DOMAIN d /\ d["app"].cr # {} => c.tls = 2 /\ c.confirmed

Greeting(e) == IF e = "client" THEN "connected" ELSE "accepted"

(* A connection nobody has ended.                                          *)
Going(e, x) ==
  /\ ~x.torn /\ ~x.appClosing /\ x.why = "none"
  /\ x.st \in {"new", "handshake", "connected"}
  /\ x.told = IF Done(e, x) THEN <<Greeting(e)>> ELSE <<>>

Live(e, x) == Going(e, x) /\ (x.st = "new" => x.tls = 0) /\ x.credit \in Nat

(* What a torn connection's application has been told.                     *)
Told(e, x) ==
  x.told = IF Done(e, x) THEN <<Greeting(e), "closed">>
           ELSE IF e = "client" THEN <<"refused", "closed">> ELSE <<"closed">>

Said(e, x) ==
  /\ x.why = "app" => x.spoke \/ Limited(e, x)
  /\ x.why = "error" /\ e = "server" => x.spoke

Over(e, x) ==
  /\ x.torn /\ x.st \in {"closing", "draining", "closed"}
  /\ Told(e, x) /\ Said(e, x)

(* What the engines know of each other outlives the connections: a client  *)
(* that has the server's hello was answered, one that knows the handshake  *)
(* is done has a server that is, and a server is done after its client.    *)
Agreed(e, x, o) ==
  IF e = "client" THEN /\ x.tls >= 2 => o.tls >= 1
                       /\ x.confirmed => o.tls = 2 /\ o.confirmed
                  ELSE x.tls = 2 => o.tls = 3

(* The inductive invariant, in parts.                                      *)
ShapeInv ==
  /\ DOMAIN conn = Ends /\ DOMAIN net = Ends
  /\ \A e \in Ends : Shape(conn[e]) /\ conn[e].outbox = <<>> /\ IsSeq(net[e])

NetInv ==
  \A e \in Ends : \A d \in Range(net[e]) :
     Genuine(Peer(e), conn[Peer(e)], d) /\ Answers(conn[e], d)

OverInv ==
  \A e \in Ends : conn[e].torn =>
     /\ Over(e, conn[e]) /\ net[e] = <<>>
     /\ \A s \in Spaces : ~conn[e].sp[s].armed

LiveInv ==
  \A e \in Ends : ~conn[e].torn =>
     /\ Live(e, conn[e]) /\ Keys(e, conn[e])
     /\ Knows(e, conn[e], conn[Peer(e)]) /\ Heard(conn[e], conn[Peer(e)])

AgreeInv ==
  \A e \in Ends : /\ conn[e].tls \in 0..(Keyed(e) + 1)
                  /\ Agreed(e, conn[e], conn[Peer(e)])

ConnInv == ShapeInv /\ NetInv /\ OverInv /\ LiveInv /\ AgreeInv

-----------------------------------------------------------------------------
(***************************************************************************)
(* Numbers, sequences and the records.                                     *)
(***************************************************************************)
Before == {q \in Nat \X Nat : q[1] < q[2]}

(* Every set of naturals that has 0 and with n also n + 1 has them all.    *)
LEMMA Induct ==
  ASSUME NEW S, 0 \in S, \A n \in Nat : n \in S => n + 1 \in S
  PROVE  Nat \subseteq S
<1> SUFFICES ASSUME NEW b \in Nat, b \notin S PROVE FALSE
  OBVIOUS
<1> DEFINE B == {n \in Nat : n \notin S}
<1>1. IsWellFoundedOn(Before, Nat)
  BY NatLessThanWellFounded DEF Before, OpToRel
<1>2. B \subseteq Nat /\ B # {}
  OBVIOUS
<1>3. \E m \in B : \A k \in B : ~(<<k, m>> \in Before)
  <2> HIDE DEF B
  <2> QED
    BY <1>1, <1>2, WFMin
<1>4. PICK m \in B : \A k \in B : ~(<<k, m>> \in Before)
  BY <1>3
<1>5. m \in Nat /\ m # 0 /\ m - 1 \in Nat
  OBVIOUS
<1>6. <<m - 1, m>> \in Before
  BY <1>5 DEF Before
<1>7. m - 1 \in S
  BY <1>4, <1>5, <1>6
<1> QED
  BY <1>5, <1>7

(* A sequence over some set is one over the set of its elements.           *)
LEMMA SeqOver ==
  ASSUME NEW R, NEW q \in Seq(R)
  PROVE  IsSeq(q) /\ Range(q) \subseteq R
BY DEF IsSeq, Range

LEMMA NoSeq == IsSeq(<<>>) /\ Range(<<>>) = {}
<1>1. \A q : q = <<>> => q \in Seq({})
  OBVIOUS
<1>2. \A q : q = <<>> => IsSeq(q) /\ Range(q) \subseteq {}
  BY <1>1, SeqOver
<1> QED
  BY <1>2

LEMMA AppendSeq ==
  ASSUME NEW q, IsSeq(q), NEW d
  PROVE  IsSeq(Append(q, d)) /\ Range(Append(q, d)) \subseteq Range(q) \union {d}
<1>1. q \in Seq(Range(q) \union {d})
  BY DEF IsSeq
<1>2. Append(q, d) \in Seq(Range(q) \union {d})
  BY <1>1
<1> QED
  BY <1>2, SeqOver

LEMMA ConcatSeq ==
  ASSUME NEW q, IsSeq(q), NEW r, IsSeq(r)
  PROVE  IsSeq(q \o r) /\ Range(q \o r) \subseteq Range(q) \union Range(r)
<1>1. q \in Seq(Range(q) \union Range(r)) /\ r \in Seq(Range(q) \union Range(r))
  BY DEF IsSeq
<1>2. q \o r \in Seq(Range(q) \union Range(r))
  BY <1>1
<1> QED
  BY <1>2, SeqOver

LEMMA RemoveSeq ==
  ASSUME NEW q, IsSeq(q), NEW i \in DOMAIN q
  PROVE  IsSeq(RemoveAt(q, i)) /\ Range(RemoveAt(q, i)) \subseteq Range(q)
<1>1. q \in Seq(Range(q)) /\ i \in 1..Len(q)
  BY DEF IsSeq
<1>2. /\ SubSeq(q, 1, i - 1) \in Seq(Range(q))
      /\ SubSeq(q, i + 1, Len(q)) \in Seq(Range(q))
  BY <1>1
<1>3. RemoveAt(q, i) \in Seq(Range(q))
  BY <1>2 DEF RemoveAt
<1> QED
  BY <1>3, SeqOver

-----------------------------------------------------------------------------
(***************************************************************************)
(* Loss recovery leaves alone everything the invariant speaks about.       *)
(***************************************************************************)
SpaceSame(p, q) ==
  /\ SpaceShape(q)
  /\ q.tx = p.tx /\ q.rx = p.rx /\ q.gone = p.gone /\ q.in = p.in /\ q.got = p.got
  /\ Used(p) \subseteq Used(q) /\ (Blank(p) => Blank(q))

Same(x, y) ==
  /\ Shape(y)
  /\ y.st = x.st /\ y.tls = x.tls /\ y.confirmed = x.confirmed /\ y.sawHs = x.sawHs
  /\ y.soon = x.soon /\ y.closePending = x.closePending /\ y.torn = x.torn
  /\ y.appClosing = x.appClosing /\ y.why = x.why /\ y.told = x.told /\ y.spoke = x.spoke
  /\ y.outbox = x.outbox /\ (x.valid => y.valid) /\ y.credit = x.credit
  /\ \A s \in Spaces : SpaceSame(x.sp[s], y.sp[s])

LEMMA SameTrans ==
  ASSUME NEW x, NEW y, NEW z, Same(x, y), Same(y, z)
  PROVE  Same(x, z)
BY DEF Same, SpaceSame

(* Another space record, the rest of the connection as it is.              *)
LEMMA SameSpace ==
  ASSUME NEW x, Shape(x), NEW s \in Spaces, NEW q, SpaceSame(x.sp[s], q)
  PROVE  Same(x, [x EXCEPT !.sp[s] = q]) /\ [x EXCEPT !.sp[s] = q].sp[s] = q
<1> DEFINE y == [x EXCEPT !.sp[s] = q]
<1>1. DOMAIN y = ConnFields /\ DOMAIN y.sp = Spaces
  BY DEF Shape, ConnFields
<1>2. y.sp[s] = q /\ \A t \in Spaces : t # s => y.sp[t] = x.sp[t]
  BY DEF Shape, ConnFields
<1>3. \A t \in Spaces : SpaceSame(x.sp[t], y.sp[t])
  <2>1. \A t \in Spaces : SpaceSame(x.sp[t], x.sp[t])
    BY DEF SpaceSame, Shape
  <2> QED
    BY <1>2, <2>1
<1>4. Shape(y)
  BY <1>1, <1>3 DEF Shape, SpaceSame
<1>5. Same(x, y)
  BY <1>3, <1>4 DEF Same, Shape, ConnFields
<1> QED
  BY <1>2, <1>5

LEMMA OnLostSame ==
  ASSUME NEW p, SpaceShape(p), NEW P, P \subseteq p.live
  PROVE  SpaceSame(p, OnLost(p, P))
BY DEF OnLost, SpaceSame, SpaceShape, SpaceFields, Used, Blank, Unwritten, Pending

LEMMA OnAckedSame ==
  ASSUME NEW p, SpaceShape(p), NEW A, NEW P, P \subseteq p.live
  PROVE  SpaceSame(p, OnAcked(p, A, P))
BY DEF OnAcked, SpaceSame, SpaceShape, SpaceFields, Used, Blank, Unwritten, Settled

LEMMA DetectLossSame ==
  ASSUME NEW x, Shape(x), NEW s \in Spaces, NEW P, P \subseteq x.sp[s].live
  PROVE  Same(x, DetectLoss(x, s, P))
<1> DEFINE p == OnLost(x.sp[s], P)
           q == [p EXCEPT !.armed = Overtaken(p) # {}]
<1>1. SpaceSame(x.sp[s], p)
  BY OnLostSame DEF Shape
<1> HIDE DEF p
<1>2. SpaceSame(x.sp[s], q)
  BY <1>1 DEF SpaceSame, SpaceShape, SpaceFields, Used, Blank
<1> HIDE DEF q
<1>3. DetectLoss(x, s, P) = [x EXCEPT !.sp[s] = q]
  BY Zenon DEF DetectLoss, p, q
<1> QED
  BY <1>2, <1>3, SameSpace

LEMMA HandleAckSame ==
  ASSUME NEW e, NEW x, Shape(x), NEW s \in Spaces, NEW A
  PROVE  Same(x, HandleAck(e, x, s, A))
<1> DEFINE new == A \intersect x.sp[s].live
           q == OnAcked(x.sp[s], A, new)
           y == [x EXCEPT !.sp[s] = q]
           z == [y EXCEPT !.valid = @ \/ s = "handshake",
                          !.pto = IF e = "server" \/ x.valid \/ s = "handshake" THEN 0 ELSE @]
<1>1. SpaceSame(x.sp[s], q)
  <2> HIDE DEF new
  <2> QED
    BY OnAckedSame DEF Shape, new
<1> HIDE DEF q
<1>2. Same(x, y) /\ y.sp[s] = q
  BY <1>1, SameSpace
<1> HIDE DEF y
<1>3. Same(y, z) /\ z.sp = y.sp
  BY <1>2 DEF Same, Shape, ConnFields, SpaceSame
<1> HIDE DEF z
<1>4. Passed(y.sp[s]) \subseteq z.sp[s].live
  BY <1>3 DEF Passed
<1>5. Same(z, DetectLoss(z, s, Passed(y.sp[s])))
  BY <1>3, <1>4, DetectLossSame DEF Same
<1>6. HandleAck(e, x, s, A) = IF new = {} THEN y ELSE DetectLoss(z, s, Passed(y.sp[s]))
  BY Zenon DEF HandleAck, q, y, z
<1> QED
  BY <1>2, <1>3, <1>5, <1>6, SameTrans

-----------------------------------------------------------------------------
(***************************************************************************)
(* Sending.                                                                *)
(***************************************************************************)
(* A datagram that a connection with the keys and the pieces of x builds.  *)
Carries(x, d) ==
  /\ DOMAIN d \subseteq Spaces
  /\ \A s \in DOMAIN d : /\ x.sp[s].tx /\ ~x.sp[s].gone
                         /\ d[s].close <=> x.st = "closing"
                         /\ d[s].cr # {} => ~Blank(x.sp[s])
                         /\ d[s].ack \subseteq x.sp[s].got

(* What sending datagrams may change: x becomes y.                         *)
Sends(e, x, y) ==
  /\ Shape(y)
  /\ y.st = x.st /\ y.tls = x.tls /\ y.confirmed = x.confirmed /\ y.soon = x.soon
  /\ y.torn = x.torn /\ y.appClosing = x.appClosing /\ y.why = x.why /\ y.told = x.told
  /\ y.valid = x.valid /\ (x.spoke => y.spoke) /\ (x.sawHs => y.sawHs)
  /\ x.credit \in Nat => y.credit \in 0..x.credit
  /\ y.sawHs => x.sawHs \/ (e = "client" /\ x.sp["handshake"].tx)
  /\ \A s \in Spaces : SpaceSame(x.sp[s], y.sp[s])
  /\ IsSeq(x.outbox) => /\ IsSeq(y.outbox)
                        /\ \A d \in Range(y.outbox) :
                              d \in Range(x.outbox) \/ (Carries(x, d) /\ Numbered(y, d))

LEMMA NumberedLater ==
  ASSUME NEW x, NEW y, NEW d, DOMAIN d \subseteq Spaces, Numbered(x, d), Ahead(x, y)
  PROVE  Numbered(y, d)
BY DEF Numbered, Ahead

LEMMA SpacesAhead ==
  ASSUME NEW x, NEW y, \A s \in Spaces : SpaceSame(x.sp[s], y.sp[s])
  PROVE  Ahead(x, y)
BY DEF Ahead, SpaceSame

LEMMA SendsRefl ==
  ASSUME NEW e, NEW x, Shape(x)
  PROVE  Sends(e, x, x)
BY DEF Sends, SpaceSame, Shape

LEMMA SendsTrans ==
  ASSUME NEW e, NEW x, NEW y, NEW z, Sends(e, x, y), Sends(e, y, z)
  PROVE  Sends(e, x, z)
<1>1. ASSUME NEW d, Carries(y, d) PROVE Carries(x, d)
  BY <1>1 DEF Carries, Sends, SpaceSame
<1>2. \A s \in Spaces : SpaceSame(x.sp[s], z.sp[s])
  BY DEF Sends, SpaceSame
<1>3. z.sawHs => x.sawHs \/ (e = "client" /\ x.sp["handshake"].tx)
  BY DEF Sends, SpaceSame, Spaces
<1>4. IsSeq(x.outbox) => /\ IsSeq(z.outbox)
                         /\ \A d \in Range(z.outbox) :
                               d \in Range(x.outbox) \/ (Carries(x, d) /\ Numbered(z, d))
  <2>1. Ahead(y, z)
    BY SpacesAhead DEF Sends
  <2>2. ASSUME NEW d, Carries(x, d), Numbered(y, d) PROVE Numbered(z, d)
    BY <2>1, <2>2, NumberedLater DEF Carries
  <2> QED
    BY <1>1, <2>2 DEF Sends
<1> QED
  BY <1>2, <1>3, <1>4 DEF Sends

LEMMA FirstIn ==
  ASSUME NEW P, FirstOf(P) # {}
  PROVE  \E i : i \in P
BY DEF FirstOf

(* Only what was written is sent, for the first time or once more.         *)
LEMMA PutWritten ==
  ASSUME NEW p, PutCrypto(p) # {} \/ PutCryptoProbe(p) # {}
  PROVE  ~Blank(p)
<1>1. CASE PutCrypto(p) # {}
  <2>1. PICK i : i \in {j \in Pieces : p.out[j] = Pending}
    BY <1>1, FirstIn DEF PutCrypto
  <2> QED
    BY <2>1 DEF Blank, Pending, Unwritten
<1>2. CASE PutCryptoProbe(p) # {}
  <2>1. PICK i : i \in {j \in Pieces : p.out[j] >= 0}
    BY <1>2, FirstIn DEF PutCryptoProbe
  <2> QED
    BY <2>1 DEF Blank, Unwritten
<1> QED
  BY <1>1, <1>2

(* buildPayload never says more than the space has.                        *)
LEMMA Payload ==
  ASSUME NEW x, Shape(x), NEW s \in Spaces
  PROVE  LET p == BuildPayload(x, s)
         IN  /\ p.pn = x.sp[s].next
             /\ p.ack \subseteq x.sp[s].got
             /\ p.cr # {} => ~Blank(x.sp[s])
             /\ ~Nothing(p) => (p.close <=> x.st = "closing")
             /\ x.st = "closing" /\ x.closePending => ~Nothing(p)
<1> DEFINE sp == x.sp[s]
           empty == [pn |-> sp.next, ack |-> {}, cr |-> {}, ping |-> FALSE, close |-> FALSE]
           plain == [empty EXCEPT !.ack = PutAck(sp), !.cr = PutCrypto(sp)]
           again == IF s = "app" THEN {} ELSE PutCryptoProbe(sp)
           shut  == [empty EXCEPT !.close = x.closePending]
           probe == [plain EXCEPT !.cr = again, !.ping = again = {}]
<1>1. PutCrypto(sp) # {} => ~Blank(sp)
  BY PutWritten
<1>2. again # {} => ~Blank(sp)
  BY PutWritten
<1>3. BuildPayload(x, s) = IF x.st = "closing" THEN shut
                           ELSE IF sp.probes = 0 \/ Elicits(plain) THEN plain ELSE probe
  BY Zenon DEF BuildPayload
<1>4. /\ shut.pn = sp.next /\ shut.cr = {} /\ shut.close = x.closePending
      /\ shut.ack = {} /\ ~shut.ping
  OBVIOUS
<1>5. /\ plain.pn = sp.next /\ plain.cr = PutCrypto(sp) /\ plain.close = FALSE
      /\ plain.ack = PutAck(sp)
  OBVIOUS
<1>6. /\ probe.pn = sp.next /\ probe.cr = again /\ probe.close = FALSE
      /\ probe.ack = PutAck(sp)
  OBVIOUS
<1> HIDE DEF shut, plain, probe, again, sp
<1>7. CASE x.st = "closing"
  BY <1>3, <1>4, <1>7 DEF Nothing, sp
<1>8. CASE x.st # "closing"
  BY <1>1, <1>2, <1>3, <1>5, <1>6, <1>8 DEF sp, PutAck
<1> QED
  BY <1>7, <1>8

LEMMA OnSentSame ==
  ASSUME NEW p, SpaceShape(p), NEW k, k.pn = p.next
  PROVE  SpaceSame(p, OnSent(p, k)) /\ k.pn \in Used(OnSent(p, k))
BY DEF OnSent, SpaceSame, SpaceShape, SpaceFields, Used, Blank, Unwritten, Pending

(* One datagram; that of a closing connection is its close.                *)
LEMMA FlushOneSends ==
  ASSUME NEW e, NEW x, Shape(x)
  PROVE  /\ Sends(e, x, FlushOne(e, x))
         /\ /\ x.st = "closing" /\ x.closePending /\ ~Limited(e, x)
            /\ e = "server" \/ ~x.torn
            /\ \E s \in Spaces : x.sp[s].tx /\ ~x.sp[s].gone
            => FlushOne(e, x).spoke
<1> DEFINE S == {s \in Spaces : ~x.sp[s].gone /\ x.sp[s].tx /\ ~Nothing(BuildPayload(x, s))}
           pk == [s \in S |-> BuildPayload(x, s)]
           out == e = "server" \/ ~x.torn
           sps == [s \in Spaces |-> IF s \in S THEN OnSent(x.sp[s], pk[s]) ELSE x.sp[s]]
           y == [x EXCEPT
                !.sp = [s \in Spaces |-> IF s \in S THEN OnSent(@[s], pk[s]) ELSE @[s]],
                !.sawHs = @ \/ (e = "client" /\ "handshake" \in S),
                !.credit = IF e = "server" /\ ~x.valid THEN @ - 1 ELSE @,
                !.closePending = FALSE,
                !.spoke = @ \/ (out /\ x.st = "closing"),
                !.outbox = IF out THEN Append(@, pk) ELSE @]
<1>1. FlushOne(e, x) = IF S = {} \/ Limited(e, x) THEN x ELSE y
  BY Zenon DEF FlushOne
<1>2. /\ DOMAIN y = ConnFields /\ y.sp = sps
      /\ y.st = x.st /\ y.tls = x.tls /\ y.confirmed = x.confirmed /\ y.soon = x.soon
      /\ y.torn = x.torn /\ y.appClosing = x.appClosing /\ y.why = x.why /\ y.told = x.told
      /\ y.valid = x.valid
  BY DEF Shape, ConnFields
<1>3. /\ y.spoke = (x.spoke \/ (out /\ x.st = "closing"))
      /\ y.sawHs = (x.sawHs \/ (e = "client" /\ "handshake" \in S))
      /\ y.outbox = IF out THEN Append(x.outbox, pk) ELSE x.outbox
  BY DEF Shape, ConnFields
<1>4. ASSUME NEW s \in Spaces PROVE SpaceSame(x.sp[s], sps[s])
  <2>1. SpaceShape(x.sp[s]) /\ BuildPayload(x, s).pn = x.sp[s].next
    BY Payload DEF Shape
  <2>2. SpaceSame(x.sp[s], OnSent(x.sp[s], BuildPayload(x, s)))
    BY <2>1, OnSentSame
  <2>3. SpaceSame(x.sp[s], x.sp[s])
    BY <2>1 DEF SpaceSame
  <2> QED
    BY <2>2, <2>3
<1>5. Carries(x, pk) /\ Numbered([sp |-> sps], pk)
  <2>1. Carries(x, pk)
    BY Payload DEF Carries
  <2>2. ASSUME NEW s \in S PROVE pk[s].pn \in Used(sps[s])
    <3>1. SpaceShape(x.sp[s]) /\ BuildPayload(x, s).pn = x.sp[s].next
      BY Payload DEF Shape
    <3>2. BuildPayload(x, s).pn \in Used(OnSent(x.sp[s], BuildPayload(x, s)))
      BY <3>1, OnSentSame
    <3> QED
      BY <3>2
  <2> QED
    BY <2>1, <2>2 DEF Numbered
<1>6. \A s \in S : s \in Spaces /\ x.sp[s].tx
  OBVIOUS
<1>7. DOMAIN sps = Spaces
  OBVIOUS
<1>8. /\ x.st = "closing" /\ x.closePending
      /\ \E s \in Spaces : x.sp[s].tx /\ ~x.sp[s].gone
      => S # {}
  BY Payload
<1> HIDE DEF S, pk, sps, y
<1>9. Shape(y)
  BY <1>2, <1>4, <1>7 DEF Shape, SpaceSame
<1>10. IsSeq(x.outbox) => /\ IsSeq(y.outbox)
                          /\ \A d \in Range(y.outbox) :
                                d \in Range(x.outbox) \/ (Carries(x, d) /\ Numbered(y, d))
  <2>1. Numbered(y, pk)
    BY <1>2, <1>5 DEF Numbered
  <2> QED
    BY <1>3, <1>5, <2>1, AppendSeq
<1>11. y.credit = IF e = "server" /\ ~x.valid THEN x.credit - 1 ELSE x.credit
  BY DEF Shape, ConnFields, y
<1>12. ~Limited(e, x) /\ x.credit \in Nat => y.credit \in 0..x.credit
  BY <1>11 DEF Limited
<1>13. ~Limited(e, x) => Sends(e, x, y)
  BY <1>2, <1>3, <1>4, <1>6, <1>9, <1>10, <1>12 DEF Sends
<1> QED
  BY <1>1, <1>3, <1>8, <1>13, SendsRefl

(* g[n] is the connection after n turns of the loop of a flush.            *)
Turns(e, x, k, g) == g = [n \in 0..k |-> IF n = 0 THEN x ELSE FlushOne(e, g[n - 1])]

LEMMA LoopExists ==
  ASSUME NEW e, NEW x
  PROVE  \A k \in Nat : \E g : Turns(e, x, k, g)
<1> DEFINE S == {k \in Nat : \E g : Turns(e, x, k, g)}
<1>1. 0 \in S
  <2> DEFINE g == [n \in 0..0 |-> x]
  <2>1. Turns(e, x, 0, g)
    BY DEF Turns
  <2> QED
    BY <2>1
<1>2. ASSUME NEW k \in Nat, k \in S PROVE k + 1 \in S
  <2>1. PICK g : Turns(e, x, k, g)
    BY <1>2
  <2> DEFINE h == [n \in 0..(k + 1) |-> IF n \in 0..k THEN g[n] ELSE FlushOne(e, g[k])]
  <2>2. ASSUME NEW n \in 0..(k + 1)
        PROVE  h[n] = IF n = 0 THEN x ELSE FlushOne(e, h[n - 1])
    <3>1. CASE n \in 0..k
      BY <2>1, <3>1 DEF Turns
    <3>2. CASE n = k + 1
      <4>1. n # 0 /\ n - 1 = k /\ n \notin 0..k
        BY <3>2
      <4>2. h[n] = FlushOne(e, g[k]) /\ h[n - 1] = g[k]
        BY <4>1
      <4> QED
        BY <4>1, <4>2
    <3> QED
      BY <3>1, <3>2
  <2>3. Turns(e, x, k + 1, h)
    BY <2>2 DEF Turns
  <2>4. \E f : Turns(e, x, k + 1, f)
    BY <2>3
  <2> QED
    BY <2>4
<1> HIDE DEF S
<1>3. Nat \subseteq S
  BY <1>1, <1>2, Induct
<1> QED
  BY <1>3 DEF S

LEMMA LoopSends ==
  ASSUME NEW e, NEW x, Shape(x), NEW k \in Nat, NEW g, Turns(e, x, k, g)
  PROVE  \A n \in 0..k : /\ Sends(e, x, g[n])
                         /\ n > 0 => Sends(e, FlushOne(e, x), g[n])
<1> DEFINE P(n) == /\ Sends(e, x, g[n])
                   /\ n > 0 => Sends(e, FlushOne(e, x), g[n])
           S == {n \in Nat : n \in 0..k => P(n)}
<1>1. 0 \in S
  <2>1. g[0] = x
    BY DEF Turns
  <2> QED
    BY <2>1, SendsRefl
<1>2. ASSUME NEW n \in Nat, n \in S PROVE n + 1 \in S
  <2> SUFFICES ASSUME n + 1 \in 0..k PROVE P(n + 1)
    OBVIOUS
  <2>1. n \in 0..k /\ n + 1 > 0 /\ n + 1 # 0 /\ (n + 1) - 1 = n
    OBVIOUS
  <2>2. g[n + 1] = FlushOne(e, g[n])
    BY <2>1 DEF Turns
  <2>3. P(n)
    BY <1>2, <2>1
  <2>4. Sends(e, g[n], FlushOne(e, g[n]))
    <3>1. Shape(g[n])
      BY <2>3 DEF Sends
    <3> QED
      BY <3>1, FlushOneSends
  <2>5. Sends(e, x, g[n + 1])
    BY <2>2, <2>3, <2>4, SendsTrans
  <2>6. Sends(e, FlushOne(e, x), g[n + 1])
    <3>1. CASE n = 0
      <4>1. g[n + 1] = FlushOne(e, x) /\ Shape(FlushOne(e, x))
        BY <2>2, <2>4, <3>1 DEF Sends, Turns
      <4> QED
        BY <4>1, SendsRefl
    <3>2. CASE n > 0
      BY <2>2, <2>3, <2>4, <3>2, SendsTrans
    <3> QED
      BY <3>1, <3>2
  <2> QED
    BY <2>5, <2>6
<1> HIDE DEF S
<1>3. Nat \subseteq S
  BY <1>1, <1>2, Induct
<1> QED
  BY <1>3 DEF S

LEMMA FlushAllSends ==
  ASSUME NEW e, NEW x, Shape(x)
  PROVE  Sends(e, x, FlushAll(e, x)) /\ Sends(e, FlushOne(e, x), FlushAll(e, x))
<1> DEFINE k == Flight + 3
           g == CHOOSE f : Turns(e, x, k, f)
<1>1. k \in Nat /\ k \in 0..k /\ k > 0
  BY ConnAssumption
<1>2. FlushAll(e, x) = g[k]
  BY Zenon DEF FlushAll, Turns
<1> HIDE DEF k
<1>3. Turns(e, x, k, g)
  BY <1>1, LoopExists
<1> HIDE DEF g
<1> QED
  BY <1>1, <1>2, <1>3, LoopSends

Bound(e, x, o) == Keys(e, x) /\ Knows(e, x, o) /\ Heard(x, o)

LEMMA SendsBound ==
  ASSUME NEW e \in Ends, NEW x, NEW y, NEW o, Sends(e, x, y), Bound(e, x, o)
  PROVE  Bound(e, y, o)
<1>1. /\ SpaceSame(x.sp["initial"], y.sp["initial"])
      /\ SpaceSame(x.sp["handshake"], y.sp["handshake"])
      /\ SpaceSame(x.sp["app"], y.sp["app"])
  BY DEF Sends, Spaces
<1>2. /\ y.tls = x.tls /\ y.confirmed = x.confirmed /\ y.soon = x.soon
      /\ (x.sawHs => y.sawHs)
      /\ y.sawHs => x.sawHs \/ (e = "client" /\ x.sp["handshake"].tx)
  BY DEF Sends
<1>3. Keys(e, y)
  BY <1>1, <1>2 DEF Bound, Keys, SpaceSame, Done, Keyed, Ends
<1>4. Knows(e, y, o)
  BY <1>1, <1>2 DEF Bound, Keys, Knows, SpaceSame, Keyed, Ends
<1>5. Heard(y, o)
  BY DEF Sends, Bound, Heard, SpaceSame
<1> QED
  BY <1>3, <1>4, <1>5 DEF Bound

LEMMA SameBound ==
  ASSUME NEW e \in Ends, NEW x, NEW y, NEW o, Same(x, y), Bound(e, x, o)
  PROVE  Bound(e, y, o)
<1>1. /\ SpaceSame(x.sp["initial"], y.sp["initial"])
      /\ SpaceSame(x.sp["handshake"], y.sp["handshake"])
      /\ SpaceSame(x.sp["app"], y.sp["app"])
  BY DEF Same, Spaces
<1>2. /\ y.tls = x.tls /\ y.confirmed = x.confirmed /\ y.soon = x.soon /\ y.sawHs = x.sawHs
  BY DEF Same
<1>3. Keys(e, y)
  BY <1>1, <1>2 DEF Bound, Keys, SpaceSame, Done, Keyed, Ends
<1>4. Knows(e, y, o)
  BY <1>1, <1>2 DEF Bound, Keys, Knows, SpaceSame, Keyed, Ends
<1>5. Heard(y, o)
  BY DEF Same, Bound, Heard, SpaceSame
<1> QED
  BY <1>3, <1>4, <1>5 DEF Bound

(* Throwing a space away changes that space, and the probe count.          *)
LEMMA Discarded ==
  ASSUME NEW x, Shape(x), NEW s \in Spaces
  PROVE  LET y == SpaceDiscard(x, s)
         IN  /\ Shape(y)
             /\ \A f \in ConnFields \ {"sp", "pto"} : y[f] = x[f]
             /\ \A t \in Spaces \ {s} : y.sp[t] = x.sp[t]
             /\ y.sp[s].gone /\ ~y.sp[s].tx /\ ~y.sp[s].rx /\ y.sp[s].in = {} /\ Blank(y.sp[s])
<1> DEFINE q == [NewSpace EXCEPT !.gone = TRUE]
           y == SpaceDiscard(x, s)
<1>1. /\ SpaceShape(q) /\ q.gone /\ ~q.tx /\ ~q.rx /\ q.in = {} /\ Blank(q)
  BY DEF NewSpace, SpaceShape, SpaceFields, Blank
<1> HIDE DEF q
<1>2. y = [x EXCEPT !.sp[s] = q, !.pto = 0]
  BY Zenon DEF SpaceDiscard, q
<1>3. DOMAIN y = ConnFields /\ DOMAIN y.sp = Spaces /\ y.sp[s] = q
      /\ \A t \in Spaces \ {s} : y.sp[t] = x.sp[t]
  BY <1>2 DEF Shape, ConnFields
<1>4. \A f \in ConnFields \ {"sp", "pto"} : y[f] = x[f]
  BY <1>2 DEF Shape, ConnFields
<1> HIDE DEF y
<1>5. Shape(y)
  BY <1>1, <1>3 DEF Shape
<1> QED
  BY <1>1, <1>3, <1>4, <1>5 DEF y

LEMMA DiscardAhead ==
  ASSUME NEW x, Shape(x), NEW s \in Spaces
  PROVE  Ahead(x, SpaceDiscard(x, s))
BY Discarded DEF Ahead

LEMMA AheadTrans ==
  ASSUME NEW x, NEW y, NEW z, Ahead(x, y), Ahead(y, z)
  PROVE  Ahead(x, z)
BY DEF Ahead

(* A space may be thrown away once the other end cannot need it.           *)
LEMMA DiscardBound ==
  ASSUME NEW e \in Ends, NEW x, Shape(x), NEW o, Bound(e, x, o), NEW s \in {"initial", "handshake"},
         s = "initial" => x.sawHs,
         s = "handshake" => Done(e, x),
         s = "handshake" /\ e = "client" => o.tls = 2 /\ o.confirmed
  PROVE  Bound(e, SpaceDiscard(x, s), o)
<1> DEFINE y == SpaceDiscard(x, s)
<1>1. /\ \A t \in Spaces \ {s} : y.sp[t] = x.sp[t]
      /\ y.sp[s].gone /\ ~y.sp[s].tx /\ ~y.sp[s].rx /\ y.sp[s].in = {} /\ Blank(y.sp[s])
  BY Discarded DEF Spaces
<1>2. y.tls = x.tls /\ y.confirmed = x.confirmed /\ y.soon = x.soon /\ y.sawHs = x.sawHs
  BY Discarded DEF Spaces, ConnFields
<1> HIDE DEF y
<1>3. Heard(y, o)
  BY <1>1 DEF Bound, Heard
<1>4. CASE s = "initial"
  <2>1. y.sp["handshake"] = x.sp["handshake"] /\ y.sp["app"] = x.sp["app"]
    BY <1>1, <1>4 DEF Spaces
  <2>2. Keys(e, y)
    BY <1>1, <1>2, <1>4, <2>1 DEF Bound, Keys, Done, Keyed, Ends
  <2>3. Knows(e, y, o)
    BY <1>1, <1>2, <1>4, <2>1 DEF Bound, Keys, Knows, Done, Keyed, Ends
  <2> QED
    BY <1>3, <2>2, <2>3 DEF Bound, y
<1>5. CASE s = "handshake"
  <2>1. y.sp["initial"] = x.sp["initial"] /\ y.sp["app"] = x.sp["app"]
    BY <1>1, <1>5 DEF Spaces
  <2>2. Keys(e, y)
    BY <1>1, <1>2, <1>5, <2>1 DEF Bound, Keys, Done, Keyed, Ends
  <2>3. Knows(e, y, o)
    BY <1>1, <1>2, <1>5, <2>1 DEF Bound, Keys, Knows, Done, Keyed, Ends
  <2> QED
    BY <1>3, <2>2, <2>3 DEF Bound, y
<1> QED
  BY <1>4, <1>5 DEF y

(* y is x but for the fields C of the connection.                          *)
Only(x, y, C) == Shape(y) /\ \A f \in ConnFields \ C : y[f] = x[f]

(* What a flush may change.                                                *)
Flushed(x, y) ==
  /\ Shape(y)
  /\ y.st = x.st /\ y.tls = x.tls /\ y.confirmed = x.confirmed /\ y.torn = x.torn
  /\ y.appClosing = x.appClosing /\ y.why = x.why /\ y.told = x.told /\ y.valid = x.valid
  /\ IsSeq(y.outbox) /\ \A d \in Range(y.outbox) : Carries(x, d) /\ Numbered(y, d)
  /\ Ahead(x, y) /\ (x.credit \in Nat => y.credit \in 0..x.credit)

LEMMA FlushKeeps ==
  ASSUME NEW e \in Ends, NEW x, Shape(x), x.outbox = <<>>
  PROVE  /\ Flushed(x, Flush(e, x))
         /\ \A o : Bound(e, x, o) => Bound(e, Flush(e, x), o)
         /\ /\ x.st = "closing" /\ x.closePending /\ ~Limited(e, x)
            /\ e = "server" \/ ~x.torn
            /\ \E s \in Spaces : x.sp[s].tx /\ ~x.sp[s].gone
            => Flush(e, x).spoke
<1> DEFINE y == FlushAll(e, x)
           E == {s \in {"initial", "handshake"} : y.sp[s].elic # x.sp[s].elic}
           z == [y EXCEPT !.iLater = IF E = {} THEN @ ELSE E = {"initial"}]
           w == IF z.sawHs /\ ~z.sp["initial"].gone THEN SpaceDiscard(z, "initial") ELSE z
           v == IF w.soon THEN [SpaceDiscard(w, "handshake") EXCEPT !.soon = FALSE] ELSE w
           Speaks == /\ x.st = "closing" /\ x.closePending /\ ~Limited(e, x)
                     /\ e = "server" \/ ~x.torn
                     /\ \E s \in Spaces : x.sp[s].tx /\ ~x.sp[s].gone
<1>1. Flush(e, x) = IF x.st \in {"draining", "closed"} THEN x ELSE v
  BY Zenon DEF Flush
<1>2. Sends(e, x, y) /\ (Speaks => y.spoke)
  <2>1. Speaks => FlushOne(e, x).spoke
    BY FlushOneSends
  <2> QED
    BY <2>1, FlushAllSends DEF Sends
<1> HIDE DEF y
<1>3. Sends(e, x, z) /\ z.spoke = y.spoke
  <2>1. Only(y, z, {"iLater"})
    BY <1>2 DEF Sends, Only, Shape, ConnFields
  <2> HIDE DEF z
  <2>2. /\ z.st = y.st /\ z.tls = y.tls /\ z.confirmed = y.confirmed /\ z.soon = y.soon
        /\ z.torn = y.torn /\ z.appClosing = y.appClosing /\ z.why = y.why /\ z.told = y.told
        /\ z.valid = y.valid /\ z.spoke = y.spoke /\ z.sawHs = y.sawHs /\ z.sp = y.sp
        /\ z.outbox = y.outbox /\ z.credit = y.credit /\ Shape(z)
    BY <2>1 DEF Only, ConnFields
  <2>3. \A d : Numbered(y, d) => Numbered(z, d)
    BY <2>2 DEF Numbered
  <2> QED
    BY <1>2, <2>2, <2>3 DEF Sends
<1> HIDE DEF z, Speaks
<1>4. /\ IsSeq(z.outbox) /\ \A d \in Range(z.outbox) : Carries(x, d) /\ Numbered(z, d)
      /\ Ahead(x, z)
  BY <1>3, NoSeq, SpacesAhead DEF Sends
<1>5. /\ Shape(w) /\ Ahead(z, w)
      /\ \A f \in ConnFields \ {"sp", "pto"} : w[f] = z[f]
  <2>1. Ahead(z, z) /\ Shape(z) /\ "initial" \in Spaces
    BY <1>3 DEF Ahead, Sends, Spaces
  <2>2. CASE z.sawHs /\ ~z.sp["initial"].gone
    BY <2>1, <2>2, Discarded, DiscardAhead
  <2>3. CASE ~(z.sawHs /\ ~z.sp["initial"].gone)
    BY <2>1, <2>3
  <2> QED
    BY <2>2, <2>3
<1>6. ASSUME NEW o, Bound(e, x, o) PROVE Bound(e, w, o)
  <2>1. Bound(e, z, o) /\ Shape(z)
    BY <1>3, <1>6, SendsBound DEF Sends
  <2> QED
    BY <2>1, DiscardBound
<1> HIDE DEF w
<1>7. /\ Shape(v) /\ Ahead(w, v)
      /\ \A f \in ConnFields \ {"sp", "pto", "soon"} : v[f] = w[f]
  <2> DEFINE u == SpaceDiscard(w, "handshake")
  <2>1. /\ Shape(u) /\ Ahead(w, u)
        /\ \A f \in ConnFields \ {"sp", "pto"} : u[f] = w[f]
    BY <1>5, Discarded, DiscardAhead DEF Spaces
  <2> HIDE DEF u
  <2>2. LET t == [u EXCEPT !.soon = FALSE]
        IN  Shape(t) /\ t.sp = u.sp /\ \A f \in ConnFields \ {"sp", "pto", "soon"} : t[f] = u[f]
    BY <2>1 DEF Shape, ConnFields
  <2>3. Ahead(w, w) /\ Ahead(w, [u EXCEPT !.soon = FALSE])
    BY <2>1, <2>2 DEF Ahead
  <2> QED
    BY <1>5, <2>1, <2>2, <2>3 DEF u
<1>8. ASSUME NEW o, Bound(e, x, o) PROVE Bound(e, v, o)
  <2> DEFINE u == SpaceDiscard(w, "handshake")
  <2>1. Bound(e, w, o)
    BY <1>6, <1>8
  <2>2. w.soon => Done(e, w) /\ e = "server"
    BY <2>1 DEF Bound, Keys, Done, Ends
  <2>3. w.soon => Bound(e, u, o) /\ Shape(u)
    BY <1>5, <2>1, <2>2, DiscardBound, Discarded DEF Spaces
  <2> HIDE DEF u
  <2>4. ASSUME w.soon PROVE Bound(e, [u EXCEPT !.soon = FALSE], o)
    <3> DEFINE t == [u EXCEPT !.soon = FALSE]
    <3>1. /\ t.sp = u.sp /\ t.tls = u.tls /\ t.confirmed = u.confirmed /\ t.sawHs = u.sawHs
          /\ ~t.soon
      BY <2>3, <2>4 DEF Shape, ConnFields
    <3> HIDE DEF t
    <3>2. Bound(e, t, o)
      BY <2>3, <2>4, <3>1 DEF Bound, Keys, Knows, Heard, Done
    <3> QED
      BY <3>2 DEF t
  <2> QED
    BY <2>1, <2>4 DEF u
<1> HIDE DEF v
<1>9. /\ v.st = z.st /\ v.tls = z.tls /\ v.confirmed = z.confirmed /\ v.torn = z.torn
      /\ v.appClosing = z.appClosing /\ v.why = z.why /\ v.told = z.told /\ v.valid = z.valid
      /\ v.outbox = z.outbox /\ v.spoke = z.spoke /\ v.credit = z.credit
  BY <1>5, <1>7 DEF ConnFields
<1>10. Flushed(x, v) /\ (Speaks => v.spoke)
  <2>1. Ahead(z, v) /\ Ahead(x, v)
    BY <1>4, <1>5, <1>7, AheadTrans
  <2>2. \A d \in Range(v.outbox) : Carries(x, d) /\ Numbered(v, d)
    BY <1>4, <1>9, <2>1, NumberedLater DEF Carries
  <2> QED
    BY <1>2, <1>3, <1>4, <1>7, <1>9, <2>1, <2>2 DEF Flushed, Sends
<1>11. Flushed(x, x)
  BY NoSeq DEF Flushed, Ahead
<1> QED
  BY <1>1, <1>8, <1>10, <1>11 DEF Speaks

-----------------------------------------------------------------------------
(***************************************************************************)
(* The TLS engine.                                                         *)
(***************************************************************************)
(* y is x but for the fields C of the connection and F of space s.         *)
But(x, y, C, s, F) ==
  /\ Shape(y)
  /\ \A f \in ConnFields \ (C \union {"sp"}) : y[f] = x[f]
  /\ \A t \in Spaces \ {s} : y.sp[t] = x.sp[t]
  /\ \A f \in SpaceFields \ F : y.sp[s][f] = x.sp[s][f]

(* The spaces there are and the numbers used and recorded are the same.    *)
Still(x, y) ==
  \A s \in Spaces : /\ y.sp[s].gone = x.sp[s].gone
                    /\ y.sp[s].got = x.sp[s].got /\ y.sp[s].next = x.sp[s].next

LEMMA ButStill ==
  ASSUME NEW x, NEW y, NEW C, NEW s, NEW F, But(x, y, C, s, F),
         F \intersect {"gone", "got", "next"} = {}
  PROVE  Still(x, y)
BY DEF But, Still, SpaceFields

LEMMA StillHeard ==
  ASSUME NEW x, NEW y, NEW o, Still(x, y), Heard(x, o)
  PROVE  Heard(y, o) /\ Ahead(x, y)
BY DEF Still, Heard, Ahead, Used

(* A field of one space.                                                   *)
LEMMA ButSpace ==
  ASSUME NEW x, Shape(x), NEW s \in Spaces, NEW q, SpaceShape(q), NEW F,
         \A f \in SpaceFields \ F : q[f] = x.sp[s][f]
  PROVE  But(x, [x EXCEPT !.sp[s] = q], {}, s, F) /\ [x EXCEPT !.sp[s] = q].sp[s] = q
<1> DEFINE y == [x EXCEPT !.sp[s] = q]
<1>1. /\ DOMAIN y = ConnFields /\ DOMAIN y.sp = Spaces /\ y.sp[s] = q
      /\ \A t \in Spaces \ {s} : y.sp[t] = x.sp[t]
      /\ \A f \in ConnFields \ {"sp"} : y[f] = x[f]
  BY DEF Shape, ConnFields
<1> HIDE DEF y
<1>2. Shape(y)
  BY <1>1 DEF Shape
<1>3. But(x, y, {}, s, F) /\ y.sp[s] = q
  BY <1>1, <1>2 DEF But
<1> QED
  BY <1>3 DEF y

LEMMA Written ==
  ASSUME NEW x, Shape(x), NEW s \in Spaces, NEW P
  PROVE  But(x, Write(x, s, P), {}, s, {"out"})
<1> DEFINE p == x.sp[s]
           q == [p EXCEPT !.out = [i \in Pieces |-> IF i \in P THEN Pending ELSE p.out[i]]]
<1>1. SpaceShape(q) /\ \A f \in SpaceFields \ {"out"} : q[f] = p[f]
  BY DEF Shape, SpaceShape, SpaceFields
<1>2. Write(x, s, P) = [x EXCEPT !.sp[s] = q]
  BY DEF Write
<1> HIDE DEF q
<1> QED
  BY <1>1, <1>2, ButSpace

LEMMA SecretsGiven ==
  ASSUME NEW x, Shape(x), NEW s \in Spaces, NEW r \in BOOLEAN, NEW w \in BOOLEAN
  PROVE  LET y == Secrets(x, s, r, w)
         IN  /\ But(x, y, {}, s, {"rx", "tx"})
             /\ y.sp[s].rx <=> x.sp[s].rx \/ r
             /\ y.sp[s].tx <=> x.sp[s].tx \/ w
<1> DEFINE p == x.sp[s]
           q == [p EXCEPT !.rx = @ \/ r, !.tx = @ \/ w]
<1>1. /\ SpaceShape(q) /\ \A f \in SpaceFields \ {"rx", "tx"} : q[f] = p[f]
      /\ q.rx <=> p.rx \/ r
      /\ q.tx <=> p.tx \/ w
  BY DEF Shape, SpaceShape, SpaceFields
<1> DEFINE y == Secrets(x, s, r, w)
<1>2. /\ DOMAIN y = ConnFields /\ \A f \in ConnFields \ {"sp"} : y[f] = x[f]
      /\ y.sp = [[x.sp EXCEPT ![s].rx = @ \/ r] EXCEPT ![s].tx = @ \/ w]
  BY DEF Secrets, Shape, ConnFields
<1>3. [[x.sp EXCEPT ![s].rx = @ \/ r] EXCEPT ![s].tx = @ \/ w] = [x.sp EXCEPT ![s] = q]
  BY DEF Shape, SpaceShape, SpaceFields
<1> HIDE DEF q, y
<1>4. /\ DOMAIN y.sp = Spaces /\ y.sp[s] = q
      /\ \A t \in Spaces \ {s} : y.sp[t] = x.sp[t]
  BY <1>2, <1>3 DEF Shape
<1>5. Shape(y)
  BY <1>1, <1>2, <1>4 DEF Shape
<1> QED
  BY <1>1, <1>2, <1>4, <1>5 DEF But, y

LEMMA BoundSame ==
  ASSUME NEW e, NEW x, NEW y, NEW o, Bound(e, x, o), y.sp = x.sp, y.tls = x.tls,
         y.confirmed = x.confirmed, y.soon = x.soon, y.sawHs = x.sawHs
  PROVE  Bound(e, y, o)
BY DEF Bound, Keys, Knows, Heard, Done

LEMMA Appends ==
  ASSUME NEW a, NEW b
  PROVE  Append(<<>>, a) = <<a>> /\ Append(<<a>>, b) = <<a, b>>
<1>1. Append(<<>>, a) = <<a>>
  OBVIOUS
<1>2. Append(<<a>>, b) = <<a, b>>
  <2> DEFINE q == <<a>>
             r == Append(q, b)
  <2>1. q \in Seq({a, b})
    OBVIOUS
  <2>2. Len(q) = 1 /\ q[1] = a
    OBVIOUS
  <2> HIDE DEF q
  <2>3. /\ r \in Seq({a, b}) /\ Len(r) = Len(q) + 1
        /\ \A i \in 1..Len(q) : r[i] = q[i]
        /\ r[Len(q) + 1] = b
    BY <2>1, AppendProperties
  <2> HIDE DEF r
  <2>4. r = <<a, b>>
    BY <2>2, <2>3
  <2> QED
    BY <2>4 DEF q, r
<1> QED
  BY <1>1, <1>2

(* connNotifyClosed of a connection whose application is not closing it.   *)
LEMMA NotifiedClosed ==
  ASSUME NEW e \in Ends, NEW x, Shape(x), ~x.torn, ~x.appClosing, NEW why,
         x.told = IF Done(e, x) THEN <<Greeting(e)>> ELSE <<>>
  PROVE  LET y == NotifyClosed(e, x, why)
         IN  Only(x, y, {"why", "told", "torn"}) /\ y.why = why /\ y.torn /\ Told(e, y)
<1> DEFINE y == [x EXCEPT !.why = why,
                   !.told = IF e = "client" /\ ~Done(e, x) THEN Append(@, "refused") ELSE @]
           z == [y EXCEPT !.torn = TRUE, !.told = Append(@, "closed")]
<1>1. /\ Shape(y) /\ \A f \in ConnFields \ {"why", "told"} : y[f] = x[f]
      /\ y.why = why
      /\ y.told = IF e = "client" /\ ~Done(e, x) THEN Append(x.told, "refused") ELSE x.told
  BY DEF Shape, ConnFields
<1>2. ~y.torn
  BY <1>1 DEF ConnFields
<1>3. NotifyClosed(e, x, why) = z
  BY <1>2, Zenon DEF NotifyClosed, Teardown
<1> HIDE DEF y
<1>4. /\ Shape(z) /\ \A f \in ConnFields \ {"told", "torn"} : z[f] = y[f]
      /\ z.told = Append(y.told, "closed") /\ z.torn
  BY <1>1 DEF Shape, ConnFields
<1> HIDE DEF z
<1>5. Only(x, z, {"why", "told", "torn"})
  BY <1>1, <1>4 DEF Only
<1>6. z.why = why
  BY <1>1, <1>4 DEF ConnFields
<1>7. z.told = Append(IF e = "client" /\ ~Done(e, x) THEN Append(x.told, "refused") ELSE x.told,
                      "closed")
  BY <1>1, <1>4
<1>8. Told(e, z)
  <2>0. Done(e, z) <=> Done(e, x)
    BY <1>5 DEF Only, ConnFields, Done
  <2>1. CASE Done(e, x)
    <3>1. z.told = <<Greeting(e), "closed">>
      BY <1>7, <2>1, Appends, Zenon
    <3> QED
      BY <2>0, <2>1, <3>1 DEF Told
  <2>2. CASE ~Done(e, x) /\ e = "client"
    <3>1. z.told = <<"refused", "closed">>
      BY <1>7, <2>2, Appends, Zenon
    <3> QED
      BY <2>0, <2>2, <3>1 DEF Told
  <2>3. CASE ~Done(e, x) /\ e = "server"
    <3>1. z.told = <<"closed">>
      BY <1>7, <2>3, Appends
    <3> QED
      BY <2>0, <2>3, <3>1 DEF Told
  <2> QED
    BY <2>1, <2>2, <2>3 DEF Ends
<1> QED
  BY <1>3, <1>4, <1>5, <1>6, <1>8

LEMMA Completed ==
  ASSUME NEW e \in Ends, NEW x, Shape(x)
  PROVE  LET y == TlsComplete(e, x)
         IN  /\ But(x, y, {"tls", "st", "told", "confirmed", "valid", "soon"}, "app", {"out"})
             /\ y.tls = x.tls + 1 /\ y.told = Append(x.told, Greeting(e))
             /\ y.st = IF x.st \in {"new", "handshake"} THEN "connected" ELSE x.st
             /\ y.credit = x.credit /\ (x.valid => y.valid)
             /\ e = "client" => y.confirmed = x.confirmed /\ y.soon = x.soon
             /\ e = "server" => y.confirmed /\ y.soon
<1> DEFINE u == Write(x, "app", {1})
           y == [u EXCEPT !.tls = @ + 1,
                   !.st = IF @ \in {"new", "handshake"} THEN "connected" ELSE @,
                   !.told = Append(@, IF e = "client" THEN "connected" ELSE "accepted")]
           z == [y EXCEPT !.confirmed = TRUE, !.valid = TRUE, !.soon = TRUE]
<1>1. But(x, u, {}, "app", {"out"})
  BY Written DEF Spaces
<1>2. TlsComplete(e, x) = IF e = "client" THEN y ELSE z
  BY Zenon DEF TlsComplete
<1> HIDE DEF u
<1>3. u.tls = x.tls /\ u.st = x.st /\ u.told = x.told
  BY <1>1 DEF But, ConnFields
<1>4. /\ Shape(y) /\ \A f \in ConnFields \ {"tls", "st", "told"} : y[f] = u[f]
      /\ y.tls = x.tls + 1 /\ y.told = Append(x.told, Greeting(e))
      /\ y.st = IF x.st \in {"new", "handshake"} THEN "connected" ELSE x.st
  BY <1>1, <1>3 DEF But, Shape, ConnFields, Greeting
<1> HIDE DEF y
<1>5. /\ Shape(z) /\ \A f \in ConnFields \ {"confirmed", "valid", "soon"} : z[f] = y[f]
      /\ z.confirmed /\ z.valid /\ z.soon
  BY <1>4 DEF Shape, ConnFields
<1> HIDE DEF z
<1>6. y.sp = u.sp /\ z.sp = u.sp
  BY <1>4, <1>5 DEF ConnFields
<1>7. /\ But(x, y, {"tls", "st", "told"}, "app", {"out"})
      /\ But(x, z, {"tls", "st", "told", "confirmed", "valid", "soon"}, "app", {"out"})
  BY <1>1, <1>4, <1>5, <1>6 DEF But
<1>8. /\ y.confirmed = x.confirmed /\ y.soon = x.soon /\ y.valid = x.valid
      /\ y.credit = x.credit /\ z.credit = y.credit
  BY <1>1, <1>4, <1>5 DEF But, ConnFields
<1>9. z.tls = y.tls /\ z.told = y.told /\ z.st = y.st
  BY <1>5 DEF ConnFields
<1>10. But(x, y, {"tls", "st", "told", "confirmed", "valid", "soon"}, "app", {"out"})
  BY <1>7 DEF But
<1>11. CASE e = "client"
  BY <1>2, <1>4, <1>8, <1>10, <1>11
<1>12. CASE e = "server"
  BY <1>2, <1>4, <1>5, <1>7, <1>8, <1>9, <1>12
<1> QED
  BY <1>11, <1>12 DEF Ends

(* The engine goes on with x, which becomes y.                             *)
GoesOn(e, x, y, o) ==
  /\ Shape(y) /\ y.outbox = x.outbox /\ Bound(e, y, o) /\ Going(e, y)
  /\ y.tls >= x.tls /\ (x.confirmed => y.confirmed) /\ Ahead(x, y)
  /\ y.credit = x.credit /\ (x.valid => y.valid)

(* A server that has the ClientHello.                                      *)
LEMMA ServerHello ==
  ASSUME NEW x, Shape(x), NEW o, Bound("server", x, o), Going("server", x), x.tls = 0, NEW z,
         z = [Write(Write(Secrets(Secrets(x, "handshake", TRUE, TRUE), "app", FALSE, TRUE),
                          "initial", {1}), "handshake", Pieces) EXCEPT !.tls = 1]
  PROVE  GoesOn("server", x, z, o)
<1> DEFINE a == Secrets(x, "handshake", TRUE, TRUE)
           b == Secrets(a, "app", FALSE, TRUE)
           c == Write(b, "initial", {1})
           d == Write(c, "handshake", Pieces)
           y == [d EXCEPT !.tls = 1]
<1>1. But(x, a, {}, "handshake", {"rx", "tx"}) /\ a.sp["handshake"].rx /\ a.sp["handshake"].tx
  BY SecretsGiven DEF Spaces
<1> HIDE DEF a
<1>2. /\ But(a, b, {}, "app", {"rx", "tx"}) /\ b.sp["app"].tx
      /\ b.sp["app"].rx <=> a.sp["app"].rx
  <2>1. Shape(a) /\ "app" \in Spaces /\ FALSE \in BOOLEAN /\ TRUE \in BOOLEAN
    BY <1>1 DEF But, Spaces
  <2>2. /\ But(a, b, {}, "app", {"rx", "tx"})
        /\ b.sp["app"].rx <=> a.sp["app"].rx \/ FALSE
        /\ b.sp["app"].tx <=> a.sp["app"].tx \/ TRUE
    BY <2>1, SecretsGiven
  <2> QED
    BY <2>2
<1> HIDE DEF b
<1>3. But(b, c, {}, "initial", {"out"})
  BY <1>2, Written DEF Spaces, But
<1> HIDE DEF c
<1>4. But(c, d, {}, "handshake", {"out"})
  BY <1>3, Written DEF Spaces, But
<1> HIDE DEF d
<1>5. Shape(y) /\ y.tls = 1 /\ \A f \in ConnFields \ {"tls"} : y[f] = d[f]
  BY <1>4 DEF But, Shape, ConnFields
<1> HIDE DEF y
<1>6. \A f \in ConnFields \ {"tls", "sp"} : y[f] = x[f]
  <2> TAKE f \in ConnFields \ {"tls", "sp"}
  <2>1. a[f] = x[f] /\ b[f] = a[f] /\ c[f] = b[f] /\ d[f] = c[f]
    BY <1>1, <1>2, <1>3, <1>4 DEF But
  <2> QED
    BY <1>5, <2>1
<1>7. y.sp = d.sp
  BY <1>5 DEF ConnFields
<1>8. /\ y.sp["initial"].gone = x.sp["initial"].gone /\ y.sp["initial"].tx = x.sp["initial"].tx
  BY <1>1, <1>2, <1>3, <1>4, <1>7 DEF But, Spaces, SpaceFields
<1>9. /\ y.sp["handshake"].tx /\ y.sp["handshake"].gone = x.sp["handshake"].gone
      /\ y.sp["handshake"].in = x.sp["handshake"].in
  BY <1>1, <1>2, <1>3, <1>4, <1>7 DEF But, Spaces, SpaceFields
<1>10. /\ y.sp["app"].tx /\ (y.sp["app"].rx <=> x.sp["app"].rx)
       /\ y.sp["app"].gone = x.sp["app"].gone /\ y.sp["app"].out = x.sp["app"].out
  BY <1>1, <1>2, <1>3, <1>4, <1>7 DEF But, Spaces, SpaceFields
<1>11. /\ y.sawHs = x.sawHs /\ y.soon = x.soon /\ y.confirmed = x.confirmed /\ y.st = x.st
       /\ y.torn = x.torn /\ y.appClosing = x.appClosing /\ y.why = x.why /\ y.told = x.told
       /\ y.outbox = x.outbox /\ y.credit = x.credit /\ y.valid = x.valid
  BY <1>6 DEF ConnFields
<1>12. Keys("server", y)
  BY <1>5, <1>8, <1>9, <1>10, <1>11 DEF Bound, Keys, Done, Keyed, Blank
<1>13. Knows("server", y, o)
  BY <1>5, <1>8, <1>9, <1>10, <1>11 DEF Bound, Knows
<1>14. Going("server", y)
  BY <1>5, <1>11 DEF Going, Done
<1>15. Heard(y, o) /\ Ahead(x, y)
  <2>1. Still(x, a) /\ Still(a, b) /\ Still(b, c) /\ Still(c, d)
    BY <1>1, <1>2, <1>3, <1>4, ButStill
  <2>2. Still(x, y)
    BY <1>7, <2>1 DEF Still
  <2> QED
    BY <2>2, StillHeard DEF Bound
<1>16. GoesOn("server", x, y, o)
  BY <1>5, <1>11, <1>12, <1>13, <1>14, <1>15 DEF GoesOn, Bound
<1> QED
  BY <1>16 DEF a, b, c, d, y

(* A client that has the ServerHello.                                      *)
LEMMA ClientHello ==
  ASSUME NEW x, Shape(x), NEW o, Bound("client", x, o), Going("client", x), x.tls = 1,
         x.sp["initial"].in # {}, NEW z,
         z = [Secrets(x, "handshake", TRUE, TRUE) EXCEPT !.tls = 2]
  PROVE  GoesOn("client", x, z, o)
<1> DEFINE a == Secrets(x, "handshake", TRUE, TRUE)
           y == [a EXCEPT !.tls = 2]
<1>1. But(x, a, {}, "handshake", {"rx", "tx"}) /\ a.sp["handshake"].rx /\ a.sp["handshake"].tx
  BY SecretsGiven DEF Spaces
<1> HIDE DEF a
<1>2. Shape(y) /\ y.tls = 2 /\ \A f \in ConnFields \ {"tls"} : y[f] = a[f]
  BY <1>1 DEF But, Shape, ConnFields
<1> HIDE DEF y
<1>3. \A f \in ConnFields \ {"tls", "sp"} : y[f] = x[f]
  BY <1>1, <1>2 DEF But
<1>4. y.sp = a.sp
  BY <1>2 DEF ConnFields
<1>5. /\ y.sp["initial"] = x.sp["initial"] /\ y.sp["app"] = x.sp["app"]
      /\ y.sp["handshake"].tx /\ y.sp["handshake"].gone = x.sp["handshake"].gone
      /\ y.sp["handshake"].out = x.sp["handshake"].out
  BY <1>1, <1>4 DEF But, Spaces, SpaceFields
<1>6. /\ y.sawHs = x.sawHs /\ y.soon = x.soon /\ y.confirmed = x.confirmed /\ y.st = x.st
      /\ y.torn = x.torn /\ y.appClosing = x.appClosing /\ y.why = x.why /\ y.told = x.told
      /\ y.outbox = x.outbox /\ y.credit = x.credit /\ y.valid = x.valid
  BY <1>3 DEF ConnFields
<1>7. Keys("client", y)
  BY <1>2, <1>5, <1>6 DEF Bound, Keys, Done, Keyed, Blank
<1>8. Knows("client", y, o)
  BY <1>2, <1>5, <1>6 DEF Bound, Knows
<1>9. Going("client", y)
  BY <1>2, <1>6 DEF Going, Done
<1>10. Heard(y, o) /\ Ahead(x, y)
  <2>1. Still(x, a)
    BY <1>1, ButStill
  <2>2. Still(x, y)
    BY <1>4, <2>1 DEF Still
  <2> QED
    BY <2>2, StillHeard DEF Bound
<1>11. GoesOn("client", x, y, o)
  BY <1>2, <1>6, <1>7, <1>8, <1>9, <1>10 DEF GoesOn, Bound
<1> QED
  BY <1>11 DEF a, y

(* A client that has the whole flight.                                     *)
LEMMA ClientDone ==
  ASSUME NEW x, Shape(x), NEW o, Bound("client", x, o), Going("client", x), x.tls = 2
  PROVE  GoesOn("client", x,
                TlsComplete("client", Secrets(Write(x, "handshake", {1}), "app", TRUE, TRUE)), o)
<1> DEFINE a == Write(x, "handshake", {1})
           b == Secrets(a, "app", TRUE, TRUE)
           y == TlsComplete("client", b)
<1>1. But(x, a, {}, "handshake", {"out"})
  BY Written DEF Spaces
<1> HIDE DEF a
<1>2. But(a, b, {}, "app", {"rx", "tx"}) /\ b.sp["app"].tx /\ b.sp["app"].rx
  <2>1. Shape(a) /\ "app" \in Spaces
    BY <1>1 DEF But, Spaces
  <2> QED
    BY <2>1, SecretsGiven
<1> HIDE DEF b
<1>3. /\ But(b, y, {"tls", "st", "told", "confirmed", "valid", "soon"}, "app", {"out"})
      /\ y.tls = b.tls + 1 /\ y.told = Append(b.told, "connected")
      /\ y.st = IF b.st \in {"new", "handshake"} THEN "connected" ELSE b.st
      /\ y.confirmed = b.confirmed /\ y.soon = b.soon
      /\ y.credit = b.credit /\ (b.valid => y.valid)
  BY <1>2, Completed DEF But, Ends, Greeting
<1> HIDE DEF y
<1>4. \A f \in ConnFields \ {"sp"} : b[f] = x[f]
  BY <1>1, <1>2 DEF But
<1>5. /\ y.sawHs = b.sawHs /\ y.torn = b.torn /\ y.appClosing = b.appClosing /\ y.why = b.why
      /\ y.outbox = b.outbox
  BY <1>3 DEF But, ConnFields
<1>6. /\ b.sawHs = x.sawHs /\ b.soon = x.soon /\ b.confirmed = x.confirmed /\ b.st = x.st
      /\ b.torn = x.torn /\ b.appClosing = x.appClosing /\ b.why = x.why /\ b.told = x.told
      /\ b.outbox = x.outbox /\ b.tls = x.tls /\ b.credit = x.credit /\ b.valid = x.valid
  BY <1>4 DEF ConnFields
<1>7. /\ y.sp["initial"] = x.sp["initial"]
      /\ y.sp["handshake"].tx = x.sp["handshake"].tx
      /\ y.sp["handshake"].gone = x.sp["handshake"].gone
      /\ y.sp["app"].tx /\ y.sp["app"].gone = x.sp["app"].gone
  BY <1>1, <1>2, <1>3 DEF But, Spaces, SpaceFields
<1>8. Keys("client", y)
  BY <1>3, <1>5, <1>6, <1>7 DEF Bound, Keys, Done, Keyed
<1>9. Knows("client", y, o)
  BY <1>3, <1>5, <1>6, <1>7 DEF Bound, Knows
<1>10. Going("client", y)
  <2>1. x.told = <<>>
    BY DEF Going, Done
  <2>2. y.told = <<"connected">>
    BY <1>3, <1>6, <2>1, Appends
  <2>3. Done("client", y)
    BY <1>3, <1>6 DEF Done
  <2>4. y.told = IF Done("client", y) THEN <<Greeting("client")>> ELSE <<>>
    BY <2>2, <2>3, Zenon DEF Greeting
  <2> QED
    BY <1>3, <1>5, <1>6, <2>4 DEF Going
<1>11. Heard(y, o) /\ Ahead(x, y)
  <2>1. Still(x, a) /\ Still(a, b) /\ Still(b, y)
    BY <1>1, <1>2, <1>3, ButStill
  <2>2. Still(x, y)
    BY <2>1 DEF Still
  <2> QED
    BY <2>2, StillHeard DEF Bound
<1>12. GoesOn("client", x, y, o)
  BY <1>3, <1>5, <1>6, <1>8, <1>9, <1>10, <1>11 DEF GoesOn, Bound, But
<1> QED
  BY <1>12 DEF a, b, y

(* A server that has the client's Finished.                                *)
LEMMA ServerDone ==
  ASSUME NEW x, Shape(x), NEW o, Bound("server", x, o), Going("server", x), x.tls = 1,
         x.sp["handshake"].in # {}
  PROVE  GoesOn("server", x, TlsComplete("server", Secrets(x, "app", TRUE, FALSE)), o)
<1> DEFINE b == Secrets(x, "app", TRUE, FALSE)
           y == TlsComplete("server", b)
<1>1. But(x, b, {}, "app", {"rx", "tx"}) /\ (b.sp["app"].tx <=> x.sp["app"].tx)
  <2>1. "app" \in Spaces /\ FALSE \in BOOLEAN /\ TRUE \in BOOLEAN
    BY DEF Spaces
  <2>2. /\ But(x, b, {}, "app", {"rx", "tx"})
        /\ b.sp["app"].tx <=> x.sp["app"].tx \/ FALSE
    BY <2>1, SecretsGiven
  <2> QED
    BY <2>2
<1> HIDE DEF b
<1>2. /\ But(b, y, {"tls", "st", "told", "confirmed", "valid", "soon"}, "app", {"out"})
      /\ y.tls = b.tls + 1 /\ y.told = Append(b.told, "accepted")
      /\ y.st = IF b.st \in {"new", "handshake"} THEN "connected" ELSE b.st
      /\ y.confirmed /\ y.soon /\ y.credit = b.credit /\ (b.valid => y.valid)
  BY <1>1, Completed DEF But, Ends, Greeting
<1> HIDE DEF y
<1>3. /\ y.sawHs = b.sawHs /\ y.torn = b.torn /\ y.appClosing = b.appClosing /\ y.why = b.why
      /\ y.outbox = b.outbox
  BY <1>2 DEF But, ConnFields
<1>4. /\ b.sawHs = x.sawHs /\ b.st = x.st
      /\ b.torn = x.torn /\ b.appClosing = x.appClosing /\ b.why = x.why /\ b.told = x.told
      /\ b.outbox = x.outbox /\ b.tls = x.tls /\ b.credit = x.credit /\ b.valid = x.valid
  BY <1>1 DEF But, ConnFields
<1>5. /\ y.sp["initial"] = x.sp["initial"] /\ y.sp["handshake"] = x.sp["handshake"]
      /\ (y.sp["app"].tx <=> x.sp["app"].tx) /\ y.sp["app"].gone = x.sp["app"].gone
  BY <1>1, <1>2 DEF But, Spaces, SpaceFields
<1>6. Keys("server", y)
  BY <1>2, <1>3, <1>4, <1>5 DEF Bound, Keys, Done, Keyed
<1>7. Knows("server", y, o)
  BY <1>2, <1>3, <1>4, <1>5 DEF Bound, Knows
<1>8. Going("server", y)
  <2>1. x.told = <<>>
    BY DEF Going, Done
  <2>2. y.told = <<"accepted">>
    BY <1>2, <1>4, <2>1, Appends
  <2>3. Done("server", y)
    BY <1>2, <1>4 DEF Done
  <2>4. y.told = IF Done("server", y) THEN <<Greeting("server")>> ELSE <<>>
    BY <2>2, <2>3, Zenon DEF Greeting
  <2> QED
    BY <1>2, <1>3, <1>4, <2>4 DEF Going
<1>9. Heard(y, o) /\ Ahead(x, y)
  <2>1. Still(x, b) /\ Still(b, y)
    BY <1>1, <1>2, ButStill
  <2>2. Still(x, y)
    BY <2>1 DEF Still
  <2> QED
    BY <2>2, StillHeard DEF Bound
<1>10. GoesOn("server", x, y, o)
  BY <1>2, <1>3, <1>4, <1>6, <1>7, <1>8, <1>9 DEF GoesOn, Bound, But
<1> QED
  BY <1>10 DEF b, y

(* An end whose TLS engine has refused the other, and that may say so.     *)
Refused(e, x) ==
  /\ x.torn /\ x.st = "closing" /\ x.closePending /\ x.why = "error"
  /\ Told(e, x) /\ ~Done(e, x) /\ ~Limited(e, x)

Halts(e, x, y, o) ==
  /\ Shape(y) /\ y.outbox = x.outbox /\ Bound(e, y, o) /\ Refused(e, y)
  /\ y.tls >= x.tls /\ (x.confirmed => y.confirmed)

LEMMA TlsNat ==
  ASSUME NEW e, NEW x, NEW o, Bound(e, x, o)
  PROVE  x.tls \in Nat
BY DEF Bound, Keys, Keyed

LEMMA Refusal ==
  ASSUME NEW e \in Ends, NEW x, Shape(x), NEW o, Bound(e, x, o), Going(e, x), ~Done(e, x),
         ~Limited(e, x)
  PROVE  Halts(e, x, ConnClose(e, x, "error"), o) /\ ConnClose(e, x, "error").tls = x.tls
<1> DEFINE a == [x EXCEPT !.st = "closing", !.closePending = TRUE]
           y == NotifyClosed(e, a, "error")
<1>1. x.st \notin {"closing", "draining", "closed"}
  BY DEF Going
<1>2. ConnClose(e, x, "error") = y
  BY <1>1, Zenon DEF ConnClose
<1>3. /\ Only(x, a, {"st", "closePending"}) /\ a.st = "closing" /\ a.closePending
  BY DEF Only, Shape, ConnFields
<1> HIDE DEF a
<1>4. /\ a.torn = x.torn /\ a.appClosing = x.appClosing /\ a.tls = x.tls /\ a.told = x.told
      /\ a.sp = x.sp /\ a.confirmed = x.confirmed /\ a.soon = x.soon /\ a.sawHs = x.sawHs
      /\ a.valid = x.valid /\ a.credit = x.credit /\ a.outbox = x.outbox
  BY <1>3 DEF Only, ConnFields
<1>5. Shape(a) /\ ~a.torn /\ ~a.appClosing
      /\ a.told = IF Done(e, a) THEN <<Greeting(e)>> ELSE <<>>
  BY <1>3, <1>4 DEF Only, Going, Done
<1>6. Only(a, y, {"why", "told", "torn"}) /\ y.why = "error" /\ y.torn /\ Told(e, y)
  BY <1>5, NotifiedClosed
<1> HIDE DEF y
<1>7. /\ y.st = a.st /\ y.closePending = a.closePending /\ y.tls = a.tls
      /\ y.sp = a.sp /\ y.confirmed = a.confirmed /\ y.soon = a.soon /\ y.sawHs = a.sawHs
      /\ y.valid = a.valid /\ y.credit = a.credit /\ y.outbox = a.outbox
  BY <1>6 DEF Only, ConnFields
<1>8. Bound(e, y, o)
  BY <1>4, <1>7, BoundSame
<1>9. Refused(e, y)
  BY <1>3, <1>4, <1>6, <1>7 DEF Refused, Done, Limited
<1>10. Halts(e, x, y, o)
  BY <1>4, <1>6, <1>7, <1>8, <1>9, TlsNat DEF Halts, Only
<1> QED
  BY <1>2, <1>4, <1>7, <1>10

LEMMA Drained ==
  ASSUME NEW e \in Ends, NEW x, Shape(x), NEW o, Bound(e, x, o), Going(e, x), NEW s \in Spaces,
         ~Limited(e, x)
  PROVE  \/ GoesOn(e, x, CryptoDrain(e, x, s), o)
         \/ /\ Halts(e, x, CryptoDrain(e, x, s), o)
            /\ s = "initial" => CryptoDrain(e, x, s).tls < Keyed(e)
<1> DEFINE have == x.sp[s].in
           need == IF e = "client" /\ s = "handshake" THEN Pieces ELSE {1}
           y == CryptoDrain(e, x, s)
<1>1. x.tls \in Nat
  BY TlsNat
<1>2. /\ Reads(e, x) = "initial" => x.tls = IF e = "client" THEN 1 ELSE 0
      /\ Reads(e, x) = "handshake" => x.tls = IF e = "client" THEN 2 ELSE 1
      /\ Reads(e, x) # "app"
  BY DEF Reads
<1>3. CASE Reads(e, x) # s \/ (~Refuses(e, s, have) /\ have # need)
  <2>1. y = x
    BY <1>3, Zenon DEF CryptoDrain
  <2> QED
    BY <1>1, <2>1 DEF GoesOn, Ahead
<1>4. CASE Reads(e, x) = s /\ Refuses(e, s, have)
  <2>1. y = ConnClose(e, x, "error")
    BY <1>4, Zenon DEF CryptoDrain
  <2>2. ~Done(e, x)
    BY <1>2, <1>4 DEF Done, Spaces
  <2>3. Halts(e, x, y, o) /\ y.tls = x.tls
    BY <2>1, <2>2, Refusal
  <2>4. s = "initial" => x.tls < Keyed(e)
    BY <1>2, <1>4 DEF Keyed
  <2> QED
    BY <2>3, <2>4
<1>5. ASSUME Reads(e, x) = s, ~Refuses(e, s, have), have = need PROVE GoesOn(e, x, y, o)
  <2>1. CASE e = "server" /\ s = "initial"
    <3>1. y = [Write(Write(Secrets(Secrets(x, "handshake", TRUE, TRUE), "app", FALSE, TRUE),
                           "initial", {1}), "handshake", Pieces) EXCEPT !.tls = 1]
      BY <1>5, <2>1, Zenon DEF CryptoDrain
    <3> QED
      BY <1>2, <1>5, <2>1, <3>1, ServerHello
  <2>2. CASE e = "client" /\ s = "initial"
    <3>1. y = [Secrets(x, "handshake", TRUE, TRUE) EXCEPT !.tls = 2]
      BY <1>5, <2>2, Zenon DEF CryptoDrain
    <3>2. x.sp["initial"].in # {}
      BY <1>5, <2>2
    <3> QED
      BY <1>2, <1>5, <2>2, <3>1, <3>2, ClientHello
  <2>3. CASE e = "client" /\ s = "handshake"
    <3>1. y = TlsComplete(e, Secrets(Write(x, "handshake", {1}), "app", TRUE, TRUE))
      BY <1>5, <2>3, Zenon DEF CryptoDrain
    <3> QED
      BY <1>2, <1>5, <2>3, <3>1, ClientDone
  <2>4. CASE e = "server" /\ s = "handshake"
    <3>1. y = TlsComplete(e, Secrets(x, "app", TRUE, FALSE))
      BY <1>5, <2>4, Zenon DEF CryptoDrain
    <3>2. x.sp["handshake"].in # {}
      BY <1>5, <2>4
    <3> QED
      BY <1>2, <1>5, <2>4, <3>1, <3>2, ServerDone
  <2> QED
    BY <1>2, <1>5, <2>1, <2>2, <2>3, <2>4 DEF Ends, Spaces
<1> QED
  BY <1>3, <1>4, <1>5

-----------------------------------------------------------------------------
(***************************************************************************)
(* Receiving.                                                              *)
(***************************************************************************)
(* What a packet p of space s says about o, which sent it to e.            *)
Trusted(e, o, s, p) ==
  /\ ~o.sp[s].gone => p.pn \in Used(o.sp[s])
  /\ e = "server" /\ s = "handshake" => o.tls >= 2 /\ (p.cr # {} => o.tls = 3)
  /\ e = "client" /\ p.cr # {} => /\ s = "initial" => o.tls >= 1
                                  /\ s = "app" => o.tls = 2 /\ o.confirmed

LEMMA GoesOnTrans ==
  ASSUME NEW e, NEW x, NEW y, NEW z, NEW o, x.tls \in Nat, y.tls \in Nat, z.tls \in Nat,
         GoesOn(e, x, y, o), GoesOn(e, y, z, o)
  PROVE  GoesOn(e, x, z, o)
BY AheadTrans DEF GoesOn

LEMMA SameGoesOn ==
  ASSUME NEW e \in Ends, NEW x, NEW y, NEW o, Bound(e, x, o), Going(e, x), Same(x, y)
  PROVE  GoesOn(e, x, y, o)
<1>1. Bound(e, y, o)
  BY SameBound
<1>2. x.tls \in Nat
  BY DEF Bound, Keys, Keyed
<1>3. Going(e, y)
  BY DEF Same, Going, Done
<1>4. Ahead(x, y)
  BY SpacesAhead DEF Same
<1> QED
  BY <1>1, <1>2, <1>3, <1>4 DEF GoesOn, Same

LEMMA FramesGoOn ==
  ASSUME NEW e \in Ends, NEW x, Shape(x), NEW o, Bound(e, x, o), Going(e, x), NEW s \in Spaces,
         NEW p, ~p.close, Trusted(e, o, s, p), s = "app" => Done(e, x)
  PROVE  GoesOn(e, x, ProcessFrames(e, x, s, p), o)
<1> DEFINE y == HandleAck(e, x, s, p.ack)
           i == [y EXCEPT !.sp[s].in = @ \union p.cr]
           f == ProcessFrames(e, x, s, p)
<1>1. Same(x, y)
  BY HandleAckSame
<1>2. GoesOn(e, x, y, o) /\ Shape(y) /\ y.tls = x.tls
  BY <1>1, SameGoesOn DEF Same
<1>3. f = IF s # "app" THEN i ELSE IF p.cr = {} THEN y ELSE HandleApp(e, y)
  BY Zenon DEF ProcessFrames
<1>4. x.tls \in Nat
  BY DEF Bound, Keys, Keyed
<1> HIDE DEF y
<1>5. ASSUME s # "app" PROVE GoesOn(e, x, i, o)
  <2> DEFINE q == [y.sp[s] EXCEPT !.in = @ \union p.cr]
  <2>1. /\ SpaceShape(q) /\ \A g \in SpaceFields \ {"in"} : q[g] = y.sp[s][g]
        /\ q.in = y.sp[s].in \union p.cr
    <3>1. SpaceShape(y.sp[s])
      BY <1>2 DEF Shape
    <3> QED
      BY <3>1 DEF SpaceShape, SpaceFields
  <2>2. i = [y EXCEPT !.sp[s] = q]
    OBVIOUS
  <2> HIDE DEF q, i
  <2>3. But(y, i, {}, s, {"in"}) /\ i.sp[s] = q
    BY <1>2, <2>1, <2>2, ButSpace
  <2>4. /\ i.tls = y.tls /\ i.confirmed = y.confirmed /\ i.sawHs = y.sawHs /\ i.soon = y.soon
        /\ i.st = y.st /\ i.torn = y.torn /\ i.appClosing = y.appClosing /\ i.why = y.why
        /\ i.told = y.told /\ i.outbox = y.outbox /\ i.valid = y.valid /\ i.credit = y.credit
    BY <2>3 DEF But, ConnFields
  <2>5. /\ i.sp[s].tx = y.sp[s].tx /\ i.sp[s].rx = y.sp[s].rx /\ i.sp[s].gone = y.sp[s].gone
        /\ i.sp[s].out = y.sp[s].out /\ i.sp[s].in = y.sp[s].in \union p.cr
    BY <2>1, <2>3 DEF SpaceFields
  <2>6. \A t \in Spaces : t # s => i.sp[t] = y.sp[t]
    BY <2>3 DEF But
  <2>7. Bound(e, y, o)
    BY <1>2 DEF GoesOn
  <2>8. Heard(i, o) /\ Ahead(y, i)
    <3>1. Still(y, i)
      BY <2>3, ButStill
    <3> QED
      BY <2>7, <3>1, StillHeard DEF Bound
  <2>9. Bound(e, i, o)
    <3>1. CASE s = "initial"
      <4>1. i.sp["handshake"] = y.sp["handshake"] /\ i.sp["app"] = y.sp["app"]
        BY <2>6, <3>1 DEF Spaces
      <4>2. Keys(e, i)
        BY <2>4, <2>5, <2>7, <3>1, <4>1 DEF Bound, Keys, Done, Keyed, Blank
      <4>3. Knows(e, i, o)
        BY <2>4, <2>5, <2>7, <3>1, <4>1 DEF Bound, Knows, Trusted, Ends
      <4> QED
        BY <2>8, <4>2, <4>3 DEF Bound
    <3>2. CASE s = "handshake"
      <4>1. i.sp["initial"] = y.sp["initial"] /\ i.sp["app"] = y.sp["app"]
        BY <2>6, <3>2 DEF Spaces
      <4>2. Keys(e, i)
        BY <2>4, <2>5, <2>7, <3>2, <4>1 DEF Bound, Keys, Done, Keyed, Blank
      <4>3. Knows(e, i, o)
        BY <2>4, <2>5, <2>7, <3>2, <4>1 DEF Bound, Knows, Trusted, Ends
      <4> QED
        BY <2>8, <4>2, <4>3 DEF Bound
    <3> QED
      BY <1>5, <3>1, <3>2 DEF Spaces
  <2>10. Going(e, i)
    BY <1>2, <2>4 DEF GoesOn, Going, Done
  <2>11. Ahead(x, i)
    BY <1>2, <2>8, AheadTrans DEF GoesOn
  <2> QED
    BY <1>2, <2>3, <2>4, <2>9, <2>10, <2>11 DEF GoesOn, But
<1>6. ASSUME s = "app", p.cr # {}
      PROVE  GoesOn(e, x, HandleApp(e, y), o)
  <2> DEFINE d == SpaceDiscard(y, "handshake")
             h == [d EXCEPT !.confirmed = TRUE, !.valid = TRUE]
  <2>1. HandleApp(e, y) = IF e = "server" \/ y.confirmed THEN y ELSE h
    BY Zenon DEF HandleApp
  <2>2. ASSUME e = "client" PROVE GoesOn(e, x, h, o)
    <3>1. o.tls = 2 /\ o.confirmed
      BY <1>6, <2>2 DEF Trusted
    <3>2. Done(e, y)
      BY <1>2, <1>6 DEF Done
    <3>3. Bound(e, d, o)
      BY <1>2, <2>2, <3>1, <3>2, DiscardBound DEF GoesOn
    <3>4. Shape(d) /\ Ahead(y, d) /\ \A g \in ConnFields \ {"sp", "pto"} : d[g] = y[g]
      BY <1>2, Discarded, DiscardAhead DEF Spaces
    <3> HIDE DEF d
    <3>5. Shape(h) /\ h.confirmed /\ h.valid /\ h.sp = d.sp
          /\ \A g \in ConnFields \ {"confirmed", "valid"} : h[g] = d[g]
      BY <3>4 DEF Shape, ConnFields
    <3> HIDE DEF h
    <3>6. /\ h.tls = y.tls /\ h.sawHs = y.sawHs /\ h.soon = y.soon
          /\ h.st = y.st /\ h.torn = y.torn /\ h.appClosing = y.appClosing /\ h.why = y.why
          /\ h.told = y.told /\ h.outbox = y.outbox /\ h.credit = y.credit
      BY <3>4, <3>5 DEF ConnFields
    <3>7. d.tls = y.tls /\ d.sawHs = y.sawHs /\ d.soon = y.soon
      BY <3>4 DEF ConnFields
    <3>8. Bound(e, h, o)
      BY <2>2, <3>1, <3>3, <3>5, <3>6, <3>7 DEF Bound, Keys, Knows, Heard, Done
    <3>9. Going(e, h)
      BY <1>2, <3>6 DEF GoesOn, Going, Done
    <3>10. Ahead(x, h)
      <4>1. Ahead(y, h)
        BY <3>4, <3>5 DEF Ahead
      <4> QED
        BY <1>2, <4>1, AheadTrans DEF GoesOn
    <3> QED
      BY <1>2, <3>5, <3>6, <3>8, <3>9, <3>10 DEF GoesOn
  <2> QED
    BY <1>2, <2>1, <2>2 DEF Ends
<1> QED
  BY <1>2, <1>3, <1>5, <1>6

(* The packet's number is recorded; one of the Handshake space shows that  *)
(* the client has Handshake keys.                                          *)
Recorded(e, x, s, p) ==
  LET hs == e = "server" /\ s = "handshake"
  IN  [x EXCEPT !.sp[s].got = @ \union {p.pn}, !.sawHs = @ \/ hs, !.valid = @ \/ hs]

(* The number alone.                                                      *)
Got(x, s, n) == [x EXCEPT !.sp[s].got = @ \union {n}]

LEMMA Noted ==
  ASSUME NEW x, Shape(x), NEW s \in Spaces, NEW n
  PROVE  /\ But(x, Got(x, s, n), {}, s, {"got"})
         /\ Got(x, s, n).sp[s].got = x.sp[s].got \union {n}
<1> DEFINE p == x.sp[s]
           q == [p EXCEPT !.got = @ \union {n}]
           g == Got(x, s, n)
<1>1. /\ SpaceShape(q) /\ \A f \in SpaceFields \ {"got"} : q[f] = p[f]
      /\ q.got = p.got \union {n}
  BY DEF Shape, SpaceShape, SpaceFields
<1>2. g = [x EXCEPT !.sp[s] = q]
  BY DEF Got
<1> HIDE DEF q, g
<1>3. But(x, g, {}, s, {"got"}) /\ g.sp[s] = q
  BY <1>1, <1>2, ButSpace
<1> QED
  BY <1>1, <1>3 DEF g

LEMMA RecordedGoesOn ==
  ASSUME NEW e \in Ends, NEW x, Shape(x), NEW o, Bound(e, x, o), Going(e, x), NEW s \in Spaces,
         NEW p, Trusted(e, o, s, p), Readable(x, s)
  PROVE  LET a == Recorded(e, x, s, p)
         IN  GoesOn(e, x, a, o) /\ a.tls = x.tls /\ a.st = x.st
<1> DEFINE hs == e = "server" /\ s = "handshake"
           g == Got(x, s, p.pn)
           a == [g EXCEPT !.sawHs = @ \/ hs, !.valid = @ \/ hs]
<1>1. Recorded(e, x, s, p) = a
  BY DEF Recorded, Got
<1>2. But(x, g, {}, s, {"got"}) /\ g.sp[s].got = x.sp[s].got \union {p.pn}
  BY Noted
<1> HIDE DEF g
<1>3. /\ Only(g, a, {"sawHs", "valid"})
      /\ (a.sawHs <=> g.sawHs \/ hs) /\ (a.valid <=> g.valid \/ hs)
  BY <1>2 DEF Only, But, Shape, ConnFields
<1> HIDE DEF a
<1>4. /\ a.tls = x.tls /\ a.confirmed = x.confirmed /\ a.soon = x.soon /\ a.sp = g.sp
      /\ a.st = x.st /\ a.torn = x.torn /\ a.appClosing = x.appClosing /\ a.why = x.why
      /\ a.told = x.told /\ a.outbox = x.outbox /\ (a.sawHs <=> x.sawHs \/ hs)
      /\ a.credit = x.credit /\ (x.valid => a.valid)
  BY <1>2, <1>3 DEF Only, But, ConnFields
<1>5. hs => x.tls >= 1 /\ o.tls >= 2
  BY DEF Readable, Bound, Keys, Keyed, Trusted
<1>6. \A t \in Spaces : /\ a.sp[t].tx = x.sp[t].tx /\ a.sp[t].rx = x.sp[t].rx
                        /\ a.sp[t].gone = x.sp[t].gone /\ a.sp[t].in = x.sp[t].in
                        /\ a.sp[t].out = x.sp[t].out /\ a.sp[t].next = x.sp[t].next
  BY <1>2, <1>4 DEF But, SpaceFields
<1>7. Bound(e, a, o)
  <2>1. {"initial", "handshake", "app"} = Spaces
    BY DEF Spaces
  <2>2. Keys(e, a)
    BY <1>4, <1>5, <1>6, <2>1 DEF Bound, Keys, Done, Keyed, Blank
  <2>3. Knows(e, a, o)
    BY <1>4, <1>5, <1>6, <2>1 DEF Bound, Knows
  <2>4. Heard(a, o)
    <3>1. a.sp[s].got = x.sp[s].got \union {p.pn}
      BY <1>2, <1>4
    <3>2. \A t \in Spaces : t # s => a.sp[t].got = x.sp[t].got
      BY <1>2, <1>4 DEF But
    <3> QED
      BY <1>6, <3>1, <3>2 DEF Bound, Heard, Trusted
  <2> QED
    BY <2>2, <2>3, <2>4 DEF Bound
<1>8. Going(e, a)
  BY <1>4 DEF Going, Done
<1>9. Ahead(x, a)
  BY <1>6 DEF Ahead, Used
<1>10. GoesOn(e, x, a, o)
  BY <1>3, <1>4, <1>7, <1>8, <1>9, TlsNat DEF GoesOn, Only
<1> QED
  BY <1>1, <1>3, <1>4, <1>10

(* A packet that is not a CONNECTION_CLOSE.                                *)
LEMMA PlainPacket ==
  ASSUME NEW e \in Ends, NEW x, Shape(x), NEW o, Bound(e, x, o), Live(e, x), NEW s \in Spaces,
         NEW p, ~p.close, Trusted(e, o, s, p), ~Limited(e, x)
  PROVE  LET y == ProcessPacket(e, x, s, p)
         IN  \/ GoesOn(e, x, y, o) /\ Live(e, y)
             \/ Halts(e, x, y, o) /\ (s = "initial" => y.tls < Keyed(e))
<1> DEFINE a == Recorded(e, x, s, p)
           f == ProcessFrames(e, a, s, p)
           b == [f EXCEPT !.sp[s].ackp = @ \/ Elicits(p)]
           c == CryptoDrain(e, b, s)
           y == [c EXCEPT !.st = IF @ = "new" THEN "handshake" ELSE @]
<1>1. ProcessPacket(e, x, s, p) = IF ~Readable(x, s) \/ p.pn \in x.sp[s].got THEN x ELSE y
  <2> DEFINE d == IF p.close THEN b ELSE CryptoDrain(e, b, s)
  <2>1. ProcessPacket(e, x, s, p) =
          IF ~Readable(x, s) \/ p.pn \in x.sp[s].got THEN x
          ELSE [d EXCEPT !.st = IF @ = "new" THEN "handshake" ELSE @]
    BY Zenon DEF ProcessPacket, Recorded
  <2>2. d = c
    <3> HIDE DEF b
    <3> QED
      OBVIOUS
  <2> HIDE DEF c, d
  <2> QED
    BY <2>1, <2>2
<1>2. x.tls \in Nat /\ Going(e, x)
  BY TlsNat DEF Live
<1>3. GoesOn(e, x, x, o) /\ Live(e, x)
  BY <1>2 DEF GoesOn, Ahead
<1>4. ASSUME Readable(x, s)
      PROVE  \/ GoesOn(e, x, y, o) /\ Live(e, y)
             \/ Halts(e, x, y, o) /\ (s = "initial" => y.tls < Keyed(e))
  <2>1. GoesOn(e, x, a, o) /\ a.tls = x.tls /\ a.st = x.st
    BY <1>2, <1>4, RecordedGoesOn
  <2> HIDE DEF a
  <2>2. s = "app" => Done(e, a)
    BY <1>4, <2>1 DEF Readable, Bound, Keys, Done
  <2>3. GoesOn(e, a, f, o)
    BY <2>1, <2>2, FramesGoOn DEF GoesOn
  <2> HIDE DEF f
  <2>4. Same(f, b)
    <3> DEFINE q == [f.sp[s] EXCEPT !.ackp = @ \/ Elicits(p)]
    <3>1. Shape(f) /\ SpaceShape(f.sp[s])
      BY <2>3 DEF GoesOn, Shape
    <3>2. SpaceSame(f.sp[s], q)
      BY <3>1 DEF SpaceSame, SpaceShape, SpaceFields, Used, Blank
    <3>3. b = [f EXCEPT !.sp[s] = q]
      OBVIOUS
    <3> HIDE DEF q, b
    <3> QED
      BY <3>1, <3>2, <3>3, SameSpace
  <2> HIDE DEF b
  <2>5. GoesOn(e, f, b, o)
    BY <2>3, <2>4, SameGoesOn DEF GoesOn
  <2>6. a.tls \in Nat /\ f.tls \in Nat /\ b.tls \in Nat
    BY <2>1, <2>3, <2>5, TlsNat DEF GoesOn
  <2>7. GoesOn(e, x, b, o)
    BY <1>2, <2>1, <2>3, <2>5, <2>6, GoesOnTrans
  <2>8. \/ GoesOn(e, b, c, o)
        \/ Halts(e, b, c, o) /\ (s = "initial" => c.tls < Keyed(e))
    <3>1. ~Limited(e, b)
      BY <2>7 DEF GoesOn, Limited
    <3> QED
      BY <2>7, <3>1, Drained DEF GoesOn
  <2> HIDE DEF c
  <2>9. c.tls \in Nat /\ Shape(c)
    BY <2>8, TlsNat DEF GoesOn, Halts
  <2>10. /\ Only(c, y, {"st"})
         /\ y.st = IF c.st = "new" THEN "handshake" ELSE c.st
    BY <2>9 DEF Only, Shape, ConnFields
  <2> HIDE DEF y
  <2>11. /\ y.tls = c.tls /\ y.confirmed = c.confirmed /\ y.sawHs = c.sawHs /\ y.soon = c.soon
         /\ y.sp = c.sp /\ y.torn = c.torn /\ y.appClosing = c.appClosing /\ y.why = c.why
         /\ y.told = c.told /\ y.outbox = c.outbox /\ y.valid = c.valid
         /\ y.closePending = c.closePending /\ y.credit = c.credit
    BY <2>10 DEF Only, ConnFields
  <2>12. CASE GoesOn(e, b, c, o)
    <3>1. GoesOn(e, x, c, o)
      BY <1>2, <2>6, <2>7, <2>9, <2>12, GoesOnTrans
    <3>2. Bound(e, y, o)
      BY <2>11, <3>1, BoundSame DEF GoesOn
    <3>3. Live(e, y)
      BY <2>10, <2>11, <3>1 DEF GoesOn, Live, Going, Done
    <3>4. Ahead(x, y)
      BY <2>11, <3>1 DEF GoesOn, Ahead
    <3>5. GoesOn(e, x, y, o)
      BY <2>10, <2>11, <3>1, <3>2, <3>3, <3>4 DEF GoesOn, Live, Only
    <3> QED
      BY <3>3, <3>5
  <2>13. CASE Halts(e, b, c, o) /\ (s = "initial" => c.tls < Keyed(e))
    <3>1. Bound(e, y, o)
      BY <2>11, <2>13, BoundSame DEF Halts
    <3>2. Refused(e, y)
      BY <2>10, <2>11, <2>13 DEF Halts, Refused, Told, Done, Limited
    <3>3. y.outbox = x.outbox
      BY <2>7, <2>11, <2>13 DEF GoesOn, Halts
    <3>4. y.tls >= x.tls /\ (x.confirmed => y.confirmed)
      BY <1>2, <2>6, <2>7, <2>9, <2>11, <2>13 DEF GoesOn, Halts
    <3> QED
      BY <2>10, <2>11, <2>13, <3>1, <3>2, <3>3, <3>4 DEF Halts, Only
  <2> QED
    BY <2>8, <2>12, <2>13
<1> QED
  BY <1>1, <1>3, <1>4

(* An end whose peer has closed the connection.                            *)
Peered(e, x) == x.torn /\ x.st = "draining" /\ x.why = "peer" /\ Told(e, x)

(* handleConnClose of a connection that goes on, or of one that was told.  *)
LEMMA PeerCloses ==
  ASSUME NEW e \in Ends, NEW x, Shape(x), Going(e, x) \/ Peered(e, x)
  PROVE  LET y == HandleConnClose(e, x)
         IN  /\ Shape(y) /\ Peered(e, y) /\ y.outbox = x.outbox /\ y.tls = x.tls
             /\ y.confirmed = x.confirmed
<1> DEFINE a == [x EXCEPT !.st = "draining", !.closePending = FALSE]
           y == HandleConnClose(e, x)
<1>1. y = IF x.st \in {"draining", "closed"} THEN a ELSE NotifyClosed(e, a, "peer")
  BY Zenon DEF HandleConnClose
<1>2. Only(x, a, {"st", "closePending"}) /\ a.st = "draining"
  BY DEF Only, Shape, ConnFields
<1> HIDE DEF a
<1>3. /\ a.torn = x.torn /\ a.appClosing = x.appClosing /\ a.tls = x.tls /\ a.told = x.told
      /\ a.why = x.why /\ a.confirmed = x.confirmed /\ a.outbox = x.outbox
  BY <1>2 DEF Only, ConnFields
<1>4. CASE Peered(e, x)
  BY <1>1, <1>2, <1>3, <1>4 DEF Peered, Only, Told, Done
<1>5. CASE Going(e, x)
  <2>1. y = NotifyClosed(e, a, "peer")
    BY <1>1, <1>5 DEF Going
  <2>2. Shape(a) /\ ~a.torn /\ ~a.appClosing
        /\ a.told = IF Done(e, a) THEN <<Greeting(e)>> ELSE <<>>
    BY <1>2, <1>3, <1>5 DEF Only, Going, Done
  <2>3. Only(a, y, {"why", "told", "torn"}) /\ y.why = "peer" /\ y.torn /\ Told(e, y)
    BY <2>1, <2>2, NotifiedClosed
  <2> HIDE DEF y
  <2>4. y.st = a.st /\ y.tls = a.tls /\ y.confirmed = a.confirmed /\ y.outbox = a.outbox
    BY <2>3 DEF Only, ConnFields
  <2>5. Shape(y) /\ Peered(e, y) /\ y.outbox = x.outbox /\ y.tls = x.tls
        /\ y.confirmed = x.confirmed
    BY <1>2, <1>3, <2>3, <2>4 DEF Peered, Only
  <2> QED
    BY <2>5 DEF y
<1> QED
  BY <1>4, <1>5

(* A CONNECTION_CLOSE.                                                     *)
LEMMA ClosePacket ==
  ASSUME NEW e \in Ends, NEW x, Shape(x), Going(e, x) \/ Peered(e, x), NEW s \in Spaces,
         NEW p, p.close
  PROVE  LET y == ProcessPacket(e, x, s, p)
         IN  /\ y = x \/ Peered(e, y)
             /\ Shape(y) /\ y.outbox = x.outbox /\ y.tls = x.tls /\ y.confirmed = x.confirmed
<1> DEFINE a == Recorded(e, x, s, p)
           f == HandleConnClose(e, a)
           b == [f EXCEPT !.sp[s].ackp = @ \/ Elicits(p)]
           y == [b EXCEPT !.st = IF @ = "new" THEN "handshake" ELSE @]
<1>1. ProcessPacket(e, x, s, p) = IF ~Readable(x, s) \/ p.pn \in x.sp[s].got THEN x ELSE y
  <2>1. ProcessFrames(e, a, s, p) = f
    BY Zenon DEF ProcessFrames
  <2> DEFINE g == [ProcessFrames(e, a, s, p) EXCEPT !.sp[s].ackp = @ \/ Elicits(p)]
             c == IF p.close THEN g ELSE CryptoDrain(e, g, s)
  <2>2. ProcessPacket(e, x, s, p) =
          IF ~Readable(x, s) \/ p.pn \in x.sp[s].got THEN x
          ELSE [c EXCEPT !.st = IF @ = "new" THEN "handshake" ELSE @]
    BY Zenon DEF ProcessPacket, Recorded
  <2>3. c = g
    <3> HIDE DEF g
    <3> QED
      OBVIOUS
  <2>4. g = b
    BY <2>1
  <2> HIDE DEF c, g, b
  <2> QED
    BY <2>2, <2>3, <2>4
<1>2. Shape(a) /\ \A g \in ConnFields \ {"sp", "sawHs", "valid"} : a[g] = x[g]
  <2> DEFINE q == [x.sp[s] EXCEPT !.got = @ \union {p.pn}]
  <2>1. SpaceShape(x.sp[s])
    BY DEF Shape
  <2>2. SpaceShape(q)
    BY <2>1 DEF SpaceShape, SpaceFields
  <2>3. /\ DOMAIN a = ConnFields /\ a.sp = [x.sp EXCEPT ![s] = q]
        /\ \A g \in ConnFields \ {"sp", "sawHs", "valid"} : a[g] = x[g]
    BY DEF Recorded, Shape, ConnFields
  <2> HIDE DEF q, a
  <2> QED
    BY <2>2, <2>3 DEF Shape
<1> HIDE DEF a
<1>3. /\ a.st = x.st /\ a.torn = x.torn /\ a.appClosing = x.appClosing /\ a.tls = x.tls
      /\ a.told = x.told /\ a.why = x.why /\ a.confirmed = x.confirmed /\ a.outbox = x.outbox
  BY <1>2 DEF ConnFields
<1>4. Going(e, a) \/ Peered(e, a)
  BY <1>3 DEF Going, Peered, Done, Told
<1>5. /\ Shape(f) /\ Peered(e, f) /\ f.outbox = a.outbox /\ f.tls = a.tls
      /\ f.confirmed = a.confirmed
  BY <1>2, <1>4, PeerCloses
<1> HIDE DEF f
<1>6. Same(f, b)
  <2> DEFINE q == [f.sp[s] EXCEPT !.ackp = @ \/ Elicits(p)]
  <2>1. SpaceShape(f.sp[s])
    BY <1>5 DEF Shape
  <2>2. SpaceSame(f.sp[s], q)
    BY <2>1 DEF SpaceSame, SpaceShape, SpaceFields, Used, Blank
  <2>3. b = [f EXCEPT !.sp[s] = q]
    OBVIOUS
  <2> HIDE DEF q, b
  <2> QED
    BY <1>5, <2>2, <2>3, SameSpace
<1> HIDE DEF b
<1>7. Shape(b) /\ Peered(e, b) /\ b.outbox = x.outbox /\ b.tls = x.tls
      /\ b.confirmed = x.confirmed
  BY <1>3, <1>5, <1>6 DEF Same, Peered, Told, Done
<1>8. Only(b, y, {"st"}) /\ y.st = "draining"
  BY <1>7 DEF Only, Shape, ConnFields, Peered
<1> HIDE DEF y
<1>9. /\ y.torn = b.torn /\ y.why = b.why /\ y.told = b.told /\ y.outbox = b.outbox
      /\ y.tls = b.tls /\ y.confirmed = b.confirmed
  BY <1>8 DEF Only, ConnFields
<1>10. Shape(y) /\ Peered(e, y) /\ y.outbox = x.outbox /\ y.tls = x.tls
       /\ y.confirmed = x.confirmed
  BY <1>7, <1>8, <1>9 DEF Only, Peered, Told, Done
<1> QED
  BY <1>1, <1>10

(* How far the packets of a datagram that is not a close have brought w.   *)
PlainAcc(e, w, a, o) ==
  /\ Shape(a.x) /\ a.x.outbox = <<>> /\ Bound(e, a.x, o)
  /\ a.x.tls >= w.tls /\ (w.confirmed => a.x.confirmed)
  /\ a.x.torn \/ Ahead(w, a.x)
  /\ ~Limited(e, a.x)
  /\ ~a.read => a.x = w

LEMMA PlainRecv ==
  ASSUME NEW e \in Ends, NEW w, w.tls \in Nat, NEW a, NEW o, PlainAcc(e, w, a, o), Live(e, a.x),
         NEW d, NEW s \in Spaces, s \in DOMAIN d => ~d[s].close /\ Trusted(e, o, s, d[s])
  PROVE  LET b == RecvPacket(e, a, d, s)
         IN  /\ PlainAcc(e, w, b, o)
             /\ Live(e, b.x) \/ (Refused(e, b.x) /\ (s = "initial" => b.x.tls < Keyed(e)))
<1> DEFINE y == ProcessPacket(e, a.x, s, d[s])
           b == [x |-> y, read |-> a.read \/ Readable(a.x, s)]
<1>1. RecvPacket(e, a, d, s) = IF s \notin DOMAIN d THEN a ELSE b
  BY Zenon DEF RecvPacket
<1>2. ASSUME s \in DOMAIN d
      PROVE  /\ PlainAcc(e, w, b, o)
             /\ Live(e, b.x) \/ (Refused(e, b.x) /\ (s = "initial" => b.x.tls < Keyed(e)))
  <2>1. Shape(a.x) /\ Bound(e, a.x, o) /\ a.x.tls \in Nat
    BY TlsNat DEF PlainAcc
  <2>2. \/ GoesOn(e, a.x, y, o) /\ Live(e, y)
        \/ Halts(e, a.x, y, o) /\ (s = "initial" => y.tls < Keyed(e))
    BY <1>2, <2>1, PlainPacket DEF PlainAcc
  <2>3. ~Readable(a.x, s) => y = a.x
    BY Zenon DEF ProcessPacket
  <2> HIDE DEF y
  <2>4. b.x = y /\ (b.read <=> a.read \/ Readable(a.x, s))
    OBVIOUS
  <2> HIDE DEF b
  <2>5. Shape(y) /\ y.outbox = a.x.outbox /\ Bound(e, y, o)
        /\ y.tls >= a.x.tls /\ (a.x.confirmed => y.confirmed) /\ y.tls \in Nat
    BY <2>2, TlsNat DEF GoesOn, Halts
  <2>6. y.torn \/ Ahead(w, y)
    <3>1. CASE GoesOn(e, a.x, y, o)
      BY <3>1, AheadTrans DEF GoesOn, PlainAcc, Live, Going
    <3>2. CASE Halts(e, a.x, y, o)
      BY <3>2 DEF Halts, Refused
    <3> QED
      BY <2>2, <3>1, <3>2
  <2>7. PlainAcc(e, w, b, o)
    <3>1. ~Limited(e, y)
      BY <2>2 DEF GoesOn, Halts, Refused, PlainAcc, Limited
    <3> QED
      BY <2>1, <2>3, <2>4, <2>5, <2>6, <3>1 DEF PlainAcc
  <2> QED
    BY <2>2, <2>4, <2>7 DEF Halts
<1> QED
  BY <1>1, <1>2

(* After a refusal no later space can be read.                             *)
LEMMA RefusedRecv ==
  ASSUME NEW e \in Ends, NEW w, NEW a, NEW o, PlainAcc(e, w, a, o), Refused(e, a.x), NEW d,
         NEW s \in {"handshake", "app"}, s = "handshake" => a.x.tls < Keyed(e)
  PROVE  LET b == RecvPacket(e, a, d, s)
         IN  PlainAcc(e, w, b, o) /\ Refused(e, b.x)
<1> DEFINE b == [x |-> a.x, read |-> a.read \/ Readable(a.x, s)]
<1>1. ~Readable(a.x, s)
  <2>1. Keys(e, a.x) /\ ~Done(e, a.x) /\ a.x.tls \in Nat /\ Keyed(e) \in Nat
    BY TlsNat DEF PlainAcc, Refused, Bound, Keyed
  <2>2. CASE s = "handshake"
    BY <2>1, <2>2 DEF Readable, Keys
  <2>3. CASE s = "app"
    BY <2>1, <2>3 DEF Readable, Keys
  <2> QED
    BY <2>2, <2>3
<1>2. ProcessPacket(e, a.x, s, d[s]) = a.x
  BY <1>1, Zenon DEF ProcessPacket
<1>3. RecvPacket(e, a, d, s) = IF s \notin DOMAIN d THEN a ELSE b
  BY <1>2 DEF RecvPacket
<1>4. b.x = a.x /\ (b.read <=> a.read)
  BY <1>1
<1> HIDE DEF b
<1>5. PlainAcc(e, w, b, o) /\ Refused(e, b.x)
  BY <1>4 DEF PlainAcc
<1> QED
  BY <1>3, <1>5

(* The same for a datagram that is a close.                                *)
CloseAcc(e, w, a) ==
  /\ a.x = w \/ Peered(e, a.x)
  /\ Shape(a.x) /\ a.x.outbox = <<>> /\ a.x.tls = w.tls /\ a.x.confirmed = w.confirmed
  /\ ~a.read => a.x = w

LEMMA CloseRecv ==
  ASSUME NEW e \in Ends, NEW w, Going(e, w), NEW a, CloseAcc(e, w, a), NEW d, NEW s \in Spaces,
         s \in DOMAIN d => d[s].close
  PROVE  CloseAcc(e, w, RecvPacket(e, a, d, s))
<1> DEFINE y == ProcessPacket(e, a.x, s, d[s])
           b == [x |-> y, read |-> a.read \/ Readable(a.x, s)]
<1>1. RecvPacket(e, a, d, s) = IF s \notin DOMAIN d THEN a ELSE b
  BY Zenon DEF RecvPacket
<1>2. ASSUME s \in DOMAIN d PROVE CloseAcc(e, w, b)
  <2>1. Shape(a.x) /\ (Going(e, a.x) \/ Peered(e, a.x))
    BY DEF CloseAcc
  <2>2. /\ y = a.x \/ Peered(e, y)
        /\ Shape(y) /\ y.outbox = a.x.outbox /\ y.tls = a.x.tls /\ y.confirmed = a.x.confirmed
    BY <1>2, <2>1, ClosePacket
  <2>3. ~Readable(a.x, s) => y = a.x
    BY Zenon DEF ProcessPacket
  <2> HIDE DEF y
  <2>4. b.x = y /\ (b.read <=> a.read \/ Readable(a.x, s))
    OBVIOUS
  <2> HIDE DEF b
  <2> QED
    BY <2>2, <2>3, <2>4 DEF CloseAcc
<1> QED
  BY <1>1, <1>2

-----------------------------------------------------------------------------
(***************************************************************************)
(* What a step makes of a live connection x before it is put to rest.      *)
(***************************************************************************)
Outcome(e, x, y, o) ==
  /\ Shape(y) /\ IsSeq(y.outbox)
  /\ y.tls \in 0..(Keyed(e) + 1) /\ y.tls >= x.tls /\ (x.confirmed => y.confirmed)
  /\ \A d \in Range(y.outbox) : Genuine(e, y, d) /\ Answers(o, d)
  /\ Over(e, y) \/ (Live(e, y) /\ Bound(e, y, o) /\ Ahead(x, y))
  /\ Agreed(e, y, o)

LEMMA BoundAgreed ==
  ASSUME NEW e \in Ends, NEW x, NEW o, Bound(e, x, o), NEW y,
         y.tls = x.tls, y.confirmed = x.confirmed
  PROVE  Agreed(e, y, o)
BY DEF Bound, Knows, Agreed, Ends

LEMMA CarriesGenuine ==
  ASSUME NEW e \in Ends, NEW x, NEW o, Bound(e, x, o), NEW d, Carries(x, d), NEW y,
         y.tls = x.tls, y.confirmed = x.confirmed, Numbered(y, d)
  PROVE  Genuine(e, y, d) /\ Answers(o, d)
<1>1. x.tls \in 0..(Keyed(e) + 1)
  BY DEF Bound, Keys
<1>2. \A s, t \in DOMAIN d : d[s].close <=> d[t].close
  BY DEF Carries
<1>3. "handshake" \in DOMAIN d =>
        /\ x.tls >= Keyed(e)
        /\ e = "client" /\ d["handshake"].cr # {} => x.tls = 3
  BY DEF Carries, Bound, Keys
<1>4. e = "server" =>
        /\ "initial" \in DOMAIN d /\ d["initial"].cr # {} => x.tls >= 1
        /\ "app" \in DOMAIN d /\ d["app"].cr # {} => x.tls = 2 /\ x.confirmed
  BY DEF Carries, Bound, Keys
<1>5. Answers(o, d)
  BY DEF Carries, Bound, Heard, Answers
<1> QED
  BY <1>2, <1>3, <1>4, <1>5 DEF Genuine, Carries

(* Some space of a connection that is not torn down can be sent in.        *)
LEMMA HasKeys ==
  ASSUME NEW e \in Ends, NEW x, NEW o, Bound(e, x, o)
  PROVE  \E s \in Spaces : x.sp[s].tx /\ ~x.sp[s].gone
<1>1. CASE ~x.sp["initial"].gone
  BY <1>1 DEF Bound, Keys, Spaces
<1>2. CASE x.sp["initial"].gone /\ ~x.sp["handshake"].gone
  BY <1>2 DEF Bound, Keys, Spaces
<1>3. CASE x.sp["handshake"].gone
  BY <1>3 DEF Bound, Keys, Spaces
<1> QED
  BY <1>1, <1>2, <1>3

LEMMA FlushOutcome ==
  ASSUME NEW e \in Ends, NEW x, Shape(x), x.outbox = <<>>, NEW o, Bound(e, x, o), Live(e, x)
  PROVE  Outcome(e, x, Flush(e, x), o)
<1> DEFINE y == Flush(e, x)
<1>1. Flushed(x, y) /\ Bound(e, y, o)
  BY FlushKeeps
<1> HIDE DEF y
<1>2. \A d \in Range(y.outbox) : Genuine(e, y, d) /\ Answers(o, d)
  BY <1>1, CarriesGenuine DEF Flushed
<1>3. Live(e, y)
  BY <1>1 DEF Flushed, Live, Going, Done
<1>4. y.tls \in 0..(Keyed(e) + 1) /\ y.tls >= x.tls
  BY <1>1, TlsNat DEF Flushed, Bound, Keys
<1>5. Outcome(e, x, y, o)
  BY <1>1, <1>2, <1>3, <1>4, BoundAgreed DEF Outcome, Flushed
<1> QED
  BY <1>5 DEF y

(* A server that refuses says so: the flush that ends its receive finds a  *)
(* space with keys, and the datagram it has received has left it credit.   *)
LEMMA RefusedOutcome ==
  ASSUME NEW e \in Ends, NEW x, Shape(x), x.outbox = <<>>, NEW o, Bound(e, x, o), Refused(e, x)
  PROVE  Outcome(e, x, Flush(e, x), o)
<1> DEFINE y == Flush(e, x)
<1>1. Flushed(x, y) /\ Bound(e, y, o)
  BY FlushKeeps
<1>2. e = "server" => y.spoke
  BY FlushKeeps, HasKeys DEF Refused
<1> HIDE DEF y
<1>3. \A d \in Range(y.outbox) : Genuine(e, y, d) /\ Answers(o, d)
  BY <1>1, CarriesGenuine DEF Flushed
<1>4. Over(e, y)
  BY <1>1, <1>2 DEF Flushed, Refused, Over, Told, Said, Done
<1>5. y.tls \in 0..(Keyed(e) + 1) /\ y.tls >= x.tls
  BY <1>1, TlsNat DEF Flushed, Bound, Keys
<1>6. Outcome(e, x, y, o)
  BY <1>1, <1>3, <1>4, <1>5, BoundAgreed DEF Outcome, Flushed
<1> QED
  BY <1>6 DEF y

LEMMA RecvOutcome ==
  ASSUME NEW e \in Ends, NEW x, Shape(x), x.outbox = <<>>, NEW o, Bound(e, x, o), Live(e, x),
         NEW d, Genuine(Peer(e), o, d)
  PROVE  Outcome(e, x, ConnRecv(e, x, d), o)
<1> DEFINE w == [x EXCEPT !.credit = IF e = "server" /\ ~x.valid THEN @ + 3 ELSE @]
           z == [x |-> w, read |-> FALSE]
           i == RecvPacket(e, z, d, "initial")
           h == RecvPacket(e, i, d, "handshake")
           r == RecvPacket(e, h, d, "app")
           v == [r.x EXCEPT !.closePending = @ \/ r.x.st = "closing"]
           y == ConnRecv(e, x, d)
<1>1. y = IF ~r.read THEN r.x ELSE Flush(e, v)
  BY Zenon DEF ConnRecv
<1>2. /\ Only(x, w, {"credit"})
      /\ w.credit = IF e = "server" /\ ~x.valid THEN x.credit + 3 ELSE x.credit
  BY DEF Only, Shape, ConnFields
<1>3. z.x = w /\ ~z.read
  OBVIOUS
<1> HIDE DEF w, z
<1>4. /\ w.sp = x.sp /\ w.tls = x.tls /\ w.confirmed = x.confirmed /\ w.soon = x.soon
      /\ w.sawHs = x.sawHs /\ w.st = x.st /\ w.torn = x.torn /\ w.appClosing = x.appClosing
      /\ w.why = x.why /\ w.told = x.told /\ w.outbox = x.outbox /\ w.valid = x.valid
  BY <1>2 DEF Only, ConnFields
<1>5. Shape(w) /\ Bound(e, w, o) /\ Live(e, w) /\ w.tls \in Nat /\ ~Limited(e, w)
  <2>1. w.credit \in Nat /\ ~Limited(e, w)
    BY <1>2, <1>4 DEF Live, Limited
  <2> QED
    BY <1>2, <1>4, <2>1, BoundSame, TlsNat DEF Only, Live, Going, Done
<1>6. \A s \in DOMAIN d : Trusted(e, o, s, d[s])
  BY DEF Genuine, Numbered, Trusted, Peer, Keyed, Ends
<1>7. {"initial", "handshake", "app"} = Spaces
  BY DEF Spaces
<1>8. ASSUME Shape(r.x)
      PROVE  Only(r.x, v, {"closePending"}) /\ (r.x.st = "closing" => v.closePending)
  <2> HIDE DEF r
  <2> QED
    BY <1>8 DEF Only, Shape, ConnFields
<1> HIDE DEF v
<1>9. ASSUME \A s \in DOMAIN d : ~d[s].close PROVE Outcome(e, x, y, o)
  <2>1. PlainAcc(e, w, z, o) /\ Live(e, z.x)
    BY <1>3, <1>4, <1>5 DEF PlainAcc, Ahead
  <2>2. /\ PlainAcc(e, w, i, o)
        /\ Live(e, i.x) \/ (Refused(e, i.x) /\ i.x.tls < Keyed(e))
    BY <1>5, <1>6, <1>7, <1>9, <2>1, PlainRecv
  <2> HIDE DEF i
  <2>3. PlainAcc(e, w, h, o) /\ (Live(e, h.x) \/ Refused(e, h.x))
    BY <1>5, <1>6, <1>7, <1>9, <2>2, PlainRecv, RefusedRecv
  <2> HIDE DEF h
  <2>4. PlainAcc(e, w, r, o) /\ (Live(e, r.x) \/ Refused(e, r.x))
    BY <1>5, <1>6, <1>7, <1>9, <2>3, PlainRecv, RefusedRecv
  <2> HIDE DEF r
  <2>5. Shape(r.x) /\ r.x.tls \in Nat
    BY <2>4, TlsNat DEF PlainAcc
  <2>6. CASE ~r.read
    <3>1. y = w
      BY <1>1, <2>4, <2>6 DEF PlainAcc
    <3> HIDE DEF y
    <3> QED
      BY <1>4, <1>5, <3>1, NoSeq, BoundAgreed DEF Outcome, Bound, Keys, Ahead
  <2>7. CASE r.read
    <3>1. Only(r.x, v, {"closePending"}) /\ (r.x.st = "closing" => v.closePending)
      BY <1>8, <2>5
    <3>2. /\ v.sp = r.x.sp /\ v.tls = r.x.tls /\ v.confirmed = r.x.confirmed
          /\ v.soon = r.x.soon /\ v.sawHs = r.x.sawHs /\ v.st = r.x.st /\ v.torn = r.x.torn
          /\ v.appClosing = r.x.appClosing /\ v.why = r.x.why /\ v.told = r.x.told
          /\ v.outbox = r.x.outbox /\ v.valid = r.x.valid /\ v.credit = r.x.credit
      BY <3>1 DEF Only, ConnFields
    <3>3. Shape(v) /\ v.outbox = <<>> /\ Bound(e, v, o)
      BY <2>4, <3>1, <3>2, BoundSame DEF Only, PlainAcc
    <3>4. Live(e, v) \/ Refused(e, v)
      <4>1. CASE Live(e, r.x)
        BY <3>2, <4>1 DEF Live, Going, Done
      <4>2. CASE Refused(e, r.x)
        BY <3>1, <3>2, <4>2 DEF Refused, Done, Told, Limited
      <4> QED
        BY <2>4, <4>1, <4>2
    <3>5. Outcome(e, v, Flush(e, v), o)
      BY <3>3, <3>4, FlushOutcome, RefusedOutcome
    <3>6. y = Flush(e, v)
      BY <1>1, <2>7
    <3> HIDE DEF y
    <3>7. v.tls >= x.tls /\ v.tls \in Nat /\ x.tls \in Nat /\ (x.confirmed => v.confirmed)
      BY <1>4, <1>5, <2>4, <2>5, <3>2 DEF PlainAcc
    <3>8. v.torn \/ Ahead(x, v)
      BY <1>4, <2>4, <3>2 DEF PlainAcc, Ahead
    <3>9. ASSUME Live(e, y) /\ Bound(e, y, o) /\ Ahead(v, y) /\ ~v.torn PROVE Ahead(x, y)
      BY <3>8, <3>9, AheadTrans
    <3>10. v.torn => Over(e, y)
      <4>1. v.torn => Refused(e, v)
        BY <3>4 DEF Live, Going
      <4>2. v.torn => y.torn
        BY <3>3, <3>6, FlushKeeps DEF Flushed
      <4> QED
        BY <3>5, <3>6, <4>2 DEF Outcome, Live, Going
    <3> QED
      BY <3>5, <3>6, <3>7, <3>9, <3>10 DEF Outcome
  <2> QED
    BY <2>6, <2>7
<1>10. ASSUME \A s \in DOMAIN d : d[s].close PROVE Outcome(e, x, y, o)
  <2>1. CloseAcc(e, w, z) /\ Going(e, w)
    BY <1>3, <1>4, <1>5 DEF CloseAcc, Live
  <2>2. CloseAcc(e, w, i)
    BY <1>7, <1>10, <2>1, CloseRecv
  <2> HIDE DEF i
  <2>3. CloseAcc(e, w, h)
    BY <1>7, <1>10, <2>1, <2>2, CloseRecv
  <2> HIDE DEF h
  <2>4. CloseAcc(e, w, r)
    BY <1>7, <1>10, <2>1, <2>3, CloseRecv
  <2> HIDE DEF r
  <2>5. CASE ~r.read
    <3>1. y = w
      BY <1>1, <2>4, <2>5 DEF CloseAcc
    <3> HIDE DEF y
    <3> QED
      BY <1>4, <1>5, <3>1, NoSeq, BoundAgreed DEF Outcome, Bound, Keys, Ahead
  <2>6. CASE r.read
    <3>1. Only(r.x, v, {"closePending"})
      BY <1>8, <2>4 DEF CloseAcc
    <3>2. /\ v.sp = r.x.sp /\ v.tls = r.x.tls /\ v.confirmed = r.x.confirmed
          /\ v.soon = r.x.soon /\ v.sawHs = r.x.sawHs /\ v.st = r.x.st /\ v.torn = r.x.torn
          /\ v.appClosing = r.x.appClosing /\ v.why = r.x.why /\ v.told = r.x.told
          /\ v.outbox = r.x.outbox /\ v.credit = r.x.credit
      BY <3>1 DEF Only, ConnFields
    <3>3. Shape(v) /\ v.outbox = <<>> /\ v.tls = w.tls /\ v.confirmed = w.confirmed
      BY <2>4, <3>1, <3>2 DEF Only, CloseAcc
    <3>4. y = Flush(e, v)
      BY <1>1, <2>6
    <3> HIDE DEF y
    <3>5. CASE r.x = w
      <4>1. Bound(e, v, o)
        BY <1>5, <3>2, <3>5, BoundSame
      <4>2. Live(e, v)
        BY <1>5, <3>2, <3>5 DEF Live, Going, Done
      <4>3. Outcome(e, v, Flush(e, v), o)
        BY <3>3, <4>1, <4>2, FlushOutcome
      <4>4. ASSUME Ahead(v, y) PROVE Ahead(x, y)
        BY <1>4, <3>2, <3>5, <4>4 DEF Ahead
      <4> QED
        BY <1>4, <3>3, <3>4, <4>3, <4>4 DEF Outcome
    <3>6. CASE Peered(e, r.x)
      <4>1. Peered(e, v)
        BY <3>2, <3>6 DEF Peered, Told, Done
      <4>2. y = v
        BY <3>4, <4>1, Zenon DEF Flush, Peered
      <4>3. Over(e, v)
        BY <4>1 DEF Peered, Over, Said
      <4>4. v.tls \in 0..(Keyed(e) + 1) /\ v.tls >= x.tls
        BY <1>4, <1>5, <3>3 DEF Bound, Keys
      <4> QED
        BY <1>4, <1>5, <3>3, <4>2, <4>3, <4>4, NoSeq, BoundAgreed DEF Outcome
    <3> QED
      BY <2>4, <3>5, <3>6 DEF CloseAcc
  <2> QED
    BY <2>5, <2>6
<1>11. (\A s \in DOMAIN d : ~d[s].close) \/ (\A s \in DOMAIN d : d[s].close)
  BY DEF Genuine
<1> QED
  BY <1>9, <1>10, <1>11

(* The client's first step: the ClientHello is written and sent.           *)
LEMMA StartOutcome ==
  ASSUME NEW x, Shape(x), x.outbox = <<>>, NEW o, Bound("client", x, o), Live("client", x),
         x.st = "new", NEW w, w = [x EXCEPT !.st = "handshake", !.tls = 1]
  PROVE  Outcome("client", x, Flush("client", Write(w, "initial", {1})), o)
<1> DEFINE u == Write(w, "initial", {1})
<1>1. Only(x, w, {"st", "tls"}) /\ w.st = "handshake" /\ w.tls = 1
  BY DEF Only, Shape, ConnFields
<1>2. x.tls = 0
  BY DEF Live
<1>3. But(w, u, {}, "initial", {"out"})
  BY <1>1, Written DEF Only, Spaces
<1> HIDE DEF u
<1>4. /\ u.confirmed = x.confirmed /\ u.soon = x.soon /\ u.sawHs = x.sawHs /\ u.torn = x.torn
      /\ u.appClosing = x.appClosing /\ u.why = x.why /\ u.told = x.told /\ u.outbox = x.outbox
      /\ u.st = "handshake" /\ u.tls = 1 /\ w.sp = x.sp /\ u.credit = x.credit
  <2>1. /\ w.confirmed = x.confirmed /\ w.soon = x.soon /\ w.sawHs = x.sawHs /\ w.torn = x.torn
        /\ w.appClosing = x.appClosing /\ w.why = x.why /\ w.told = x.told
        /\ w.outbox = x.outbox /\ w.sp = x.sp /\ w.credit = x.credit
    BY <1>1 DEF Only, ConnFields
  <2>2. /\ u.confirmed = w.confirmed /\ u.soon = w.soon /\ u.sawHs = w.sawHs /\ u.torn = w.torn
        /\ u.appClosing = w.appClosing /\ u.why = w.why /\ u.told = w.told
        /\ u.outbox = w.outbox /\ u.st = w.st /\ u.tls = w.tls /\ u.credit = w.credit
    BY <1>3 DEF But, ConnFields
  <2> QED
    BY <1>1, <2>1, <2>2
<1>5. /\ u.sp["handshake"] = x.sp["handshake"] /\ u.sp["app"] = x.sp["app"]
      /\ u.sp["initial"].gone = x.sp["initial"].gone /\ u.sp["initial"].tx = x.sp["initial"].tx
      /\ u.sp["initial"].in = x.sp["initial"].in
  BY <1>3, <1>4 DEF But, Spaces, SpaceFields
<1>6. Keys("client", u)
  BY <1>2, <1>4, <1>5 DEF Bound, Keys, Done, Keyed
<1>7. Knows("client", u, o)
  BY <1>2, <1>4, <1>5 DEF Bound, Knows
<1>8. Live("client", u)
  BY <1>2, <1>4 DEF Live, Going, Done
<1>9. Heard(u, o) /\ Ahead(x, u)
  <2>1. Still(w, u)
    BY <1>3, ButStill
  <2>2. Still(x, u)
    BY <1>4, <2>1 DEF Still
  <2> QED
    BY <2>2, StillHeard DEF Bound
<1>10. Outcome("client", u, Flush("client", u), o)
  BY <1>3, <1>4, <1>6, <1>7, <1>8, <1>9, FlushOutcome DEF But, Bound, Ends
<1>11. Outcome("client", x, Flush("client", u), o)
  BY <1>2, <1>4, <1>9, <1>10, AheadTrans DEF Outcome, Keyed
<1> QED
  BY <1>11 DEF u

(* A timer changes what is owed and what is watched, and flushes.          *)
LEMMA TimerOutcome ==
  ASSUME NEW e \in Ends, NEW x, NEW o, Bound(e, x, o), Live(e, x), x.outbox = <<>>,
         NEW w, Same(x, w)
  PROVE  Outcome(e, x, Flush(e, w), o)
<1>1. Bound(e, w, o) /\ Shape(w) /\ w.outbox = <<>>
  BY SameBound DEF Same
<1>2. Live(e, w)
  BY DEF Same, Live, Going, Done
<1>3. Outcome(e, w, Flush(e, w), o)
  BY <1>1, <1>2, FlushOutcome
<1>4. Ahead(x, w)
  BY SpacesAhead DEF Same
<1> QED
  BY <1>3, <1>4, AheadTrans DEF Outcome, Same

LEMMA ProbesSame ==
  ASSUME NEW x, Shape(x), NEW s \in Spaces
  PROVE  Same(x, [x EXCEPT !.sp[s].probes = 2, !.pto = @ + 1])
<1> DEFINE q == [x.sp[s] EXCEPT !.probes = 2]
           y == [x EXCEPT !.sp[s] = q]
           z == [y EXCEPT !.pto = @ + 1]
<1>1. SpaceSame(x.sp[s], q)
  BY DEF Shape, SpaceSame, SpaceShape, SpaceFields, Used, Blank
<1>2. [x EXCEPT !.sp[s].probes = 2, !.pto = @ + 1] = z
  BY DEF Shape, ConnFields
<1> HIDE DEF q
<1>3. Same(x, y)
  BY <1>1, SameSpace
<1> HIDE DEF y
<1>4. Same(y, z)
  BY <1>3 DEF Same, Shape, ConnFields, SpaceSame
<1> HIDE DEF z
<1> QED
  BY <1>2, <1>3, <1>4, SameTrans

(* A connection that has been idle too long ends without a word.           *)
LEMMA IdleOutcome ==
  ASSUME NEW e \in Ends, NEW x, Shape(x), x.outbox = <<>>, NEW o, Bound(e, x, o), Live(e, x)
  PROVE  Outcome(e, x, SilentClose(e, x), o)
<1> DEFINE w == [x EXCEPT !.st = "closed"]
           y == NotifyClosed(e, w, "idle")
<1>1. SilentClose(e, x) = y
  BY Zenon DEF SilentClose, Live, Going
<1>2. Only(x, w, {"st"}) /\ w.st = "closed"
  BY DEF Only, Shape, ConnFields
<1> HIDE DEF w
<1>3. /\ w.torn = x.torn /\ w.appClosing = x.appClosing /\ w.told = x.told /\ w.tls = x.tls
      /\ w.confirmed = x.confirmed /\ w.outbox = x.outbox
  BY <1>2 DEF Only, ConnFields
<1>4. w.told = IF Done(e, w) THEN <<Greeting(e)>> ELSE <<>>
  BY <1>3 DEF Live, Going, Done
<1>5. Only(w, y, {"why", "told", "torn"}) /\ y.why = "idle" /\ y.torn /\ Told(e, y)
  BY <1>2, <1>3, <1>4, NotifiedClosed DEF Only, Live, Going
<1> HIDE DEF y
<1>6. y.st = "closed" /\ y.tls = x.tls /\ y.confirmed = x.confirmed /\ y.outbox = <<>>
  BY <1>2, <1>3, <1>5 DEF Only, ConnFields
<1>7. Over(e, y)
  BY <1>5, <1>6 DEF Over, Said
<1>8. y.tls \in 0..(Keyed(e) + 1) /\ y.tls >= x.tls
  BY <1>6, TlsNat DEF Bound, Keys
<1>9. Outcome(e, x, y, o)
  BY <1>5, <1>6, <1>7, <1>8, NoSeq, BoundAgreed DEF Outcome, Only
<1> QED
  BY <1>1, <1>9

(* An application's close: the frame is sent, then the socket is gone.     *)
LEMMA CloseOutcome ==
  ASSUME NEW e \in Ends, NEW x, Shape(x), x.outbox = <<>>, NEW o, Bound(e, x, o), Live(e, x),
         NEW c, c = [x EXCEPT !.appClosing = TRUE]
  PROVE  Outcome(e, x, Teardown(Flush(e, ConnClose(e, c, "app"))), o)
<1> DEFINE w == [c EXCEPT !.st = "closing", !.closePending = TRUE]
           y == [w EXCEPT !.why = "app",
                   !.told = IF e = "client" /\ ~Done(e, w) THEN Append(@, "refused") ELSE @]
           f == Flush(e, y)
           z == [f EXCEPT !.torn = TRUE, !.told = Append(@, "closed")]
<1>1. Only(x, c, {"appClosing"}) /\ c.appClosing
  BY DEF Only, Shape, ConnFields
<1>2. c.st = x.st /\ x.st \notin {"closing", "draining", "closed"}
  BY <1>1 DEF Only, ConnFields, Live, Going
<1>3. /\ Only(c, w, {"st", "closePending"})
      /\ w.st = "closing" /\ w.closePending
  BY <1>1 DEF Only, Shape, ConnFields
<1>4. w.appClosing
  BY <1>1, <1>3 DEF Only, ConnFields
<1>5. ConnClose(e, c, "app") = y
  BY <1>2, <1>4, Zenon DEF ConnClose, NotifyClosed
<1> HIDE DEF w
<1>6. /\ Only(w, y, {"why", "told"}) /\ y.why = "app"
      /\ y.told = IF e = "client" /\ ~Done(e, w) THEN Append(w.told, "refused") ELSE w.told
  BY <1>3 DEF Only, Shape, ConnFields
<1> HIDE DEF y
<1>7. /\ y.sp = x.sp /\ y.tls = x.tls /\ y.confirmed = x.confirmed /\ y.soon = x.soon
      /\ y.sawHs = x.sawHs /\ y.torn = x.torn /\ y.outbox = x.outbox
      /\ y.st = "closing" /\ y.closePending /\ w.told = x.told /\ w.tls = x.tls
      /\ y.credit = x.credit
  BY <1>1, <1>3, <1>6 DEF Only, ConnFields
<1>8. Shape(y) /\ y.outbox = <<>> /\ ~y.torn
  BY <1>6, <1>7 DEF Only, Live, Going
<1>9. Bound(e, y, o)
  BY <1>7, BoundSame
<1>10. Flushed(y, f) /\ (~Limited(e, y) => f.spoke)
  BY <1>7, <1>8, <1>9, FlushKeeps, HasKeys
<1> HIDE DEF f
<1>11. Teardown(f) = z
  BY <1>8, <1>10, Zenon DEF Teardown, Flushed
<1>12. Only(f, z, {"torn", "told"}) /\ z.torn /\ z.told = Append(f.told, "closed")
  BY <1>10 DEF Flushed, Only, Shape, ConnFields
<1> HIDE DEF z
<1>13. /\ z.st = "closing" /\ z.why = "app" /\ z.tls = x.tls /\ z.confirmed = x.confirmed
       /\ z.valid = y.valid /\ z.spoke = f.spoke /\ z.outbox = f.outbox
       /\ z.credit = f.credit
  BY <1>6, <1>7, <1>10, <1>12 DEF Only, ConnFields, Flushed
<1>14. Told(e, z)
  <2>1. /\ z.told = Append(y.told, "closed")
        /\ x.told = IF Done(e, x) THEN <<Greeting(e)>> ELSE <<>>
        /\ Done(e, w) <=> Done(e, x)
        /\ Done(e, z) <=> Done(e, x)
    BY <1>7, <1>10, <1>12, <1>13 DEF Flushed, Live, Going, Done
  <2>2. z.told = Append(IF e = "client" /\ ~Done(e, x) THEN Append(x.told, "refused") ELSE x.told,
                        "closed")
    BY <1>6, <1>7, <2>1
  <2>3. CASE Done(e, x)
    <3>1. z.told = <<Greeting(e), "closed">>
      BY <2>1, <2>2, <2>3, Appends, Zenon
    <3> QED
      BY <2>1, <2>3, <3>1 DEF Told
  <2>4. CASE ~Done(e, x) /\ e = "client"
    <3>1. z.told = <<"refused", "closed">>
      BY <2>1, <2>2, <2>4, Appends, Zenon
    <3> QED
      BY <2>1, <2>4, <3>1 DEF Told
  <2>5. CASE ~Done(e, x) /\ e = "server"
    <3>1. z.told = <<"closed">>
      BY <2>1, <2>2, <2>5, Appends
    <3> QED
      BY <2>1, <2>5, <3>1 DEF Told
  <2> QED
    BY <2>3, <2>4, <2>5 DEF Ends
<1>15. Said(e, z)
  <2>1. y.credit = 0 => z.credit = 0
    BY <1>7, <1>10, <1>13 DEF Flushed, Live
  <2> QED
    BY <1>10, <1>13, <2>1 DEF Said, Limited
<1>16. Over(e, z)
  BY <1>12, <1>13, <1>14, <1>15 DEF Over
<1>17. \A d \in Range(z.outbox) : Genuine(e, z, d) /\ Answers(o, d)
  <2>1. z.sp = f.sp
    BY <1>12 DEF Only, ConnFields
  <2>2. \A d \in Range(z.outbox) : Carries(y, d) /\ Numbered(z, d)
    BY <1>10, <1>13, <2>1 DEF Flushed, Numbered
  <2> QED
    BY <1>7, <1>9, <1>13, <2>2, CarriesGenuine
<1>18. z.tls \in 0..(Keyed(e) + 1) /\ z.tls >= x.tls
  BY <1>13, TlsNat DEF Bound, Keys
<1>19. Outcome(e, x, z, o)
  BY <1>10, <1>12, <1>13, <1>16, <1>17, <1>18, BoundAgreed DEF Outcome, Flushed, Only
<1> QED
  BY <1>5, <1>11, <1>19 DEF f

-----------------------------------------------------------------------------
(***************************************************************************)
(* A step of one end, put to rest and sent, keeps the invariant.           *)
(***************************************************************************)
(* What a datagram tells of its sender stays true of it.                   *)
LEMMA GenuineLater ==
  ASSUME NEW f \in Ends, NEW c, NEW k, NEW d, Genuine(f, c, d), c.tls \in Nat,
         k.tls \in 0..(Keyed(f) + 1), k.tls >= c.tls, c.confirmed => k.confirmed, Ahead(c, k)
  PROVE  Genuine(f, k, d)
<1>1. c.tls = 3 /\ f = "client" => k.tls = 3
  BY DEF Keyed
<1>2. c.tls = 2 /\ f = "server" => k.tls = 2
  BY DEF Keyed, Ends
<1>3. c.tls >= Keyed(f) => k.tls >= Keyed(f)
  BY DEF Keyed
<1>4. c.tls >= 1 => k.tls >= 1
  BY DEF Keyed
<1>5. Numbered(k, d)
  BY NumberedLater DEF Genuine
<1> QED
  BY <1>1, <1>2, <1>3, <1>4, <1>5 DEF Genuine, Ends

LEMMA KnowsLater ==
  ASSUME NEW e \in Ends, NEW x, NEW c, NEW k, Knows(e, x, c), c.tls \in Nat,
         k.tls \in 0..(Keyed(Peer(e)) + 1), k.tls >= c.tls, c.confirmed => k.confirmed
  PROVE  Knows(e, x, k)
<1>1. CASE e = "client"
  <2>1. c.tls >= 1 => k.tls >= 1
    BY <1>1 DEF Keyed, Peer
  <2>2. c.tls = 2 => k.tls = 2
    BY <1>1 DEF Keyed, Peer
  <2> QED
    BY <1>1, <2>1, <2>2 DEF Knows
<1>2. CASE e = "server"
  <2>1. c.tls >= 2 => k.tls >= 2
    BY <1>2 DEF Keyed, Peer
  <2>2. c.tls = 3 => k.tls = 3
    BY <1>2 DEF Keyed, Peer
  <2> QED
    BY <1>2, <2>1, <2>2 DEF Knows
<1> QED
  BY <1>1, <1>2 DEF Ends

LEMMA AgreedLater ==
  ASSUME NEW e \in Ends, NEW x, NEW c, NEW k, Agreed(e, x, c), c.tls \in Nat,
         k.tls \in 0..(Keyed(Peer(e)) + 1), k.tls >= c.tls, c.confirmed => k.confirmed
  PROVE  Agreed(e, x, k)
<1>1. CASE e = "client"
  BY <1>1 DEF Agreed, Keyed, Peer
<1>2. CASE e = "server"
  BY <1>2 DEF Agreed, Keyed, Peer
<1> QED
  BY <1>1, <1>2 DEF Ends

(* What putting a connection to rest keeps.                                *)
LEMMA Rested ==
  ASSUME NEW x, Shape(x)
  PROVE  LET y == Rest(x)
         IN  /\ Shape(y) /\ y.outbox = <<>>
             /\ y.st = x.st /\ y.tls = x.tls /\ y.confirmed = x.confirmed /\ y.valid = x.valid
             /\ y.torn = x.torn /\ y.appClosing = x.appClosing /\ y.why = x.why
             /\ y.told = x.told /\ y.spoke = x.spoke /\ y.sawHs = x.sawHs
             /\ y.credit = x.credit
             /\ ~x.torn => y.sp = x.sp /\ y.soon = x.soon
             /\ x.torn => \A s \in Spaces : ~y.sp[s].armed /\ y.sp[s].gone
<1> DEFINE g == [NewSpace EXCEPT !.gone = TRUE]
           y == [x EXCEPT !.outbox = <<>>]
           z == [x EXCEPT !.outbox = <<>>, !.sp = [s \in Spaces |-> g],
                          !.closePending = FALSE, !.iLater = FALSE, !.soon = FALSE,
                          !.pto = 0]
<1>1. Rest(x) = IF ~x.torn THEN y ELSE z
  BY Zenon DEF Rest
<1>2. Only(x, y, {"outbox"}) /\ y.outbox = <<>>
  BY DEF Only, Shape, ConnFields
<1>3. SpaceShape(g) /\ ~g.armed /\ g.gone
  BY DEF NewSpace, SpaceShape, SpaceFields
<1> HIDE DEF g
<1>4. /\ DOMAIN z = ConnFields
      /\ \A f \in ConnFields \ {"outbox", "sp", "closePending", "iLater", "soon", "pto"} :
            z[f] = x[f]
      /\ z.outbox = <<>> /\ z.sp = [s \in Spaces |-> g]
  BY DEF Shape, ConnFields
<1> HIDE DEF y, z
<1>5. Shape(z) /\ \A s \in Spaces : ~z.sp[s].armed /\ z.sp[s].gone
  BY <1>3, <1>4 DEF Shape
<1>6. /\ y.st = x.st /\ y.tls = x.tls /\ y.confirmed = x.confirmed /\ y.valid = x.valid
      /\ y.torn = x.torn /\ y.appClosing = x.appClosing /\ y.why = x.why
      /\ y.told = x.told /\ y.spoke = x.spoke /\ y.sawHs = x.sawHs /\ y.sp = x.sp
      /\ y.soon = x.soon /\ y.credit = x.credit
  BY <1>2 DEF Only, ConnFields
<1>7. /\ z.st = x.st /\ z.tls = x.tls /\ z.confirmed = x.confirmed /\ z.valid = x.valid
      /\ z.torn = x.torn /\ z.appClosing = x.appClosing /\ z.why = x.why
      /\ z.told = x.told /\ z.spoke = x.spoke /\ z.sawHs = x.sawHs /\ z.credit = x.credit
  BY <1>4 DEF ConnFields
<1>8. CASE x.torn
  BY <1>1, <1>4, <1>5, <1>7, <1>8
<1>9. CASE ~x.torn
  BY <1>1, <1>2, <1>6, <1>9 DEF Only
<1> QED
  BY <1>8, <1>9

LEMMA BecomeInv ==
  ASSUME ConnInv, NEW e \in Ends, ~conn[e].torn, NEW y,
         Outcome(e, conn[e], y, conn[Peer(e)]),
         NEW N, DOMAIN N = Ends,
         \A f \in Ends : IsSeq(N[f]) /\ Range(N[f]) \subseteq Range(net[f]),
         Become(e, y, N)
  PROVE  ConnInv'
<1> DEFINE o == Peer(e)
           k == Rest(y)
           sent == [N EXCEPT ![o] = @ \o y.outbox]
<1>1. o \in Ends /\ o # e /\ Peer(o) = e /\ \A f \in Ends : f = e \/ f = o
  BY DEF Ends, Peer
<1>2. /\ Shape(k) /\ k.outbox = <<>>
      /\ k.st = y.st /\ k.tls = y.tls /\ k.confirmed = y.confirmed /\ k.valid = y.valid
      /\ k.torn = y.torn /\ k.appClosing = y.appClosing /\ k.why = y.why
      /\ k.told = y.told /\ k.spoke = y.spoke /\ k.sawHs = y.sawHs /\ k.credit = y.credit
      /\ ~y.torn => k.sp = y.sp /\ k.soon = y.soon
      /\ y.torn => \A s \in Spaces : ~k.sp[s].armed /\ k.sp[s].gone
  BY Rested DEF Outcome
<1>3. /\ conn' = [conn EXCEPT ![e] = k]
      /\ net' = [f \in Ends |-> IF conn'[f].torn THEN <<>> ELSE sent[f]]
  BY Zenon DEF Become
<1> HIDE DEF k
<1>4. DOMAIN conn' = Ends /\ conn'[e] = k /\ conn'[o] = conn[o]
  BY <1>1, <1>3 DEF ConnInv, ShapeInv
<1>5. sent[e] = N[e] /\ sent[o] = N[o] \o y.outbox
  BY <1>1
<1> HIDE DEF sent
<1>6. /\ DOMAIN net' = Ends
      /\ net'[e] = IF k.torn THEN <<>> ELSE N[e]
      /\ net'[o] = IF conn[o].torn THEN <<>> ELSE N[o] \o y.outbox
  BY <1>1, <1>3, <1>4, <1>5
<1>7. IsSeq(y.outbox) /\ \A d \in Range(y.outbox) : Genuine(e, y, d) /\ Answers(conn[o], d)
  BY DEF Outcome
<1>8. /\ IsSeq(N[o] \o y.outbox)
      /\ Range(N[o] \o y.outbox) \subseteq Range(net[o]) \union Range(y.outbox)
  BY <1>1, <1>7, ConcatSeq
<1> HIDE DEF o
<1>9. /\ conn[e].tls \in Nat /\ k.tls \in 0..(Keyed(e) + 1) /\ k.tls >= conn[e].tls
      /\ conn[e].confirmed => k.confirmed
      /\ Ahead(conn[e], k)
  <2>1. Ahead(conn[e], k)
    <3>1. CASE y.torn
      BY <1>2, <3>1 DEF Ahead
    <3>2. CASE ~y.torn
      BY <1>2, <3>2 DEF Ahead, Outcome, Over
    <3> QED
      BY <3>1, <3>2
  <2> QED
    BY <1>2, <2>1, TlsNat DEF ConnInv, LiveInv, Bound, Outcome, o
<1>10. ShapeInv'
  <2>1. IsSeq(net'[e]) /\ IsSeq(net'[o])
    BY <1>1, <1>6, <1>8, NoSeq
  <2>2. /\ Shape(conn'[e]) /\ conn'[e].outbox = <<>>
        /\ Shape(conn'[o]) /\ conn'[o].outbox = <<>>
    BY <1>1, <1>2, <1>4 DEF ConnInv, ShapeInv
  <2> QED
    BY <1>1, <1>4, <1>6, <2>1, <2>2 DEF ShapeInv
<1>11. NetInv'
  <2>1. ASSUME NEW d \in Range(net'[e]) PROVE Genuine(o, conn'[o], d) /\ Answers(conn'[e], d)
    <3>1. d \in Range(net[e])
      BY <1>6, <2>1, NoSeq
    <3>2. Genuine(o, conn[o], d) /\ Answers(conn[e], d)
      BY <3>1 DEF ConnInv, NetInv, o
    <3>3. Answers(k, d)
      BY <1>9, <3>2 DEF Answers, Ahead, Genuine
    <3> QED
      BY <1>4, <3>2, <3>3
  <2>2. ASSUME NEW d \in Range(net'[o]) PROVE Genuine(e, conn'[e], d) /\ Answers(conn'[o], d)
    <3>1. d \in Range(net[o]) \/ d \in Range(y.outbox)
      BY <1>6, <1>8, <2>2, NoSeq
    <3>2. CASE d \in Range(net[o])
      <4>1. Genuine(e, conn[e], d) /\ Answers(conn[o], d)
        BY <1>1, <3>2 DEF ConnInv, NetInv
      <4> QED
        BY <1>4, <1>9, <4>1, GenuineLater
    <3>3. CASE d \in Range(y.outbox)
      <4>1. Genuine(e, y, d) /\ Answers(conn[o], d)
        BY <1>7, <3>3
      <4>2. Numbered(k, d)
        BY <1>2, <4>1 DEF Numbered, Genuine
      <4> QED
        BY <1>2, <1>4, <4>1, <4>2 DEF Genuine
    <3> QED
      BY <3>1, <3>2, <3>3
  <2> QED
    BY <1>1, <2>1, <2>2 DEF NetInv, o
<1>12. OverInv'
  <2>1. ASSUME k.torn
        PROVE  Over(e, k) /\ net'[e] = <<>> /\ \A s \in Spaces : ~k.sp[s].armed
    <3>1. Over(e, y)
      BY <1>2, <2>1 DEF Outcome, Live, Going
    <3>2. Over(e, k)
      BY <1>2, <3>1 DEF Over, Told, Said, Done, Limited
    <3> QED
      BY <1>2, <1>6, <2>1, <3>2
  <2>2. ASSUME conn[o].torn
        PROVE  Over(o, conn[o]) /\ net'[o] = <<>> /\ \A s \in Spaces : ~conn[o].sp[s].armed
    BY <1>1, <1>6, <2>2 DEF ConnInv, OverInv
  <2> QED
    BY <1>1, <1>4, <2>1, <2>2 DEF OverInv
<1>13. LiveInv'
  <2>1. ASSUME ~k.torn
        PROVE  Live(e, k) /\ Keys(e, k) /\ Knows(e, k, conn[o]) /\ Heard(k, conn[o])
    <3>1. Live(e, y) /\ Bound(e, y, conn[o])
      BY <1>2, <2>1 DEF Outcome, Over, o
    <3>2. Live(e, k)
      BY <1>2, <3>1 DEF Live, Going, Done
    <3>3. Bound(e, k, conn[o])
      BY <1>2, <2>1, <3>1, BoundSame
    <3> QED
      BY <3>2, <3>3 DEF Bound
  <2>2. ASSUME ~conn[o].torn
        PROVE  Live(o, conn[o]) /\ Keys(o, conn[o]) /\ Knows(o, conn[o], k) /\ Heard(conn[o], k)
    <3>1. /\ Live(o, conn[o]) /\ Keys(o, conn[o]) /\ Knows(o, conn[o], conn[e])
          /\ Heard(conn[o], conn[e])
      BY <1>1, <2>2 DEF ConnInv, LiveInv
    <3>2. Heard(conn[o], k)
      BY <1>9, <3>1 DEF Heard, Ahead
    <3> QED
      BY <1>1, <1>9, <3>1, <3>2, KnowsLater
  <2>3. Peer(e) = o
    BY DEF o
  <2> QED
    BY <1>1, <1>4, <2>1, <2>2, <2>3 DEF LiveInv
<1>14. AgreeInv'
  <2>1. Agreed(e, k, conn[o])
    BY <1>2 DEF Outcome, Agreed, o
  <2>2. Agreed(o, conn[o], k) /\ conn[o].tls \in 0..(Keyed(o) + 1)
    <3>1. Agreed(o, conn[o], conn[e]) /\ conn[o].tls \in 0..(Keyed(o) + 1)
      BY <1>1 DEF ConnInv, AgreeInv
    <3> QED
      BY <1>1, <1>9, <3>1, AgreedLater
  <2>3. Peer(e) = o
    BY DEF o
  <2> QED
    BY <1>1, <1>4, <1>9, <2>1, <2>2, <2>3 DEF AgreeInv
<1> QED
  BY <1>10, <1>11, <1>12, <1>13, <1>14 DEF ConnInv

(* What the invariant says of an end that is there.                        *)
LEMMA LiveEnd ==
  ASSUME ConnInv, NEW e \in Ends, ~conn[e].torn
  PROVE  /\ Shape(conn[e]) /\ conn[e].outbox = <<>> /\ Live(e, conn[e])
         /\ Bound(e, conn[e], conn[Peer(e)])
BY DEF ConnInv, ShapeInv, LiveInv, Bound

LEMMA NetKept ==
  ASSUME ConnInv
  PROVE  DOMAIN net = Ends /\ \A f \in Ends : IsSeq(net[f]) /\ Range(net[f]) \subseteq Range(net[f])
BY DEF ConnInv, ShapeInv

LEMMA NetWithout ==
  ASSUME ConnInv, NEW e \in Ends, NEW i \in DOMAIN net[e]
  PROVE  LET N == Without(e, i)
         IN  DOMAIN N = Ends /\ \A f \in Ends : IsSeq(N[f]) /\ Range(N[f]) \subseteq Range(net[f])
<1> DEFINE N == Without(e, i)
<1>1. N = [net EXCEPT ![e] = RemoveAt(net[e], i)]
  BY DEF Without
<1>2. IsSeq(RemoveAt(net[e], i)) /\ Range(RemoveAt(net[e], i)) \subseteq Range(net[e])
  BY RemoveSeq DEF ConnInv, ShapeInv
<1>3. /\ DOMAIN N = Ends /\ N[e] = RemoveAt(net[e], i)
      /\ \A f \in Ends : f # e => N[f] = net[f]
  BY <1>1 DEF ConnInv, ShapeInv
<1> HIDE DEF N
<1>4. \A f \in Ends : IsSeq(N[f]) /\ Range(N[f]) \subseteq Range(net[f])
  BY <1>2, <1>3, NetKept
<1> QED
  BY <1>3, <1>4 DEF N

LEMMA InitInv ==
  ASSUME Init
  PROVE  ConnInv
<1> DEFINE I == [NewSpace EXCEPT !.tx = TRUE, !.rx = TRUE]
<1>1. SpaceShape(NewSpace) /\ SpaceShape(I)
  BY DEF NewSpace, SpaceShape, SpaceFields
<1>2. /\ ~NewSpace.tx /\ ~NewSpace.rx /\ ~NewSpace.gone /\ NewSpace.in = {} /\ Blank(NewSpace)
      /\ I.tx /\ ~I.gone /\ I.in = {} /\ Blank(I) /\ NewSpace.got = {} /\ I.got = {}
  BY DEF NewSpace, Blank
<1> HIDE DEF I
<1>3. ASSUME NEW e \in Ends
      PROVE  /\ Shape(conn[e]) /\ conn[e].outbox = <<>> /\ ~conn[e].torn /\ net[e] = <<>>
             /\ Live(e, conn[e]) /\ Keys(e, conn[e]) /\ Knows(e, conn[e], conn[Peer(e)])
             /\ Heard(conn[e], conn[Peer(e)]) /\ conn[e].tls = 0 /\ ~conn[e].confirmed
  <2> DEFINE x == conn[e]
  <2>1. x = NewConn(e) /\ net[e] = <<>>
    BY <1>3 DEF Init
  <2>2. /\ DOMAIN x = ConnFields
        /\ x.sp = [s \in Spaces |-> IF s = "initial" THEN I ELSE NewSpace]
        /\ x.st = "new" /\ x.tls = 0 /\ ~x.confirmed /\ ~x.sawHs /\ ~x.soon /\ ~x.torn
        /\ ~x.appClosing /\ x.why = "none" /\ x.told = <<>> /\ x.outbox = <<>>
        /\ x.credit = 0
    BY <2>1 DEF NewConn, ConnFields, I
  <2> HIDE DEF x
  <2>3. x.sp["initial"] = I /\ x.sp["handshake"] = NewSpace /\ x.sp["app"] = NewSpace
    BY <2>2 DEF Spaces
  <2>4. Shape(x)
    BY <1>1, <2>2 DEF Shape
  <2>5. Live(e, x)
    BY <2>2 DEF Live, Going, Done
  <2>6. Keys(e, x)
    BY <1>2, <2>2, <2>3, <1>3 DEF Keys, Keyed, Done, Ends
  <2>7. Knows(e, x, conn[Peer(e)])
    BY <1>2, <2>2, <2>3, <1>3 DEF Knows, Ends
  <2>8. Heard(x, conn[Peer(e)])
    BY <1>2, <2>2 DEF Heard
  <2> QED
    BY <2>1, <2>2, <2>4, <2>5, <2>6, <2>7, <2>8 DEF x
<1>4. DOMAIN conn = Ends /\ DOMAIN net = Ends
  BY DEF Init
<1>5. AgreeInv
  BY <1>3 DEF AgreeInv, Agreed, Keyed
<1> QED
  BY <1>3, <1>4, <1>5, NoSeq DEF ConnInv, ShapeInv, NetInv, OverInv, LiveInv

LEMMA StartInv ==
  ASSUME ConnInv, Start
  PROVE  ConnInv'
<1> DEFINE x == conn["client"]
           w == [x EXCEPT !.st = "handshake", !.tls = 1]
           y == Flush("client", Write(w, "initial", {1}))
<1>1. "client" \in Ends
  BY DEF Ends
<1>2. x.st = "new" /\ Become("client", y, net)
  BY Zenon DEF Start
<1>3. ~x.torn
  BY <1>1, <1>2 DEF ConnInv, OverInv, Over
<1>4. Outcome("client", x, y, conn[Peer("client")])
  <2>1. /\ Shape(x) /\ x.outbox = <<>> /\ Live("client", x)
        /\ Bound("client", x, conn[Peer("client")])
    BY <1>1, <1>3, LiveEnd
  <2> HIDE DEF x
  <2> QED
    BY <1>2, <2>1, StartOutcome
<1> HIDE DEF y
<1> QED
  BY <1>1, <1>2, <1>3, <1>4, NetKept, BecomeInv

LEMMA DeliverInv ==
  ASSUME ConnInv, NEW e \in Ends, NEW i \in DOMAIN net[e], NEW keep \in BOOLEAN,
         Deliver(e, i, keep)
  PROVE  ConnInv'
<1> DEFINE d == net[e][i]
           y == ConnRecv(e, conn[e], d)
           N == IF keep THEN net ELSE Without(e, i)
<1>1. Become(e, y, N)
  BY Zenon DEF Deliver
<1>2. d \in Range(net[e])
  BY DEF Range
<1>3. ~conn[e].torn
  BY DEF ConnInv, OverInv
<1>4. Genuine(Peer(e), conn[Peer(e)], d)
  BY <1>2 DEF ConnInv, NetInv
<1>5. Outcome(e, conn[e], y, conn[Peer(e)])
  <2> HIDE DEF d
  <2> QED
    BY <1>3, <1>4, LiveEnd, RecvOutcome
<1> HIDE DEF y
<1>6. DOMAIN N = Ends /\ \A f \in Ends : IsSeq(N[f]) /\ Range(N[f]) \subseteq Range(net[f])
  BY NetKept, NetWithout
<1> HIDE DEF N
<1> QED
  BY <1>1, <1>3, <1>5, <1>6, BecomeInv

LEMMA DropInv ==
  ASSUME ConnInv, NEW e \in Ends, NEW i \in DOMAIN net[e], Drop(e, i)
  PROVE  ConnInv'
<1> DEFINE N == Without(e, i)
<1>1. net' = N /\ conn' = conn
  BY DEF Drop
<1>2. DOMAIN N = Ends /\ \A f \in Ends : IsSeq(N[f]) /\ Range(N[f]) \subseteq Range(net[f])
  BY NetWithout
<1>3. ~conn[e].torn /\ \A f \in Ends : f # e => N[f] = net[f]
  BY DEF ConnInv, OverInv, ShapeInv, Without
<1> HIDE DEF N
<1>4. ShapeInv'
  BY <1>1, <1>2 DEF ConnInv, ShapeInv
<1>5. NetInv'
  BY <1>1, <1>2 DEF ConnInv, NetInv
<1>6. OverInv'
  BY <1>1, <1>3 DEF ConnInv, OverInv
<1>7. LiveInv'
  BY <1>1 DEF ConnInv, LiveInv
<1>8. AgreeInv'
  BY <1>1 DEF ConnInv, AgreeInv
<1> QED
  BY <1>4, <1>5, <1>6, <1>7, <1>8 DEF ConnInv

LEMMA LossTimerInv ==
  ASSUME ConnInv, NEW e \in Ends, NEW s \in Spaces, LossTimer(e, s)
  PROVE  ConnInv'
<1> DEFINE old == Overtaken(conn[e].sp[s])
           w == DetectLoss(conn[e], s, old)
           y == Flush(e, w)
<1>1. conn[e].sp[s].armed /\ Become(e, y, net)
  BY Zenon DEF LossTimer, LossDue
<1>2. ~conn[e].torn
  BY <1>1 DEF ConnInv, OverInv
<1>3. old \subseteq conn[e].sp[s].live
  BY DEF Overtaken
<1> HIDE DEF old
<1>4. Same(conn[e], w)
  BY <1>2, <1>3, LiveEnd, DetectLossSame
<1> HIDE DEF w
<1>5. Outcome(e, conn[e], y, conn[Peer(e)])
  BY <1>2, <1>4, LiveEnd, TimerOutcome
<1> HIDE DEF y
<1> QED
  BY <1>1, <1>2, <1>5, NetKept, BecomeInv

LEMMA PtoInv ==
  ASSUME ConnInv, NEW e \in Ends, NEW s \in Spaces, Pto(e, s)
  PROVE  ConnInv'
<1> DEFINE w == [conn[e] EXCEPT !.sp[s].probes = 2, !.pto = @ + 1]
           y == Flush(e, w)
<1>1. s \in ProbeDue(e) /\ Become(e, y, net)
  BY Zenon DEF Pto
<1>2. ~conn[e].torn
  BY <1>1 DEF ProbeDue, Open
<1>3. Same(conn[e], w)
  BY <1>2, LiveEnd, ProbesSame
<1> HIDE DEF w
<1>4. Outcome(e, conn[e], y, conn[Peer(e)])
  BY <1>2, <1>3, LiveEnd, TimerOutcome
<1> HIDE DEF y
<1> QED
  BY <1>1, <1>2, <1>4, NetKept, BecomeInv

LEMMA IdleInv ==
  ASSUME ConnInv, NEW e \in Ends, Idle(e)
  PROVE  ConnInv'
<1> DEFINE y == SilentClose(e, conn[e])
<1>1. ~conn[e].torn /\ Become(e, y, net)
  BY Zenon DEF Idle, IdleDue, Open
<1>2. Outcome(e, conn[e], y, conn[Peer(e)])
  BY <1>1, LiveEnd, IdleOutcome
<1> HIDE DEF y
<1> QED
  BY <1>1, <1>2, NetKept, BecomeInv

LEMMA AppCloseInv ==
  ASSUME ConnInv, NEW e \in Ends, AppClose(e)
  PROVE  ConnInv'
<1> DEFINE c == [conn[e] EXCEPT !.appClosing = TRUE]
           y == Teardown(Flush(e, ConnClose(e, c, "app")))
<1>1. ~conn[e].torn /\ Become(e, y, net)
  BY Zenon DEF AppClose, Open
<1>2. Outcome(e, conn[e], y, conn[Peer(e)])
  BY <1>1, LiveEnd, CloseOutcome
<1> HIDE DEF y
<1> QED
  BY <1>1, <1>2, NetKept, BecomeInv

LEMMA NextInv ==
  ASSUME ConnInv, [Next]_vars
  PROVE  ConnInv'
<1>1. CASE UNCHANGED vars
  BY <1>1 DEF vars, ConnInv, ShapeInv, NetInv, OverInv, LiveInv, AgreeInv
<1>2. CASE Next
  BY <1>2, StartInv, DropInv, DeliverInv, IdleInv, AppCloseInv, LossTimerInv, PtoInv DEF Next
<1> QED
  BY <1>1, <1>2

(* ConnInv is an invariant: at every moment either end's keys, its spaces  *)
(* and whatever it sent that is still on its way fit what the two TLS      *)
(* engines have seen of each other.                                        *)
THEOREM ConnInvHolds == Spec => []ConnInv
<1>1. Init => ConnInv
  BY InitInv
<1>2. ConnInv /\ [Next]_vars => ConnInv'
  BY NextInv
<1> QED
  BY <1>1, <1>2, PTL DEF Spec

-----------------------------------------------------------------------------
(***************************************************************************)
(* What the invariant says of the runs' properties.                        *)
(***************************************************************************)
(* However datagrams are lost, repeated and overtaken, a space is thrown   *)
(* away (spaceDiscard) only when the other end's TLS engine has read what  *)
(* was sent in it.                                                         *)
THEOREM DiscardIsSafeHolds == Spec => []DiscardIsSafe
<1>1. ConnInv => DiscardIsSafe
  <2> SUFFICES ASSUME ConnInv PROVE DiscardIsSafe
    OBVIOUS
  <2> DEFINE c == conn["client"]
             v == conn["server"]
  <2>1. ~c.torn => Keys("client", c) /\ Knows("client", c, v)
    BY DEF ConnInv, LiveInv, Ends, Peer
  <2>2. ~v.torn => Keys("server", v) /\ Knows("server", v, c)
    BY DEF ConnInv, LiveInv, Ends, Peer
  <2> HIDE DEF c, v
  <2>3. ~c.torn /\ c.sp["initial"].gone => v.tls >= 1
    BY <2>1 DEF Keys, Knows, Keyed
  <2>4. ~v.torn /\ v.sp["initial"].gone => c.tls >= 2
    BY <2>2 DEF Keys, Knows, Keyed
  <2>5. ~v.torn /\ v.sp["handshake"].gone => c.tls = 3
    BY <2>2 DEF Keys, Knows, Keyed, Done
  <2>6. ~c.torn /\ c.sp["handshake"].gone => v.tls = 2 /\ v.confirmed
    BY <2>1 DEF Keys, Knows, Keyed, Done
  <2> QED
    BY <2>3, <2>4, <2>5, <2>6 DEF DiscardIsSafe, c, v
<1> QED
  BY <1>1, ConnInvHolds, PTL

(* An application's close at either end, unless it is that of a server     *)
(* with no anti-amplification credit left, and a server's refusal of its   *)
(* client, at whatever message, hand a CONNECTION_CLOSE to the network     *)
(* before the socket is gone (netquicClose, onConnClosed, _quicConnRecv).  *)
(* A client's own error is not among them: ErrorIsSent does not hold.      *)
THEOREM CloseIsSentHolds == Spec => []CloseIsSent
<1>1. ConnInv => CloseIsSent
  BY DEF ConnInv, OverInv, Over, Said, CloseIsSent
<1> QED
  BY <1>1, ConnInvHolds, PTL

(* How often what is in S occurs in t.                                     *)
Count(t, S) == Cardinality({i \in DOMAIN t : t[i] \in S})

LEMMA CountOne ==
  ASSUME NEW a, NEW S
  PROVE  Count(<<a>>, S) = IF a \in S THEN 1 ELSE 0
<1>1. {i \in DOMAIN <<a>> : <<a>>[i] \in S} = IF a \in S THEN {1} ELSE {}
  OBVIOUS
<1> QED
  BY <1>1, FS_EmptySet, FS_Singleton DEF Count

LEMMA CountTwo ==
  ASSUME NEW a, NEW b, NEW S, a \notin S \/ b \notin S
  PROVE  Count(<<a, b>>, S) = IF a \in S \/ b \in S THEN 1 ELSE 0
<1>1. {i \in DOMAIN <<a, b>> : <<a, b>>[i] \in S}
        = IF a \in S THEN {1} ELSE IF b \in S THEN {2} ELSE {}
  OBVIOUS
<1> QED
  BY <1>1, FS_EmptySet, FS_Singleton DEF Count

LEMMA CountNone ==
  ASSUME NEW S
  PROVE  Count(<<>>, S) = 0
<1>1. {i \in DOMAIN <<>> : <<>>[i] \in S} = {}
  OBVIOUS
<1> QED
  BY <1>1, FS_EmptySet DEF Count

(* What the two states of an end say of the sequence it has told.          *)
LEMMA ToldOnce ==
  ASSUME ConnInv, NEW e \in Ends
  PROVE  LET t == conn[e].told
         IN  /\ Count(t, {"connected", "refused", "accepted"}) <= 1 /\ Count(t, {"closed"}) <= 1
             /\ \A i \in DOMAIN t : t[i] = "closed" => i = Len(t)
             /\ conn[e].torn => "closed" \in Range(t)
             /\ e = "client" /\ conn[e].torn => Count(t, {"connected", "refused"}) = 1
<1> DEFINE t == conn[e].told
           V == {"connected", "refused", "accepted"}
           W == {"connected", "refused"}
           g == Greeting(e)
<1>1. g \in V /\ g # "closed" /\ (e = "client" => g \in W)
  BY DEF Greeting
<1>2. \/ ~conn[e].torn /\ (t = <<>> \/ t = <<g>>)
      \/ conn[e].torn /\ \/ t = <<g, "closed">>
                         \/ e = "client" /\ t = <<"refused", "closed">>
                         \/ e = "server" /\ t = <<"closed">>
  <2> HIDE DEF g
  <2>1. CASE conn[e].torn
    <3>1. Told(e, conn[e])
      BY <2>1 DEF ConnInv, OverInv, Over
    <3> QED
      BY <2>1, <3>1 DEF Told, Ends, g
  <2>2. CASE ~conn[e].torn
    BY <2>2 DEF ConnInv, LiveInv, Live, Going, g
  <2> QED
    BY <2>1, <2>2
<1> HIDE DEF t, g
<1>3. CASE ~conn[e].torn /\ t = <<>>
  <2>1. Count(t, V) = 0 /\ Count(t, {"closed"}) = 0
    BY <1>3, CountNone
  <2> QED
    BY <1>3, <2>1 DEF t
<1>4. CASE ~conn[e].torn /\ t = <<g>>
  <2>1. Count(t, V) = 1 /\ Count(t, {"closed"}) = 0
    BY <1>1, <1>4, CountOne
  <2>2. \A i \in DOMAIN t : t[i] = "closed" => i = Len(t)
    BY <1>1, <1>4
  <2> QED
    BY <1>4, <2>1, <2>2 DEF t
<1>5. ASSUME NEW a, a \in V, a # "closed", e = "client" => a \in W, t = <<a, "closed">>
      PROVE  /\ Count(t, V) <= 1 /\ Count(t, {"closed"}) <= 1
             /\ \A i \in DOMAIN t : t[i] = "closed" => i = Len(t)
             /\ "closed" \in Range(t)
             /\ e = "client" => Count(t, W) = 1
  <2>1. Count(t, V) = 1 /\ Count(t, {"closed"}) = 1
    BY <1>5, CountTwo
  <2>2. e = "client" => Count(t, W) = 1
    BY <1>5, CountTwo
  <2>3. \A i \in DOMAIN t : t[i] = "closed" => i = Len(t)
    BY <1>5
  <2>4. "closed" \in Range(t)
    BY <1>5 DEF Range
  <2> QED
    BY <2>1, <2>2, <2>3, <2>4
<1>6. CASE conn[e].torn /\ e = "server" /\ t = <<"closed">>
  <2>1. Count(t, V) = 0 /\ Count(t, {"closed"}) = 1
    BY <1>6, CountOne
  <2>2. (\A i \in DOMAIN t : t[i] = "closed" => i = Len(t)) /\ "closed" \in Range(t)
    BY <1>6 DEF Range
  <2> QED
    BY <1>6, <2>1, <2>2 DEF t
<1>7. CASE conn[e].torn /\ t = <<g, "closed">>
  BY <1>1, <1>5, <1>7 DEF t
<1>8. CASE conn[e].torn /\ e = "client" /\ t = <<"refused", "closed">>
  <2>1. "refused" \in V /\ "refused" # "closed" /\ "refused" \in W
    OBVIOUS
  <2> QED
    BY <1>5, <1>8, <2>1 DEF t
<1> QED
  BY <1>2, <1>3, <1>4, <1>6, <1>7, <1>8

(* In whatever order a connect is answered, refused, closed and torn down, *)
(* the application hears one outcome, then at most one close               *)
(* (onConnConnected, onConnClosed, connTeardown).                          *)
THEOREM OneVerdictHolds == Spec => []OneVerdict
<1>1. ConnInv => OneVerdict
  BY ToldOnce DEF OneVerdict, Count
<1> QED
  BY <1>1, ConnInvHolds, PTL

(* The two applications agree on the handshake: a server's is told of a    *)
(* connection only if the client's has been, and a client that knows the   *)
(* handshake is done has a server whose application was told.              *)
Agreement ==
  LET c == conn["client"]
      v == conn["server"]
  IN  /\ "accepted" \in Range(v.told) => "connected" \in Range(c.told)
      /\ c.confirmed => "accepted" \in Range(v.told)

(* What an end has told is whether its engine is done, at any moment.      *)
LEMMA ToldDone ==
  ASSUME ConnInv, NEW e \in Ends
  PROVE  Greeting(e) \in Range(conn[e].told) <=> Done(e, conn[e])
<1> DEFINE t == conn[e].told
           g == Greeting(e)
<1>1. g # "closed" /\ g # "refused"
  BY DEF Greeting
<1>2. \/ Done(e, conn[e]) /\ (t = <<g>> \/ t = <<g, "closed">>)
      \/ ~Done(e, conn[e]) /\ (t = <<>> \/ t = <<"refused", "closed">> \/ t = <<"closed">>)
  BY DEF ConnInv, LiveInv, OverInv, Live, Going, Over, Told
<1> HIDE DEF t, g
<1>3. CASE Done(e, conn[e])
  <2>1. g \in Range(t)
    BY <1>2, <1>3 DEF Range
  <2> QED
    BY <1>3, <2>1 DEF t, g
<1>4. CASE ~Done(e, conn[e])
  <2>1. g \notin Range(t)
    BY <1>1, <1>2, <1>4 DEF Range
  <2> QED
    BY <1>4, <2>1 DEF t, g
<1> QED
  BY <1>3, <1>4

(* However the connection ends, and after it has, the applications were    *)
(* told of the same handshake (tlsComplete, onConnConnected, and the       *)
(* HANDSHAKE_DONE frame that confirms it).                                 *)
THEOREM AgreementHolds == Spec => []Agreement
<1>1. ConnInv => Agreement
  <2> SUFFICES ASSUME ConnInv PROVE Agreement
    OBVIOUS
  <2> DEFINE c == conn["client"]
             v == conn["server"]
  <2>1. Agreed("client", c, v) /\ Agreed("server", v, c)
    BY DEF ConnInv, AgreeInv, Ends, Peer
  <2>2. /\ Greeting("client") \in Range(c.told) <=> Done("client", c)
        /\ Greeting("server") \in Range(v.told) <=> Done("server", v)
    BY ToldDone DEF Ends
  <2>3. Greeting("client") = "connected" /\ Greeting("server") = "accepted"
    BY DEF Greeting
  <2> HIDE DEF c, v
  <2>4. "connected" \in Range(c.told) <=> c.tls = 3
    BY <2>2, <2>3 DEF Done
  <2>5. "accepted" \in Range(v.told) <=> v.tls = 2
    BY <2>2, <2>3 DEF Done
  <2>6. (v.tls = 2 => c.tls = 3) /\ (c.confirmed => v.tls = 2)
    BY <2>1 DEF Agreed
  <2> QED
    BY <2>4, <2>5, <2>6 DEF Agreement, c, v
<1> QED
  BY <1>1, ConnInvHolds, PTL

(* handleAck aborts the connection with PROTOCOL_VIOLATION when a range    *)
(* reaches a number the space has not used (r.largest >= s->next); that is *)
(* the branch HandleAck leaves out.                                        *)
AcksAreOfSent ==
  \A e \in Ends : \A d \in Range(net[e]) : \A s \in DOMAIN d :
     ~conn[e].sp[s].gone => \A pn \in d[s].ack : pn < conn[e].sp[s].next

(* No acknowledgement on its way, fresh, late or repeated, names a packet  *)
(* number that the end it is sent to has not used in a space it still has, *)
(* so between two ends that run this code the abort of handleAck for such  *)
(* an acknowledgement never happens.                                       *)
THEOREM AcksAreOfSentHolds == Spec => []AcksAreOfSent
<1>1. ConnInv => AcksAreOfSent
  <2> SUFFICES ASSUME ConnInv, NEW e \in Ends, NEW d \in Range(net[e]), NEW s \in DOMAIN d,
                      ~conn[e].sp[s].gone, NEW pn \in d[s].ack
               PROVE  pn < conn[e].sp[s].next
    BY DEF AcksAreOfSent
  <2>1. Genuine(Peer(e), conn[Peer(e)], d) /\ Answers(conn[e], d)
    BY DEF ConnInv, NetInv
  <2>2. s \in Spaces
    BY <2>1 DEF Genuine
  <2>3. conn[e].sp[s].next \in Nat
    BY <2>2 DEF ConnInv, ShapeInv, Shape, SpaceShape
  <2>4. pn \in 0..(conn[e].sp[s].next - 1)
    BY <2>1 DEF Answers, Used
  <2> QED
    BY <2>3, <2>4
<1> QED
  BY <1>1, ConnInvHolds, PTL
=============================================================================
