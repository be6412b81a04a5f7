------------------------------ MODULE QuicConn ------------------------------
(***************************************************************************)
(* The QUIC handshake and its end (src/cxquic/conn.c, recovery.c), with    *)
(* the socket that owns the connection (quicsocket.c).                     *)
(*                                                                         *)
(* A client and a server exchange handshake bytes in three packet number   *)
(* spaces over a network that may lose, reorder and duplicate datagrams.   *)
(* A space is given keys, used, and thrown away with whatever is still in  *)
(* it; a server may send only three times what it has received until it   *)
(* has seen a Handshake packet.  Either application may close, either TLS  *)
(* engine may refuse its peer at any message, and a connection that nobody *)
(* answers times out.                                                      *)
(*                                                                         *)
(* Handshake bytes are pieces: one each for ClientHello, ServerHello and   *)
(* the client's Finished, Flight of them for the server's certificate and  *)
(* Finished, each of which fills a datagram.  In the application space the *)
(* one piece is the frames tlsComplete queues: the server's HANDSHAKE_DONE *)
(* and either end's NEW_CONNECTION_IDs.  Receiving, ticking and closing    *)
(* each run to their flush under the engine lock, so each is one step.     *)
(***************************************************************************)
EXTENDS Integers, Sequences, SequencesExt, FiniteSets, FiniteSetsExt

CONSTANTS Flight,    \* datagrams the server's Handshake flight fills
          Patience,  \* unanswered probe timeouts, each twice as long as the one before, that
                     \* are shorter than the idle timeout
          Plans      \* what may happen in a behaviour: see Plan

Ends   == {"client", "server"}
Spaces == {"initial", "handshake", "app"}
Pieces == 1..Flight

Peer(e) == IF e = "client" THEN "server" ELSE "client"

\* A plan: the datagrams the network loses, duplicates, and delivers before an older one,
\* the probe and the idle timeouts that come too early, the ends whose application may close,
\* and the messages a TLS engine refuses: <<e, s, n>> is piece n of those e reads in space s.
Plan == [drop : Nat, dup : Nat, swap : Nat, spur : Nat, idle : Nat, closes : SUBSET Ends,
         refuses : SUBSET (Ends \X {"initial", "handshake"} \X Pieces)]

ASSUME ConnAssumption ==
    /\ Flight \in Nat \ {0} /\ Patience \in Nat \ {0}
    /\ Plans # {} /\ Plans \subseteq Plan

(***************************************************************************)
(* A piece is a cell: not written yet, waiting, in packet pn, or answered. *)
(***************************************************************************)
Unwritten == -3
Pending   == -2
Settled   == -1
None      == -1

VARIABLES plan,     \* the plan of this behaviour
          conn,     \* the two connections and the sockets that own them
          net,      \* the datagrams on their way to each end, oldest first
          budget    \* drops, duplicates, overtakings, early timeouts and closes left

vars == <<plan, conn, net, budget>>

\* QuicPnSpace, with what recovery.c keeps for it.
NewSpace == [tx |-> FALSE, rx |-> FALSE, gone |-> FALSE,
             out |-> [i \in Pieces |-> Unwritten], in |-> {}, next |-> 0, got |-> {},
             ackp |-> FALSE, ackPn |-> None, live |-> {}, elic |-> {}, la |-> None,
             armed |-> FALSE, probes |-> 0]

\* The connection and the socket's engine. tls is how far the TLS engine has come: a
\* client has sent its hello (1), has the server's (2), is done (3); a server has answered
\* the hello (1), is done (2). credit is what is left of three times the datagrams
\* received. told is what the application has been told, why the reason for the end,
\* spoke that a CONNECTION_CLOSE was handed to the network.
NewConn(e) ==
    [st |-> "new", tls |-> 0, confirmed |-> FALSE, valid |-> FALSE, sawHs |-> FALSE,
     soon |-> FALSE, iLater |-> FALSE, pto |-> 0, credit |-> 0, closePending |-> FALSE,
     sp |-> [s \in Spaces |-> IF s = "initial" THEN [NewSpace EXCEPT !.tx = TRUE, !.rx = TRUE]
                                               ELSE NewSpace],
     torn |-> FALSE, appClosing |-> FALSE, why |-> "none", told |-> <<>>, spoke |-> FALSE,
     outbox |-> <<>>]

Init ==
    /\ plan \in Plans
    /\ conn = [e \in Ends |-> NewConn(e)]
    /\ net = [e \in Ends |-> <<>>]
    /\ budget = [drop |-> plan.drop, dup |-> plan.dup, swap |-> plan.swap,
                 spur |-> plan.spur, idle |-> plan.idle, closes |-> plan.closes]

Done(e, x) == x.tls = IF e = "client" THEN 3 ELSE 2

(***************************************************************************)
(* The end of a connection.                                                *)
(***************************************************************************)
\* connTeardown: the flows are closed, the listener forgets the connection, and a client
\* closes the endpoint it dialled out of.
Teardown(x) == IF x.torn THEN x
               ELSE [x EXCEPT !.torn = TRUE, !.told = Append(@, "closed")]

\* Mutant: a teardown that does not leave the application's close to send its frame
NotifyClosedAtOnce(e, x, why) ==
    Teardown([x EXCEPT !.why = why,
                       !.told = IF e = "client" /\ ~Done(e, x) THEN Append(@, "refused") ELSE @])

\* Mutant: a refusal that does not look whether the connect was already answered
NotifyClosedRefused(e, x, why) ==
    LET y == [x EXCEPT !.why = why,
                       !.told = IF e = "client" THEN Append(@, "refused") ELSE @]
    IN  IF x.appClosing THEN y ELSE Teardown(y)

\* connNotifyClosed and onConnClosed: a connect still outstanding is refused, and the
\* socket goes away unless the application's own close will do that.
NotifyClosed(e, x, why) ==
    LET y == [x EXCEPT !.why = why,
                       !.told = IF e = "client" /\ ~Done(e, x) THEN Append(@, "refused") ELSE @]
    IN  IF x.appClosing THEN y ELSE Teardown(y)

\* _quicConnClose
ConnClose(e, x, why) ==
    IF x.st \in {"closing", "draining", "closed"} THEN x
    ELSE NotifyClosed(e, [x EXCEPT !.st = "closing", !.closePending = TRUE], why)

\* connSilentClose
SilentClose(e, x) ==
    CASE x.st = "closed" -> x
      [] x.st \in {"closing", "draining"} -> [x EXCEPT !.st = "closed", !.closePending = FALSE]
      [] OTHER -> NotifyClosed(e, [x EXCEPT !.st = "closed"], "idle")

\* handleConnClose
HandleConnClose(e, x) ==
    LET y == [x EXCEPT !.st = "draining", !.closePending = FALSE]
    IN  IF x.st \in {"draining", "closed"} THEN y ELSE NotifyClosed(e, y, "peer")

(***************************************************************************)
(* Packet number spaces and loss recovery.                                 *)
(***************************************************************************)
\* spaceDiscard, _quicRecovDiscardSpace
SpaceDiscard(x, s) == [x EXCEPT !.sp[s] = [NewSpace EXCEPT !.gone = TRUE], !.pto = 0]

\* connOnLost for the packets P of space sp: what they carried waits again, and so does the
\* acknowledgement one of them carried.
OnLost(sp, P) ==
    [sp EXCEPT !.live = @ \ P, !.elic = @ \ P,
               !.out = [i \in Pieces |-> IF @[i] \in P THEN Pending ELSE @[i]],
               !.ackp = @ \/ (sp.ackPn \in P /\ sp.got # {}),
               !.ackPn = IF @ \in P THEN None ELSE @]

\* Packets an acknowledgement has overtaken; three packets past it say one is lost.
Overtaken(sp) == {pn \in sp.live : pn < sp.la}
Passed(sp)    == {pn \in sp.live : pn + 3 <= sp.la}

\* detectLoss: the packets P of space s are lost, and lossTime is set for those an
\* acknowledgement has overtaken that are not.
DetectLoss(x, s, P) ==
    LET sp == OnLost(x.sp[s], P)
    IN  [x EXCEPT !.sp[s] = [sp EXCEPT !.armed = Overtaken(sp) # {}]]

\* connOnAcked for the packets P of space sp, of an acknowledgement of A.
OnAcked(sp, A, P) ==
    [sp EXCEPT !.la = Max({@} \union A), !.live = @ \ P, !.elic = @ \ P,
               !.out = [i \in Pieces |-> IF @[i] \in P THEN Settled ELSE @[i]],
               !.ackPn = IF @ \in P THEN None ELSE @]

\* handleAck, _quicRecovOnAck. Its abort for a number this end has not used is left out: no
\* such acknowledgement is ever sent (AcksAreOfSent in QuicConnProofs).
HandleAck(e, x, s, A) ==
    LET new == A \intersect x.sp[s].live
        y   == [x EXCEPT !.sp[s] = OnAcked(@, A, new)]
    IN  IF new = {} THEN y
        ELSE DetectLoss([y EXCEPT !.valid = @ \/ s = "handshake",
                                  !.pto = IF e = "server" \/ x.valid \/ s = "handshake"
                                          THEN 0 ELSE @],
                        s, Passed(y.sp[s]))

(***************************************************************************)
(* What the TLS engine does with the handshake bytes it is given           *)
(* (cryptoDrain, tlsquicRecv), through tlsSendCrypto, tlsSecrets,          *)
(* tlsComplete and tlsAlert.                                               *)
(***************************************************************************)
Write(x, s, P) == [x EXCEPT !.sp[s].out = [i \in Pieces |-> IF i \in P THEN Pending ELSE @[i]]]
Secrets(x, s, read, write) == [x EXCEPT !.sp[s].rx = @ \/ read, !.sp[s].tx = @ \/ write]

\* Mutant: a client that drops its Handshake keys as soon as it has finished, like a server
TlsCompleteDiscards(e, x) ==
    [Write(x, "app", {1}) EXCEPT
        !.tls = @ + 1, !.soon = TRUE,
        !.st = IF @ \in {"new", "handshake"} THEN "connected" ELSE @,
        !.told = Append(@, IF e = "client" THEN "connected" ELSE "accepted"),
        !.confirmed = @ \/ e = "server", !.valid = @ \/ e = "server"]

\* tlsComplete, cidReplenish, onConnConnected
TlsComplete(e, x) ==
    LET y == [Write(x, "app", {1}) EXCEPT
                !.tls = @ + 1,
                !.st = IF @ \in {"new", "handshake"} THEN "connected" ELSE @,
                !.told = Append(@, IF e = "client" THEN "connected" ELSE "accepted")]
    IN  IF e = "client" THEN y
        ELSE [y EXCEPT !.confirmed = TRUE, !.valid = TRUE, !.soon = TRUE]

\* The space the engine reads its next message in, if it waits for one.
Reads(e, x) ==
    CASE x.tls = (IF e = "client" THEN 1 ELSE 0) -> "initial"
      [] x.tls = (IF e = "client" THEN 2 ELSE 1) -> "handshake"
      [] OTHER -> "none"

Refuses(e, s, have) == \E n \in Pieces : <<e, s, n>> \in plan.refuses /\ 1..n \subseteq have

CryptoDrain(e, x, s) ==
    LET have == x.sp[s].in
        hello == Secrets(x, "handshake", TRUE, TRUE)
        need == IF e = "client" /\ s = "handshake" THEN Pieces ELSE {1}
    IN  CASE Reads(e, x) # s -> x
          [] Reads(e, x) = s /\ Refuses(e, s, have) -> ConnClose(e, x, "error")
          [] Reads(e, x) = s /\ ~Refuses(e, s, have) /\ have # need -> x
          [] Reads(e, x) = s /\ ~Refuses(e, s, have) /\ have = need ->
               CASE e = "server" /\ s = "initial" ->
                      [Write(Write(Secrets(hello, "app", FALSE, TRUE), "initial", {1}),
                             "handshake", Pieces) EXCEPT !.tls = 1]
                 [] e = "client" /\ s = "initial" -> [hello EXCEPT !.tls = 2]
                 [] e = "client" /\ s = "handshake" ->
                      TlsComplete(e, Secrets(Write(x, "handshake", {1}), "app", TRUE, TRUE))
                 [] e = "server" /\ s = "handshake" ->
                      TlsComplete(e, Secrets(x, "app", TRUE, FALSE))

(***************************************************************************)
(* Sending.  A packet: its number, the packets it acknowledges, the pieces *)
(* it carries, a PING, a CONNECTION_CLOSE.  A datagram holds at most one   *)
(* packet of each space.                                                   *)
(***************************************************************************)
Packet == [pn : Nat, ack : SUBSET Nat, cr : SUBSET Pieces, ping : BOOLEAN, close : BOOLEAN]

Elicits(p) == p.cr # {} \/ p.ping

\* putAck, putCrypto, and putCryptoProbe, which sends a piece in flight once more.
FirstOf(P) == IF P = {} THEN {} ELSE {Min(P)}

PutAck(sp)         == IF sp.ackp THEN sp.got ELSE {}
PutCrypto(sp)      == FirstOf({i \in Pieces : sp.out[i] = Pending})
PutCryptoProbe(sp) == FirstOf({i \in Pieces : sp.out[i] >= 0})

\* buildPayload: an acknowledgement if one is owed, the first piece that waits, and for a
\* probe that would elicit nothing a piece in flight once more or a PING.  The frames of the
\* application space (putAppFrames) are not repeated: a probe there is a PING.
BuildPayload(x, s) ==
    LET sp    == x.sp[s]
        empty == [pn |-> sp.next, ack |-> {}, cr |-> {}, ping |-> FALSE, close |-> FALSE]
        plain == [empty EXCEPT !.ack = PutAck(sp), !.cr = PutCrypto(sp)]
        again == IF s = "app" THEN {} ELSE PutCryptoProbe(sp)
    IN  IF x.st = "closing" THEN [empty EXCEPT !.close = x.closePending]
        ELSE IF sp.probes = 0 \/ Elicits(plain) THEN plain
        ELSE [plain EXCEPT !.cr = again, !.ping = again = {}]

Nothing(p) == p.ack = {} /\ p.cr = {} /\ ~p.ping /\ ~p.close

\* What sending packet p of space s changes: _quicSendBufSent, putAck, _quicRecovOnSent,
\* _quicRecovProbeSent.
OnSent(sp, p) ==
    [sp EXCEPT !.next = @ + 1,
               !.out = [i \in Pieces |-> IF i \in p.cr /\ @[i] = Pending THEN p.pn ELSE @[i]],
               !.ackp = @ /\ p.ack = {},
               !.ackPn = IF p.ack # {} THEN p.pn ELSE @,
               !.live = @ \union {p.pn},
               !.elic = IF Elicits(p) THEN @ \union {p.pn} ELSE @,
               !.probes = IF Elicits(p) /\ @ > 0 THEN @ - 1 ELSE @]

\* The anti-amplification limit.
Limited(e, x) == e = "server" /\ ~x.valid /\ x.credit = 0

\* flushOne: one packet for each space that has keys and something to say. A client whose
\* endpoint is closed hands it to nobody.
FlushOne(e, x) ==
    LET S == {s \in Spaces : ~x.sp[s].gone /\ x.sp[s].tx /\ ~Nothing(BuildPayload(x, s))}
        pk == [s \in S |-> BuildPayload(x, s)]
        out == e = "server" \/ ~x.torn
    IN  IF S = {} \/ Limited(e, x) THEN x
        ELSE [x EXCEPT
                !.sp = [s \in Spaces |-> IF s \in S THEN OnSent(@[s], pk[s]) ELSE @[s]],
                !.sawHs = @ \/ (e = "client" /\ "handshake" \in S),
                !.credit = IF e = "server" /\ ~x.valid THEN @ - 1 ELSE @,
                !.closePending = FALSE,
                !.spoke = @ \/ (out /\ x.st = "closing"),
                !.outbox = IF out THEN Append(@, pk) ELSE @]

\* The loop of _quicConnFlush: datagrams until there is nothing more to say
\* (QUIC_FLUSH_MAX_DATAGRAMS is more than there ever is).
FlushAll(e, x) ==
    LET after[n \in 0..(Flight + 3)] == IF n = 0 THEN x ELSE FlushOne(e, after[n - 1])
    IN  after[Flight + 3]

\* _quicConnFlush: then the spaces the handshake has moved past are thrown away.
Flush(e, x) ==
    LET y == FlushAll(e, x)
        E == {s \in {"initial", "handshake"} : y.sp[s].elic # x.sp[s].elic}
        z == [y EXCEPT !.iLater = IF E = {} THEN @ ELSE E = {"initial"}]
        w == IF z.sawHs /\ ~z.sp["initial"].gone THEN SpaceDiscard(z, "initial") ELSE z
    IN  IF x.st \in {"draining", "closed"} THEN x
        ELSE IF w.soon THEN [SpaceDiscard(w, "handshake") EXCEPT !.soon = FALSE] ELSE w

(***************************************************************************)
(* Receiving.                                                              *)
(***************************************************************************)
\* handleFrame of the frames tlsComplete queued: HANDSHAKE_DONE at a client.
HandleApp(e, x) ==
    IF e = "server" \/ x.confirmed THEN x
    ELSE [SpaceDiscard(x, "handshake") EXCEPT !.confirmed = TRUE, !.valid = TRUE]

Readable(x, s) == ~x.sp[s].gone /\ x.sp[s].rx

\* processFrames: a CONNECTION_CLOSE comes alone, an acknowledgement before the rest.
ProcessFrames(e, x, s, p) ==
    LET y == HandleAck(e, x, s, p.ack)
    IN  IF p.close THEN HandleConnClose(e, x)
        ELSE IF s # "app" THEN [y EXCEPT !.sp[s].in = @ \union p.cr]
        ELSE IF p.cr = {} THEN y ELSE HandleApp(e, y)

\* processPacket: the number is recorded, the frames are handled, and the TLS engine is given
\* what can be read.
ProcessPacket(e, x, s, p) ==
    LET hs == e = "server" /\ s = "handshake"
        a == [x EXCEPT !.sp[s].got = @ \union {p.pn}, !.sawHs = @ \/ hs, !.valid = @ \/ hs]
        b == [ProcessFrames(e, a, s, p) EXCEPT !.sp[s].ackp = @ \/ Elicits(p)]
        c == IF p.close THEN b ELSE CryptoDrain(e, b, s)
    IN  IF ~Readable(x, s) \/ p.pn \in x.sp[s].got THEN x
        ELSE [c EXCEPT !.st = IF @ = "new" THEN "handshake" ELSE @]

\* One turn of the loop of _quicConnRecv over the packets of a datagram; a.read says that one
\* of them could be read.
RecvPacket(e, a, pk, s) ==
    IF s \notin DOMAIN pk THEN a
    ELSE [x |-> ProcessPacket(e, a.x, s, pk[s]), read |-> a.read \/ Readable(a.x, s)]

\* _quicConnRecv: a closing end repeats its close, a draining one says nothing, and a
\* datagram no packet of which could be read is as if it had not come.
ConnRecv(e, x, pk) ==
    LET start == [x EXCEPT !.credit = IF e = "server" /\ ~x.valid THEN @ + 3 ELSE @]
        i == RecvPacket(e, [x |-> start, read |-> FALSE], pk, "initial")
        h == RecvPacket(e, i, pk, "handshake")
        r == RecvPacket(e, h, pk, "app")
    IN  IF ~r.read THEN r.x
        ELSE Flush(e, [r.x EXCEPT !.closePending = @ \/ r.x.st = "closing"])

(***************************************************************************)
(* Timers.                                                                 *)
(***************************************************************************)
\* Mutant: a timer that has nothing to wait for when nothing is in flight
PtoSpacesInFlight(e, x) ==
    {s \in Spaces : x.sp[s].elic # {} /\ (s = "app" => x.confirmed)}

\* recovSetTimer, ptoTimeAndSpace: the spaces a probe timeout may be about. One is armed at
\* a client with nothing in flight until the server has answered a Handshake packet, and
\* never for the application space before the handshake is confirmed.
PtoSpaces(e, x) ==
    LET E == {s \in Spaces : x.sp[s].elic # {}}
    IN  IF E = {} THEN IF e = "server" \/ x.valid THEN {}
                       ELSE IF x.sp["handshake"].tx /\ ~x.sp["handshake"].gone THEN {"handshake"}
                       ELSE {"initial"}
        ELSE IF {"initial", "handshake"} \subseteq E
             THEN {IF x.iLater THEN "handshake" ELSE "initial"}
        ELSE E \ (IF x.confirmed THEN {} ELSE {"app"})

LossDue(x) == {s \in Spaces : x.sp[s].armed}

\* Whether a probe timeout changes anything: a server at its limit owes its probes already.
PtoDue(e, x) == {s \in PtoSpaces(e, x) : LossDue(x) = {} /\ (~Limited(e, x) \/ x.sp[s].probes < 2)}

Open(e) == conn[e].st # "new" /\ ~conn[e].torn

\* A probe is due before the idle timeout as long as the doubled wait for it is the shorter.
ProbeDue(e) == IF Open(e) /\ conn[e].pto < Patience THEN PtoDue(e, conn[e]) ELSE {}

Silent == \A e \in Ends : net[e] = <<>>

\* Mutant: an idle timeout for connections that finished their handshake only
IdleDueConnected(e) ==
    /\ Open(e) /\ conn[e].st = "connected" /\ Silent
    /\ \A f \in Ends : LossDue(conn[f]) = {} /\ ProbeDue(f) = {}

\* The idle timeout, which what is received and every probe that is sent start again
\* (idleDeadline, flushOne, _quicConnRecv): it comes when nothing is on its way and neither
\* end has an earlier timer left that would send something.
IdleDue(e) ==
    /\ Open(e) /\ Silent
    /\ \A f \in Ends : LossDue(conn[f]) = {} /\ ProbeDue(f) = {}

\* A packet grows too old sooner than a probe is due, and each probe timeout doubles the wait
\* for the next, so of two ends that wait the one that has fired less often is first.
PtoFirst(e) ==
    /\ LossDue(conn[Peer(e)]) = {}
    /\ ProbeDue(Peer(e)) = {} \/ conn[e].pto <= conn[Peer(e)].pto

\* Whether something still on its way would have told e about the packets P of space s.
Underway(e, s, P) ==
    \/ \E d \in Range(net[e]) : s \in DOMAIN d /\ d[s].ack \intersect P # {}
    \/ \E d \in Range(net[Peer(e)]) : s \in DOMAIN d /\ d[s].pn \in P

(***************************************************************************)
(* The actions.                                                            *)
(***************************************************************************)
\* What is left of a connection whose socket is gone is what it said and was told.
Rest(x) ==
    IF ~x.torn THEN [x EXCEPT !.outbox = <<>>]
    ELSE [x EXCEPT !.outbox = <<>>, !.sp = [s \in Spaces |-> [NewSpace EXCEPT !.gone = TRUE]],
                   !.closePending = FALSE, !.iLater = FALSE, !.soon = FALSE, !.pto = 0]

\* Connection e becomes x and sends what x has in its outbox; N is what else is on its way.
\* Nobody reads what is sent to a socket that is gone.
Become(e, x, N) ==
    /\ conn' = [conn EXCEPT ![e] = Rest(x)]
    /\ LET sent == [N EXCEPT ![Peer(e)] = @ \o x.outbox]
       IN  net' = [f \in Ends |-> IF conn'[f].torn THEN <<>> ELSE sent[f]]

\* netquicConnect, startClient, _quicConnStart
Start ==
    /\ conn["client"].st = "new"
    /\ LET x == [conn["client"] EXCEPT !.st = "handshake", !.tls = 1]
       IN  Become("client", Flush("client", Write(x, "initial", {1})), net)
    /\ UNCHANGED <<plan, budget>>

Without(e, i) == [net EXCEPT ![e] = RemoveAt(@, i)]

\* onCtlDatagram; keep says the network delivers the datagram once more later.
Deliver(e, i, keep) ==
    /\ keep => budget.dup > 0
    /\ i > 1 => budget.swap > 0
    /\ Become(e, ConnRecv(e, conn[e], net[e][i]), IF keep THEN net ELSE Without(e, i))
    /\ budget' = [budget EXCEPT !.dup = IF keep THEN @ - 1 ELSE @,
                                !.swap = IF i > 1 THEN @ - 1 ELSE @]
    /\ UNCHANGED plan

Drop(e, i) ==
    /\ budget.drop > 0
    /\ net' = Without(e, i)
    /\ budget' = [budget EXCEPT !.drop = @ - 1]
    /\ UNCHANGED <<plan, conn>>

\* A timer that fires while an answer is still on its way is paid for.
Charge(early) == /\ early => budget.spur > 0
                 /\ budget' = IF early THEN [budget EXCEPT !.spur = @ - 1] ELSE budget

\* onCtlTimer, _quicConnTick, _quicRecovOnTimeout: packets an acknowledgement has overtaken
\* have grown too old.
LossTimer(e, s) ==
    /\ s \in LossDue(conn[e])
    /\ LET old == Overtaken(conn[e].sp[s])
       IN  /\ Charge(Underway(e, s, old))
           /\ Become(e, Flush(e, DetectLoss(conn[e], s, old)), net)
    /\ UNCHANGED plan

\* The same, when nothing has been heard for too long: two probes are owed.
Pto(e, s) ==
    /\ s \in ProbeDue(e)
    /\ Charge(~(Silent /\ PtoFirst(e)))
    /\ Become(e, Flush(e, [conn[e] EXCEPT !.sp[s].probes = 2, !.pto = @ + 1]), net)
    /\ UNCHANGED plan

\* _quicConnTick of a connection that has been idle too long; an answer that takes longer
\* than that is paid for.
Idle(e) ==
    /\ Open(e) /\ net[e] = <<>>
    /\ \/ IdleDue(e) /\ UNCHANGED budget
       \/ ~IdleDue(e) /\ budget.idle > 0 /\ budget' = [budget EXCEPT !.idle = @ - 1]
    /\ Become(e, SilentClose(e, conn[e]), net)
    /\ UNCHANGED plan

\* netquicClose, NetSocketQuic_close
AppClose(e) ==
    /\ e \in budget.closes /\ Open(e)
    /\ LET x == ConnClose(e, [conn[e] EXCEPT !.appClosing = TRUE], "app")
       IN  Become(e, Teardown(Flush(e, x)), net)
    /\ budget' = [budget EXCEPT !.closes = @ \ {e}]
    /\ UNCHANGED plan

Next ==
    \/ Start
    \/ \E e \in Ends : \E i \in DOMAIN net[e] :
          Drop(e, i) \/ \E keep \in BOOLEAN : Deliver(e, i, keep)
    \/ \E e \in Ends : Idle(e) \/ AppClose(e)
    \/ \E e \in Ends, s \in Spaces : LossTimer(e, s) \/ Pto(e, s)

Spec == Init /\ [][Next]_vars

\* Datagrams that are not dropped arrive and timers fire.
Progress ==
    \/ Start
    \/ \E e \in Ends : net[e] # <<>> /\ Deliver(e, 1, FALSE)
    \/ \E e \in Ends : Idle(e)
    \/ \E e \in Ends, s \in Spaces : LossTimer(e, s) \/ Pto(e, s)

\* Progress is enabled.
Due ==
    \/ conn["client"].st = "new"
    \/ ~Silent
    \/ \E e \in Ends : IdleDue(e) \/ LossDue(conn[e]) # {} \/ ProbeDue(e) # {}

\* WF_vars(Progress), with Due for ENABLED Progress.
FairSpec == Spec /\ ([]<>~Due \/ []<><<Progress>>_vars)

(***************************************************************************)
(* Properties.                                                             *)
(***************************************************************************)
SpaceType ==
    [tx : BOOLEAN, rx : BOOLEAN, gone : BOOLEAN,
     out : [Pieces -> {Unwritten, Pending, Settled} \union Nat], in : SUBSET Pieces,
     next : Nat, got : SUBSET Nat, ackp : BOOLEAN, ackPn : {None} \union Nat,
     live : SUBSET Nat, elic : SUBSET Nat, la : {None} \union Nat, armed : BOOLEAN,
     probes : 0..2]

\* Types, and what each space's bookkeeping promises: numbers still watched were used, those
\* that must be answered are watched, and a packet is armed for loss only if one is overtaken
\* (_quicRecovOnSent, detectLoss).
TypeOK ==
    /\ plan \in Plans
    /\ \A e \in Ends : \A d \in Range(net[e]) :
          DOMAIN d \subseteq Spaces /\ \A s \in DOMAIN d : d[s] \in Packet
    /\ budget.drop \in 0..plan.drop /\ budget.dup \in 0..plan.dup /\ budget.swap \in 0..plan.swap
    /\ budget.spur \in 0..plan.spur /\ budget.idle \in 0..plan.idle
    /\ budget.closes \subseteq plan.closes
    /\ \A e \in Ends :
        LET x == conn[e]
        IN  /\ x.st \in {"new", "handshake", "connected", "closing", "draining", "closed"}
            /\ x.tls \in 0..3 /\ x.credit \in Nat /\ x.pto \in Nat
            /\ x.why \in {"none", "app", "error", "peer", "idle"}
            /\ x.told \in Seq({"connected", "accepted", "refused", "closed"})
            /\ {x.confirmed, x.valid, x.sawHs, x.soon, x.iLater, x.closePending, x.torn,
                x.appClosing, x.spoke} \subseteq BOOLEAN
            /\ \A s \in Spaces : LET p == x.sp[s]
                                 IN  /\ p \in SpaceType
                                     /\ p.live \subseteq 0..(p.next - 1) /\ p.elic \subseteq p.live
                                     /\ p.armed => Overtaken(p) # {}

\* A space thrown away has done its work: what this end sent in it has been read by the
\* other end's TLS engine, however the packets that could have said so were lost. (spaceDiscard
\* is called when a client has sent a Handshake packet and a server received one, when a
\* server completes, and when a client is told HANDSHAKE_DONE; nothing sent before can be
\* sent again after.)
DiscardIsSafe ==
    LET c == conn["client"]
        v == conn["server"]
    IN  /\ ~c.torn /\ c.sp["initial"].gone   => v.tls >= 1
        /\ ~v.torn /\ v.sp["initial"].gone   => c.tls >= 2
        /\ ~v.torn /\ v.sp["handshake"].gone => c.tls = 3
        /\ ~c.torn /\ c.sp["handshake"].gone => v.tls = 2 /\ v.confirmed

\* The application hears one outcome of the connect, before the close and never after it,
\* and one close: onConnConnected, onConnClosed and connTeardown may each run in one receive.
OneVerdict ==
    \A e \in Ends :
        LET t == conn[e].told
            n(S) == Cardinality({i \in DOMAIN t : t[i] \in S})
        IN  /\ n({"connected", "refused", "accepted"}) <= 1 /\ n({"closed"}) <= 1
            /\ \A i \in DOMAIN t : t[i] = "closed" => i = Len(t)
            /\ conn[e].torn => "closed" \in Range(t)
            /\ e = "client" /\ conn[e].torn => n({"connected", "refused"}) = 1

\* A close is on the wire before the socket is gone: when the application closes, at either
\* end, unless it is a server that the anti-amplification limit leaves nothing to send with;
\* and when a server's TLS engine refuses its client, be it at the ClientHello, before the
\* client's address is known to be its own (netquicClose, onConnClosed, _quicConnRecv). A
\* client that refuses its server is not covered: see ErrorIsSent.
CloseIsSent ==
    \A e \in Ends :
        LET x == conn[e]
        IN  /\ x.torn /\ x.why = "app" => x.spoke \/ Limited(e, x)
            /\ x.torn /\ x.why = "error" /\ e = "server" => x.spoke

\* An end that gives up on an error turns it into a CONNECTION_CLOSE (conn_private.h:877-878).
ErrorIsSent == \A e \in Ends : conn[e].torn /\ conn[e].why = "error" => conn[e].spoke

Joined ==
    \A e \in Ends : /\ Done(e, conn[e]) /\ conn[e].confirmed
                    /\ conn[e].sp["app"].out[1] = Settled

\* Two ends that stay both finish the handshake, know that the other has, and have every
\* frame answered, whatever is lost and although the server may not send its flight at once
\* (the client's probe timeout with nothing in flight is what releases it): neither times
\* out first, unless an answer may come too late.
HandshakeFinishes ==
    <>(Joined \/ \E e \in Ends : conn[e].torn /\ (conn[e].why = "idle" => plan.idle > 0))

\* An end whose peer is gone does not stay for ever: the close reaches it, or its probes run
\* out, each of which starts the idle timeout again, and then it times out. (That there are
\* only so many is the backoff of ptoTimeAndSpace, if the idle timeout is not longer than the
\* longest wait QUIC_MAX_PTO_BACKOFF allows.)
PeerLearns ==
    \A e \in Ends : conn[e].torn ~> (conn[Peer(e)].torn \/ conn[Peer(e)].st = "new")
====
