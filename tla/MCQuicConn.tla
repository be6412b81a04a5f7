----------------------------- MODULE MCQuicConn -----------------------------
(***************************************************************************)
(* Model values for QuicConn: a server flight one datagram longer than the *)
(* anti-amplification limit lets out, and the things that go wrong.        *)
(***************************************************************************)
EXTENDS QuicConn

Quiet == [drop |-> 0, dup |-> 0, swap |-> 0, spur |-> 0, idle |-> 0, closes |-> {},
          refuses |-> {}]

Handshakes ==
    { [Quiet EXCEPT !.drop = 3],
      [Quiet EXCEPT !.drop = 1, !.swap = 2],
      [Quiet EXCEPT !.drop = 2, !.swap = 1, !.dup = 1],
      [Quiet EXCEPT !.swap = 1, !.spur = 1],
      [Quiet EXCEPT !.drop = 1, !.spur = 1],
      [Quiet EXCEPT !.closes = Ends, !.drop = 2, !.swap = 1],
      [Quiet EXCEPT !.closes = Ends, !.dup = 1, !.spur = 1],
      [Quiet EXCEPT !.refuses = {<<"server", "initial", 1>>}, !.drop = 2, !.dup = 1],
      [Quiet EXCEPT !.refuses = {<<"client", "initial", 1>>}, !.drop = 2],
      [Quiet EXCEPT !.refuses = {<<"client", "handshake", 2>>}, !.drop = 2, !.swap = 1],
      [Quiet EXCEPT !.refuses = {<<"server", "handshake", 1>>}, !.drop = 2, !.swap = 1],
      [Quiet EXCEPT !.idle = 1, !.drop = 2] }

Refusals == { [Quiet EXCEPT !.refuses = {<<"client", "initial", 1>>}] }
====
