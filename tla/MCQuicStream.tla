---------------------------- MODULE MCQuicStream ----------------------------
(***************************************************************************)
(* Transfers small enough to explore: each is about another hard case.     *)
(***************************************************************************)
EXTENDS QuicStream

Transfer(len, whole, sizes, resets, limit, cwnd, drop, spur) ==
    [len |-> len, whole |-> whole, sizes |-> sizes, resets |-> resets, limit |-> limit,
     cwnd |-> cwnd, drop |-> drop, spur |-> spur]

Transfers ==
    { Transfer(<<5>>, {}, {1, 5}, {}, 1, 2, 0, 0),        \* a stream longer than its window, reordered
      Transfer(<<5>>, {}, {2, 5}, {}, 1, 1, 1, 0),        \* the same, with a loss
      Transfer(<<3>>, {}, {1, 3}, {}, 1, 2, 1, 0),        \* a loss among packets that overtake each other
      Transfer(<<1>>, {}, {1}, {}, 1, 2, 1, 1),           \* a loss and a premature timeout
      Transfer(<<2>>, {1}, {1, 2}, {1}, 1, 1, 1, 0),      \* a loss, a reset and a STOP_SENDING
      Transfer(<<1, 1>>, {1, 2}, {1}, {1}, 1, 1, 0, 0),   \* a reset that makes room for a stream
      Transfer(<<1, 1>>, {1}, {1}, {}, 1, 1, 1, 0),       \* a lost MAX_STREAMS
      Transfer(<<5, 1>>, {1}, 1..4, {}, 1, 1, 0, 0),      \* whole writes longer than the credit there is
      Transfer(<<4, 1>>, {1, 2}, {2, 4}, {}, 2, 1, 0, 0) }\* two streams share the connection's window

\* Three packets of one byte arrive out of order.
OutOfOrder == {Transfer(<<3>>, {}, {1}, {}, 1, 3, 0, 0)}
=============================================================================
