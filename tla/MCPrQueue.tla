----------------------------- MODULE MCPrQueue -----------------------------
(* Instances of PrQueue for TLC. *)
EXTENDS PrQueue, TLC

CONSTANTS p1, p2, c1, c2, v1, v2, v3, v4

Pushes(s, t) == [p \in Pushers |-> IF p = p1 THEN s ELSE t]
Pops(i, j) == [c \in Poppers |-> IF c = c1 THEN i ELSE j]

(* Growing, retiring, freeing and shrinking under two pushers; two poppers *)
(* that race for what is pushed, until a count is overtaken; and a segment *)
(* that is full and may not grow.                                          *)
Mixed == {[minsz |-> 1, push |-> Pushes(<<v1>>, <<v2, v3>>), pops |-> Pops(1, 0), cycles |-> 3],
          [minsz |-> 2, push |-> Pushes(<<v1>>, <<v2, v3>>), pops |-> Pops(1, 1), cycles |-> 0],
          [minsz |-> 1, push |-> Pushes(<<v1, v2, v3>>, <<v4>>), pops |-> Pops(2, 0), cycles |-> 0]}

(* One pusher and one popper, on one segment and on a queue that grows.    *)
Sequential == {[minsz |-> m, push |-> Pushes(<<v1, v2, v3, v4>>, <<>>), pops |-> Pops(4, 0), cycles |-> 0] :
                 m \in {1, MaxSize}}
============================================================================
