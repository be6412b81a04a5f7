\* Three waiters, one with a timeout; increments by one and two.
CONSTANTS
  w1 = w1
  w2 = w2
  w3 = w3
  p1 = p1
  p2 = p2
  Waiters = {w1, w2, w3}
  Producers = {p1, p2}
  Timed = {w1}
  Counts = {1, 2}
  Initial = 1
  MaxCalls = 2
SPECIFICATION Spec
SYMMETRY Symmetry
INVARIANTS TypeOK CountExact NoStrandedWaiter
CHECK_DEADLOCK FALSE
