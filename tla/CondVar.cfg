\* Two consumers, one with a timeout; three producers that signal or broadcast before they unlock.
CONSTANTS
  c1 = c1
  c2 = c2
  p1 = p1
  p2 = p2
  p3 = p3
  Consumers = {c1, c2}
  Producers = {p1, p2, p3}
  Timed = {c1}
  Signals = {"one", "all"}
  UnderLock = TRUE
  MaxCalls = 2
  NoThread = NoThread
SPECIFICATION Spec
SYMMETRY Symmetry
INVARIANTS NoLostSignal
CHECK_DEADLOCK FALSE
