\* Two pushers, two poppers and the collector; segments of one and two slots.
CONSTANTS
  p1 = p1
  p2 = p2
  c1 = c1
  c2 = c2
  v1 = v1
  v2 = v2
  v3 = v3
  v4 = v4
  Pushers = {p1, p2}
  Poppers = {c1, c2}
  Workloads <- Mixed
  Concurrence = 4
  MaxSegs = 3
  TargetSize = 1
  MaxSize = 2
  Null = Null
SPECIFICATION Spec
INVARIANTS NoUseAfterFree RetiredIsEmptyUnlessOvertaken OnePlace CountExact ProtectionExact
CHECK_DEADLOCK FALSE
