CONSTANTS
  t1 = t1
  c1 = c1
  c2 = c2
  w1 = w1
  w2 = w2
  t2 = t2
  Tasks = {t1}
  Clients = {c1, c2}
  Workers = {w1, w2}
  Nobody = Nobody
  Controller = Controller
  MaxCalls <- TwoAndOne
SPECIFICATION Spec
SYMMETRY Symmetry
INVARIANTS
  RefsExact
  OnePlace
  CancelSticksUnlessRaced
  DoneIsAttended
  StopReleases
CHECK_DEADLOCK FALSE
