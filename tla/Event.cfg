\* Two waiters, one with a timeout, and two threads that signal one, two or all, lock and reset.
CONSTANTS
  w1 = w1
  w2 = w2
  s1 = s1
  s2 = s2
  Waiters = {w1, w2}
  Signalers = {s1, s2}
  Timed = {w1}
  MaxStale = 1
  Counts = {1, 2}
  AllowAll = TRUE
  AllowLock = TRUE
  MaxCalls <- WaitTwice
SPECIFICATION FairSpec
INVARIANTS NoStrandedWaiterUnlessStolen
PROPERTY LockReleasesAll
CHECK_DEADLOCK FALSE
