\* One thread acquires with a timeout, the two others wait for ever.
CONSTANTS
  t1 = t1
  t2 = t2
  t3 = t3
  Threads = {t1, t2, t3}
  Timed = {t1}
  MaxSpin = 1
  MaxCalls = 1
  NoThread = NoThread
SPECIFICATION FairSpec
INVARIANTS TypeOK MutualExclusion NoLostWakeup
PROPERTIES ImplementsLock CallsReturnUnlessExpired
CHECK_DEADLOCK FALSE
