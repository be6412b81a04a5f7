\* Three threads, one reading and one writing with a timeout; limits they can all reach.
CONSTANTS
  t1 = t1
  t2 = t2
  t3 = t3
  Threads = {t1, t2, t3}
  TimedReads = {t1}
  TimedWrites = {t2}
  ReaderMax = 2
  ReadwaitMax = 1
  WriterMax = 2
  MaxCalls = 2
SPECIFICATION FairSpec
INVARIANTS TypeOK SingleWriteGrant CountsExact NoStrandedReader
PROPERTIES TakeTurns ImplementsUntilWriteExpires CallsReturnUnlessExpired
CHECK_DEADLOCK FALSE
