SPECIFICATION Spec
CONSTANTS
  NStreams = 1  Len0 = 3
  StreamWin = 3  ConnWin = 3
  BufMax = 3  SendLow = 0
  PktBytes = 1  MaxRanges = 1
  Plans <- OutOfOrder
INVARIANT AckedIsHeld
CHECK_DEADLOCK FALSE
