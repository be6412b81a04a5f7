SPECIFICATION FairSpec
CONSTANTS
  NStreams = 2  Len0 = 5
  StreamWin = 4  ConnWin = 4
  BufMax = 4  SendLow = 0
  PktBytes = 4  MaxRanges = 3
  Plans <- Transfers
INVARIANTS AckedIsHeld NoSelfInflictedError CleanEndIsComplete CreditReturned
PROPERTIES AllStreamsEnd
CHECK_DEADLOCK FALSE
