SPECIFICATION FairSpec
CONSTANTS
  Flight = 4
  Patience = 5
  Plans <- Handshakes
INVARIANTS
  DiscardIsSafe
  OneVerdict
  CloseIsSent
PROPERTIES
  HandshakeFinishes
  PeerLearns
CHECK_DEADLOCK FALSE
