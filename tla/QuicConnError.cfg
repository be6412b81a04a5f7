SPECIFICATION Spec
CONSTANTS
  Flight = 4
  Patience = 5
  Plans <- Refusals
INVARIANTS
  ErrorIsSent
CHECK_DEADLOCK FALSE
