SPECIFICATION Spec
CONSTANTS
  MaxPut <- MCMaxPut
  MaxBreaks <- MCMaxBreaks
INVARIANTS
  SenderKeepsAll
  NoGap
  ForgottenWasDelivered
PROPERTIES
  SentArrives
  PutFlushes
CHECK_DEADLOCK FALSE
