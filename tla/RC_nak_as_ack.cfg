SPECIFICATION Spec
CONSTANTS
  Scenarios <- NakAsAck
  PsnMod = 64
  InitPsn = 60
INVARIANTS SuccessIsTrue
CHECK_DEADLOCK FALSE
