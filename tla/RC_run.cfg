SPECIFICATION FairSpec
CONSTANTS
  Scenarios <- Mixture
  PsnMod = 64
  InitPsn = 60
INVARIANTS TypeOK ExecutedOnceInOrder SuccessIsTrue AckedWasExecuted RetryHasWork NoErrorWithoutCause ErrorThenFlush
PROPERTY EverythingCompletes
CHECK_DEADLOCK FALSE
