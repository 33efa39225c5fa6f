SPECIFICATION FairSpec
CONSTANTS
  q1 = q1
  q2 = q2
  QPs = {q1, q2}
  MaxSkb = 1
  Scenarios <- Stopping
PROPERTY StoppedRecovers
CHECK_DEADLOCK FALSE
