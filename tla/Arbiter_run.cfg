SPECIFICATION FairSpec
CONSTANTS
  q1 = q1
  q2 = q2
  QPs = {q1, q2}
  MaxSkb = 2
  Scenarios <- Mixed
INVARIANTS TypeOK SkbAccounted NoStrandedQP SentInOrder
PROPERTIES EverythingLeaves ThrottledResumes
CHECK_DEADLOCK FALSE
