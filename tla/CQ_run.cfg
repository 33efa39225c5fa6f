SPECIFICATION FairSpec
CONSTANTS
  p1 = p1
  p2 = p2
  c1 = c1
  c2 = c2
  Posters = {p1, p2}
  Pollers = {c1}
  Handler = handler
  Cqe = 2
  ResizeTo = {1, 3}
  SolicitedKinds = {FALSE}
  ArmFlags = {2}
  ConsumersLocked = TRUE
  MaxPosts = 4
  MaxResizes = 1
INVARIANTS TypeOK NothingLost
PROPERTIES ImplementsFifo EventuallyDelivered
