SPECIFICATION Spec
CONSTANTS
  p1 = p1
  p2 = p2
  c1 = c1
  c2 = c2
  Posters = {p1, p2}
  Pollers = {c1, c2}
  Handler = handler
  Cqe = 2
  ResizeTo = {1}
  SolicitedKinds = {FALSE}
  ArmFlags = {2}
  ConsumersLocked = FALSE
  MaxPosts = 4
  MaxResizes = 0
INVARIANT DeliveredOnce

