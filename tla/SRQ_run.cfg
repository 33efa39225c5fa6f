SPECIFICATION Spec
CONSTANTS
  p = p
  c = c
  d = d
  Posters = {p}
  Responders = {c, d}
  Kinds = {"user", "kernel"}
  MaxWr = 2
  ResizeTo = {1, 2}
  Limits = {2}
  Failures = {"alloc", "small", "remap"}
  MaxPosts = 4
  MaxResizes = 2
  MaxArms = 2
INVARIANTS EachTakenOnce LimitSignalled BuffersCounted
SYMMETRY ResponderSymmetry
CHECK_DEADLOCK FALSE
