SPECIFICATION FairSpec
CONSTANTS
  a = a
  b = b
  c = c
  x = x
  y = y
  Contexts = {a, b, c}
  Elems = {x, y}
  MaxElem = 2
  IndexRange = 3
  MaxLeaks = 1
INVARIANTS TypeOK Reachable FoundIsAlive RefsExact DeviceLast
PROPERTY DeviceFreed
CHECK_DEADLOCK FALSE
