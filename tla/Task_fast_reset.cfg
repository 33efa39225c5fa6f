SPECIFICATION FairSpec
CONSTANTS
  a = a
  b = b
  c = c
  Callers = {a, b, c}
  Tasklet = tasklet
  Control = control
  MaxWork = 4
  Modes <- FastReset
INVARIANT FuncExclusive
CHECK_DEADLOCK FALSE
