SPECIFICATION FairSpec
CONSTANTS
  a = a
  b = b
  c = c
  Callers = {a, b, c}
  Tasklet = tasklet
  Control = control
  MaxWork = 4
  Modes <- SafeModes
INVARIANTS TypeOK FuncExclusive WorkNotForgotten
PROPERTY WorkGetsDone
CHECK_DEADLOCK FALSE
