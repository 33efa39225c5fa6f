SPECIFICATION Spec
CONSTANTS
  a = a
  b = b
  c = c
  p = p
  p2 = p2
  p3 = p3
  m = m
  n = n
  g1 = g1
  g2 = g2
  Contexts = {a, b, c}
  QPs = {p, p2, p3}
  Mgids = {m, n}
  Groups = {g1, g2}
  MaxAttach = 2
  Modes <- Undisturbed
INVARIANTS MembersReached ListsAgree NothingDangling GroupsReleased
CHECK_DEADLOCK FALSE
