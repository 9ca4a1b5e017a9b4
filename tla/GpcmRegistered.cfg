SPECIFICATION Spec
CONSTANTS
  c1 = c1
  c2 = c2
  p1 = p1
  p2 = p2
  None = None
  Conns = {c1, c2}
  Profiles = {p1, p2}
  MaxPolls = 1
  Restarts = FALSE

INVARIANT RegisteredIsOpen

CHECK_DEADLOCK FALSE
