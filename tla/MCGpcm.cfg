SPECIFICATION Spec
CONSTANTS
  c1 = c1
  c2 = c2
  c3 = c3
  p1 = p1
  p2 = p2
  None = None
  Conns = {c1,c2,c3}
  Profiles = {p1, p2}
  MaxPolls = 1
  Restarts = TRUE
SYMMETRY Symmetry
INVARIANTS TypeOK OnlineIsRegistered
PROPERTIES ImplementsOwner
CHECK_DEADLOCK FALSE
