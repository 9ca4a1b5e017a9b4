SPECIFICATION LiveSpec
CONSTANTS
  n1 = n1
  n2 = n2
  g1 = g1
  ok = ok
  None = None
  Conns = {c1, c2}
  Profiles = {p1, p2}
  MaxPolls = 2
  Restarts = FALSE
INVARIANTS LoggedInIsLive OneConnectionPerProfile
PROPERTIES WaitsEnd AllNegotiated
CHECK_DEADLOCK FALSE
