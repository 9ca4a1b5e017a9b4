SPECIFICATION MCSpec
CONSTANTS
  g1 = g1
  None = None
  Clients = {n1, n2, n3}
  Consoles = {n1, n2}
  Games = {g1, g2}
  Results = {ok}
  Kinds = {"init", "ack", "report", "other"}
  GamePorts = {FALSE, TRUE}
  Orderly = {}
  Restarts = TRUE
  MaxSessions = 1
  MaxPackets = 2
SYMMETRY Symmetry
INVARIANTS NatnegTypeOK StillTold OwnTimer NoIdlePair
PROPERTY ResultIsRealOfThree
CHECK_DEADLOCK FALSE
