SPECIFICATION FairSpec
CONSTANTS
  m1 = m1
  m2 = m2
  None = None
  Msgs = {}
  Kinds = {"answer"}
  MaxSends = 2
  MaxTimeouts = 0
  Lapses = FALSE
  Restarts = FALSE
  MaxBeats = 3
  MaxSessions = 2
  MaxPackets = 1
INVARIANTS TypeOK BeingChallenged
PROPERTY ChallengeSettles
CHECK_DEADLOCK FALSE
