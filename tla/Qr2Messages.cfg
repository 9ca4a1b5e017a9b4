SPECIFICATION FairSpec
CONSTANTS
  m1 = m1
  m2 = m2
  None = None
  Msgs = {m1, m2}
  Kinds = {"answer", "keepalive", "ack", "other"}
  MaxSends = 1
  MaxTimeouts = 1
  Lapses = TRUE
  Restarts = TRUE
  MaxBeats = 2
  MaxSessions = 1
  MaxPackets = 1
PROPERTY MessageEnds
CHECK_DEADLOCK FALSE
