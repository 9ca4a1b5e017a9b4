SPECIFICATION FairSpec
CONSTANTS
  c1 = c1
  c2 = c2
  Conns = {c1, c2}
  Deployments <- SplitOnly
  Disciplined = TRUE
  MaxRestarts = 1
PROPERTY ShutdownIsGranted
CHECK_DEADLOCK FALSE
