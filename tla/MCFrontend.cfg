SPECIFICATION FairSpec
CONSTANTS
  c1 = c1
  c2 = c2
  Conns = {c1, c2}
  Deployments <- BothDeployments
  Disciplined = TRUE
  MaxRestarts = 2
INVARIANTS TypeOK Quiesced NoOrphan NoStranger UnlockExpectsLocked
PROPERTIES CloseIsReported ImplementsHandover
CHECK_DEADLOCK FALSE
