SPECIFICATION FairSpec
CONSTANTS
  Conns = {c1, c2}
  ProfileIDs = {11}
  Games = {"g"}
  Indexes = {1}
  DataTypes = {3}
  MaxReloads = 1
PROPERTY ReloadCompletes
CHECK_DEADLOCK FALSE
