SPECIFICATION SakeSpec
CONSTANTS
  Threads = {t1}
  Profiles = {11}
  TableIDs <- MCTableIDs
  Folded <- MCFolded
  Tables <- MCTables
  Inputs <- MCInputs
  RecordIDs = {1, 2}
  MaxSakeRecordsPerProfile = 1
  MaxSakeFieldsPerRecord = 64
INVARIANT OwnerMayUpdate
CHECK_DEADLOCK FALSE
