SPECIFICATION Spec
CONSTANTS
  Threads = {t1, t2}
  Goroutines = {r1, r2}
  Requests <- MCRequests
  MacOf <- MCMacOf
  MaxProfiles = 2
  MaxFaults = 1
  Conns = {c1, c2}
  ProfileIDs = {11, 12}
  Games = {"g"}
  DataTypes = {2, 3}
  Indexes = {3}
  MaxReloads = 1
  Pids = {11, 12}
  Regions <- MCRegions
  Scores = {1, 2}
  Questions <- MCQuestions
  MaxSalts = 2
  Profiles = {p1, p2}
  TableIDs <- MCTableIDs
  Folded <- MCFolded
  Tables <- MCTables
  Inputs <- MCInputs
  RecordIDs = {r1, r2}
  MaxSakeRecordsPerProfile = 1
  MaxSakeFieldsPerRecord = 64
  StreamServers = {"gpcm", "gamestats", "serverbrowser"}
  Messages <- MCMessages
  MaxPiece = 4
  MaxBuffer = 6
  Tokens <- MCTokens
  BrowserServers <- MCBrowserServers
  QueryGames = {"g", "mariokartwii"}
  MaxTokens = 17
SYMMETRY ServicesSymmetry
INVARIANTS
  ServicesTypeOK
  WithinLimit SearchIsRight
  IdentityIsProven OneProfile AnswersHold
  DataIsOfProfile RankingIsConsistent MessagesAreCut
  ListIsExact NumbersDoNotCrash
PROPERTIES OthersRecordsKept OwnerWrites
CHECK_DEADLOCK FALSE
