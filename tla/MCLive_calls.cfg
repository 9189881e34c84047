SPECIFICATION LiveSpec
CONSTANTS
  Operations = {1, 2, 3}
  Projects = {1, 2}
  LastDay = 3
  Shapes <- Across
  Fetches = {f1}
  Permits = 1
  PageSize = 2
  HardLimit = 2
  Requests <- TwoWays
  CacheSize = 1
  KeepSize = 1
  Ttl = 1
  MaxEdits = 1
  LastMoment = 1
  NoRow = NoRow
  NoKey = NoKey
  NoUser = NoUser
INVARIANTS EachOnce NothingIsMissed
PROPERTIES EveryCallIsAnswered SyncEnds FetchEnds
