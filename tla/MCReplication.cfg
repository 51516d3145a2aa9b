CONSTANTS
  x = x
  y = y
  Parts = {"listing", "sync", "transfer", "get"}
  Keys <- FourKeys
  Prefix <- OnePrefix
  ListInstances <- Walks
  NoRev = NoRev
  Chunks = {x, y}
  Modes = {"sync", "replicate", "fork", "restore"}
  SyncInstances <- Commands
  PageKeys = 1
  PoolInstances <- Pools
  GetInstances <- Gets
  RunMaxRecords = 3
  RunMaxLogical = 4
  Piece = 2
  ChannelCap = 1
SPECIFICATION Spec
INVARIANTS
  ClientTypes ListingFaithful OverwritesAreIntended ConflictsAreForeign
  CommitsAreWhole OKMeansReplicated PoolSafe ReadsAreFaithful
PROPERTY ClientsEnd
CHECK_DEADLOCK FALSE
