CONSTANTS
  x = x
  y = y
  Parts = {"listing"}
  Keys <- FourKeys
  Prefix <- OnePrefix
  ListInstances <- Walks
  NoRev = NoRev
  Chunks = {x, y}
  Modes = {"sync", "replicate", "fork", "restore"}
  SyncInstances <- Commands
  PageKeys = 1
  PoolInstances <- Pools
  GetInstances <- Gets
  RunMaxRecords = 3
  RunMaxLogical = 4
  Piece = 2
  ChannelCap = 1
SPECIFICATION Spec
INVARIANT PaginationNeverDuplicates
CHECK_DEADLOCK FALSE
