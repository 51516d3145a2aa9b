CONSTANTS
  x = x
  y = y
  Parts = {"sync"}
  Keys <- FourKeys
  Prefix <- OnePrefix
  ListInstances <- Walks
  NoRev = NoRev
  Chunks = {x, y}
  Modes = {"sync", "replicate", "fork", "restore"}
  SyncInstances <- ResumedMultipart
  PageKeys = 1
  PoolInstances <- Pools
  GetInstances <- Gets
  RunMaxRecords = 3
  RunMaxLogical = 4
  Piece = 2
  ChannelCap = 1
SPECIFICATION ResumeSpec
INVARIANT SomeResumeIsClean
CHECK_DEADLOCK FALSE
