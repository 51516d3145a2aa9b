CONSTANTS
  a = a
  b = b
  Chunks = {a, b}
  NumTiers = 3
  Objects <- Sharing
  Requests = {r1, r2}
  Tool = tool
  OfflineCommands = {"compact", "gc", "repack", "move", "rebalance"}
  Budgets <- OneUpload
SPECIFICATION PacksSpec
INVARIANT
  LiveReadable
