CONSTANTS
  c1 = c1
  c2 = c2
  c3 = c3
  Chunks = {c1, c2, c3}
  Shards = {"s1", "s2"}
  ShardOf <- TwoShards
  Writers = {w1, w2}
  Objects <- Overlapping
  BatchMax = 2
  Failures = {"error", "power", "kill"}
  Ops = {o1, o2, o3}
  IdemOps = {o1}
  MaxLength = 4
SPECIFICATION CommitSpec
INVARIANTS
  JournalTypeOK AckedFramesDurable OnlyPowerLossRefuses MemoryIsReplay
  CasTypeOK VisibleIsDurable CommittedChunksIntact
PROPERTIES ImplementsCommitLog RequestsEnd
