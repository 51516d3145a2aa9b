CONSTANTS
  c1 = c1
  c2 = c2
  c3 = c3
  Chunks = {c1, c2, c3}
  Shards = {"s1", "s2"}
  ShardOf <- TwoShards
  Writers = {w1, w2}
  Objects <- Overlapping
  BatchMax = 2
  Failures = {"power", "killPublishing"}
SPECIFICATION CasSpec
SYMMETRY Symmetry
INVARIANT CommittedChunksIntact
