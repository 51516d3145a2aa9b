CONSTANTS
  s = s
  t = t
  g = g
  h = h
  v = v
  Procs = {s, g, h, v}
  Scenarios <- Maintenance
  Existing = {old, older}
  Junk = {junk}
  MaxFrames = 5
  m1 = m1
  m2 = m2
  m3 = m3
  m4 = m4
  a = a
  b = b
  c = c
  r1 = r1
  r2 = r2
  q = q
  k1 = k1
  k2 = k2
  s1 = s1
  s2 = s2
  s3 = s3
  ObjectKeys = {k1, k2}
  Manifests = {m1, m2, m3, m4}
  SnapshotIDs = {s1, s2, s3}
  CasChunks = {a, b, c, r1, r2, q}
  NoManifest = NoManifest
  FullBundle = FullBundle
  ChunksOf <- Lists
  RepObject <- Representations
  RepComponents <- Components
  Bundles <- FullAndDelta
  RootInstances <- Roots_
  StoreParts = {"packs", "ownership", "roots"}
  Chunks = {a, b}
  NumTiers = 3
  Objects <- Sharing
  Requests = {r1, r2}
  Tool = tool
  OfflineCommands = {"compact", "gc", "repack", "move", "rebalance"}
  Budgets <- Bounds
SPECIFICATION StoreSpec
INVARIANTS
  PacksTypeOK LiveReadable FormatCoversPacks AlwaysOpens MaintenanceConverges
  StoreTypes AckedFramesKept LiveDataKept OwnersAreCurrent
  RootsWhole SnapshotAcksKept SnapshotIsOneMoment ImportIsReadable
PROPERTY NothingLost
