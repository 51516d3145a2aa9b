CONSTANTS
  s = s
  t = t
  g = g
  h = h
  v = v
  Procs = {s, t}
  Scenarios <- RepairBesideServer
  Existing = {old, older}
  Junk = {junk}
  MaxFrames = 5
SPECIFICATION Spec
CHECK_DEADLOCK FALSE
INVARIANT AckedFramesKept
