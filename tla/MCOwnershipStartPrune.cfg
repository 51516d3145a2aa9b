CONSTANTS
  s = s
  t = t
  g = g
  h = h
  v = v
  Procs = {s, g, v}
  Scenarios <- StartBesidePrune
  Existing = {old, older}
  Junk = {junk}
  MaxFrames = 5
SPECIFICATION Spec
CHECK_DEADLOCK FALSE
INVARIANT LiveDataKept
