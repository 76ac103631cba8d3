CONSTANTS
  c1 = c1
  c2 = c2
  Historian = Historian
  Orphan = Orphan
  NoHolder = NoHolder
  Cmd <- TwoCommands
  MaxMessage = 3
  MaxCrashes = 0
  LiveExpiry = TRUE
SPECIFICATION Spec
INVARIANT LiveContiguous
CHECK_DEADLOCK FALSE
