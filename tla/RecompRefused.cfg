CONSTANTS
  c1 = c1
  c2 = c2
  Historian = Historian
  Orphan = Orphan
  NoHolder = NoHolder
  Cmd <- OneCommand
  MaxMessage = 2
  MaxCrashes = 1
  LiveExpiry = FALSE
SPECIFICATION Spec
PROPERTY RefusalKeepsStaging
CHECK_DEADLOCK FALSE
