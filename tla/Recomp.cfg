CONSTANTS
  c1 = c1
  c2 = c2
  Historian = Historian
  Orphan = Orphan
  NoHolder = NoHolder
  Cmd <- TwoCommands
  MaxMessage = 3
  MaxCrashes = 1
  LiveExpiry = FALSE
SPECIFICATION FairSpec
INVARIANTS RecompTypeOK LiveContiguous WorkIsStaged
PROPERTIES HistoryIsRebuiltWhole PromotedIsValidated RecompEnds
CHECK_DEADLOCK FALSE
