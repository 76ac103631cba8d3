CONSTANTS
  MaxMessage = 3
  MaxRare = 1
  Retries = 2
  Sibling = TRUE
SPECIFICATION FairSpec
INVARIANTS ContextTypeOK WholeContext CacheCoherent
PROPERTIES CutWasShown MarkerNotLost QuietPassIsStable FoldsAreCaused AppliedDropsShown DrainedIsShown MarkerDrains LatestShown
CHECK_DEADLOCK FALSE
