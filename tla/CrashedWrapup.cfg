CONSTANTS
  h1 = h1
  h2 = h2
  w1 = w1
  w2 = w2
  Orphan = Orphan
  NoHolder = NoHolder
  Hist <- OneHistorian
  Wrap <- OneWrapup
  InitialCount = 3
  MaxMessage = 3
  MaxEdits = 0
  MaxCrashes = 1
  Slack = 0
  Events <- NoEvents
SPECIFICATION FairSpec
PROPERTY CrashedWrapupReleasesTrigger
CHECK_DEADLOCK FALSE
