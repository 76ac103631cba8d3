CONSTANTS
  h1 = h1
  h2 = h2
  w1 = w1
  w2 = w2
  Orphan = Orphan
  NoHolder = NoHolder
  Hist <- OneHistorian
  Wrap <- NoWrapups
  InitialCount = 3
  MaxMessage = 3
  MaxEdits = 1
  MaxCrashes = 0
  Slack = 0
  Events <- NoEvents
SPECIFICATION Spec
PROPERTY HistorianSummarisesBranch
CHECK_DEADLOCK FALSE
