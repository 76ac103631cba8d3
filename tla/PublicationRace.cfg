CONSTANTS
  h1 = h1
  h2 = h2
  w1 = w1
  w2 = w2
  Orphan = Orphan
  NoHolder = NoHolder
  Hist <- Historians
  Wrap <- OneWrapup
  InitialCount = 3
  MaxMessage = 3
  MaxEdits = 0
  MaxCrashes = 1
  Slack = 0
  Events <- RowEvents
SPECIFICATION Spec
INVARIANTS TypeOK PublisherIsCurrent WrapupOwnsPublication
PROPERTY HistoryIsLog
CHECK_DEADLOCK FALSE
SYMMETRY Symmetry
