CONSTANTS
  bun = bun
  node = node
  msg1 = msg1
  call = call
  msg2 = msg2
  msg3 = msg3
  Process <- Processes
  Part <- Parts
  Tools <- ToolParts
  Branch <- Branches
  Recognises <- BunOnly
  Retries = 2
  Margin = 0
  MaxRare = 1
SPECIFICATION FairSpec
INVARIANTS TagTypeOK NumberNamesOne RowsAreFew NumbersFollowBranch FloorCoversWire
PROPERTIES BindingsConverge WireIsTagged
CHECK_DEADLOCK FALSE
