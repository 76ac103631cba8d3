CONSTANTS
  MaxMessage = 3
  MaxRare = 0
  Retries = 1
  Sibling = FALSE
SPECIFICATION Spec
INVARIANT NothingTwice
CHECK_DEADLOCK FALSE
