CONSTANTS
  MaxModels = 1
  Cap <- SmallCap
  Budget <- SmallBudget
  MaxEligible = 1
  MaxRetries = 1
  Fallbacks = 1
  MaxTokens = 2
SPECIFICATION FairSpec
INVARIANTS PassTypeOK RetryTreeBounded EditorRefinesValidated
PROPERTIES QuotaIsKept FailureBacksOff PassEnds LatchEnds
CHECK_DEADLOCK FALSE
