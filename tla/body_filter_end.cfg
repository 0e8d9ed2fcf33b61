SPECIFICATION Spec
CONSTANTS
  MaxTokens = 4
  MaxCalls = 2
  SIZE = 2
  TagNames <- MCTagNames
  WellNested = TRUE
  CutsWithinTags = FALSE
  CallsAfterLast = FALSE
INVARIANT EndReached
CHECK_DEADLOCK FALSE
