SPECIFICATION Spec
CONSTANTS
  MaxTokens = 4
  MaxCalls = 2
  SIZE = 2
  TagNames <- MCTagNames
  WellNested = TRUE
  CutsWithinTags = TRUE
  CallsAfterLast = FALSE
INVARIANT RootWhileOpen
CHECK_DEADLOCK FALSE
