SPECIFICATION Spec
CONSTANTS
  MaxTokens = 6
  MaxCalls = 2
  SIZE = 2
  TagNames <- MCTagNames
  WellNested = TRUE
  CutsWithinTags = FALSE
  CallsAfterLast = FALSE
INVARIANTS
  TypeOK
  TagsTracked
PROPERTY ImplementsRendering
CHECK_DEADLOCK FALSE
