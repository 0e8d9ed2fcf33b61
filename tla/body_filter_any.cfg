SPECIFICATION Spec
CONSTANTS
  MaxTokens = 6
  MaxCalls = 2
  SIZE = 2
  TagNames <- FewTagNames
  WellNested = FALSE
  CutsWithinTags = TRUE
  CallsAfterLast = TRUE
INVARIANTS
  OpenTagInList
  TextInOrder
CHECK_DEADLOCK FALSE
