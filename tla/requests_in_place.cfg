SPECIFICATION Spec
CONSTANTS
  Blocks = 3
  Directives <- OneDirective
  MaxWritten = 1
  Pages <- MCPages
  Page <- MCPage
  NoSrc = NoSrc
  MaxRequests = 4
  SIZE = 2
  MaxCuts = 1
INVARIANT IncludesInPlace
CHECK_DEADLOCK FALSE
