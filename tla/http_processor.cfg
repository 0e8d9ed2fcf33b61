SPECIFICATION Spec
CONSTANTS
  Requests = {r1, r2, r3}
  TIMEOUT = TIMEOUT
  MaxDepth = 4
INVARIANTS
  TypeOK
  StartedCounts
  AnsweredAtEnd
PROPERTY Ends
CHECK_DEADLOCK FALSE
