SPECIFICATION Spec
CONSTANTS
  Blocks = 3
  Directives <- MCDirectives
  MaxWritten = 3
  Pages <- MCPages
  Page <- MCPage
  NoSrc = NoSrc
  MaxRequests = 3
  SIZE = 2
  MaxCuts = 1
INVARIANTS
  TypeOK
  SettingsInherited
  TypesInherited
  PagesRendered
  IncludesAsked
  LengthTrue
PROPERTY Answered
CHECK_DEADLOCK FALSE
