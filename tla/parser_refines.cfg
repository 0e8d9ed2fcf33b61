SPECIFICATION Spec
CONSTANTS
  Docs <- MCDocs
  ChunkSizes <- MCChunkSizes
  SIZE = 16
INVARIANTS
  TypeOK
  PointersInBuffer
  InOrder
  MarkupReported
PROPERTY ImplementsStream
CHECK_DEADLOCK FALSE
