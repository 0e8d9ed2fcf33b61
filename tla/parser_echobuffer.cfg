SPECIFICATION Spec
CONSTANTS
  Docs <- MCDocs
  ChunkSizes <- MCChunkSizes
  SIZE = 16
INVARIANT EchobufferAllocated
CHECK_DEADLOCK FALSE
