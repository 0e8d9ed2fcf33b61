SPECIFICATION Spec
CONSTANTS
  Docs <- MCDocs
  ChunkSizes <- MCChunkSizes
  SIZE = 16
PROPERTY HeldBackIsKept
CHECK_DEADLOCK FALSE
