SPECIFICATION Spec
CONSTANTS
  Docs <- MCDocs
  ChunkSizes <- MCChunkSizes
  SIZE = 16
INVARIANT FinishSendsAll
CHECK_DEADLOCK FALSE
