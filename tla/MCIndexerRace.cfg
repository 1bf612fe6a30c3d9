SPECIFICATION FairIndexerSpec
CONSTANTS
  Window = 2 Chunk = 3 FastChunk = 0 LiveWindow = 1
  MaxAnchors = 1 MaxHead = 5 MaxReorgs = 1 MaxFailures = 0
PROPERTIES DeepIsCaught
CHECK_DEADLOCK FALSE
