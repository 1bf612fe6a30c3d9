SPECIFICATION FairIndexerSpec
CONSTANTS
  Window = 2 Chunk = 3 FastChunk = 4 LiveWindow = 1
  MaxAnchors = 1 MaxHead = 5 MaxReorgs = 2 MaxFailures = 1
INVARIANTS UntouchedRowsStand
PROPERTIES StaleRowsGo RowsConverge
CHECK_DEADLOCK FALSE
