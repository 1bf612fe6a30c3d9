SPECIFICATION CalmSpec
CONSTANTS
  c1 = c1 c2 = c2 Nothing = Nothing
  Calls = {c1}
  MaxCatchUpBlocks = 1 MaxHistory = 512 MaxHead = 4 MaxRecords = 3
INVARIANT HeldIsComplete
CHECK_DEADLOCK FALSE
