SPECIFICATION HistorySpec
CONSTANTS
  c1 = c1 c2 = c2 Nothing = Nothing
  Calls = {c1, c2}
  MaxCatchUpBlocks = 1 MaxHistory = 512 MaxHead = 3 MaxRecords = 2
SYMMETRY Symmetry
INVARIANTS ChainIsComplete QuietIsAccepted NoRecordTwice
CHECK_DEADLOCK FALSE
