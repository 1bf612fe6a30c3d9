SPECIFICATION Spec
CONSTANTS
  s1 = s1
  s2 = s2
  s3 = s3
  Services = {s1, s2, s3}
  Amounts = {3, 13}
  Stakes = {0, 2, 9}
  Baseline = 5
  GrowthFactorBps = 5000
  MaxRecords = 3
  MaxTime = 46
  Day = 1
  MaxCounterparties = 32
  MaxHistory = 512
  MaxN = 5
  MaxC = 9
  Baselines = {0, 1, 2, 3, 4, 5}
SYMMETRY Symmetry
INVARIANTS
  ConcentrationIsGreatestAllowed
  SplittingNeverRaises
PROPERTIES
  LimitNeverFalls
CHECK_DEADLOCK FALSE
