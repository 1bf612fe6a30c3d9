SPECIFICATION EarningSpec
CONSTANTS
  a1 = a1
  s1 = s1
  s2 = s2
  s3 = s3
  op1 = op1
  op2 = op2
  usdc = usdc
  NoAccount = NoAccount
  Agents = {a1}
  Services = {s1, s2, s3}
  Assets = {usdc}
  Accounts = {op1}
  WiringAuthority = op1
  OperatorOf <- OneOperator
  InitialStake = 9
  InitialTier = "Curated"
  Baseline = 12
  GrowthFactorBps = 20000
  MaxAmount = 20
  MaxCount = 3
  Units = {1, 4}
  Prices = {4}
  Stakes = {9}
  Windows = {1}
  Ceilings = {20}
  Terms = {3}
  MaxTime = 2
  Day = 1
  MaxCounterparties = 32
  MaxHistory = 512
SYMMETRY Symmetry
PROPERTIES
  BorrowingIsEarned
CHECK_DEADLOCK FALSE
