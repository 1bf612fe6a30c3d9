SPECIFICATION MCClockSpec
CONSTANTS
  a1 = a1
  s1 = s1
  s2 = s2
  s3 = s3
  op1 = op1
  op2 = op2
  usdc = usdc
  NoAccount = NoAccount
  Agents = {a1}
  Services = {s1, s2}
  Assets = {usdc}
  Accounts = {op1}
  WiringAuthority = op1
  OperatorOf <- OneOperator
  InitialStake = 2
  InitialTier = "Permissionless"
  Baseline = 2
  GrowthFactorBps = 5000
  MaxAmount = 2
  MaxCount = 2
  Units = {0, 1, 2}
  Prices = {1}
  Stakes = {0, 2}
  Windows = {1}
  Ceilings = {2}
  Terms = {0, 1}
  MaxTime = 2
  Day = 1
  MaxCounterparties = 32
  MaxHistory = 512
PROPERTY CreditBelowCapitalAtRisk
CHECK_DEADLOCK FALSE
