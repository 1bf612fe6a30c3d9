SPECIFICATION MCSpec
CONSTANTS
  Kinds = {"SettlementWindow", "Collection"} a1 = a1 s1 = s1 op1 = op1 op2 = op2 usdc = usdc
  Agents = {a1} Services = {s1} Assets = {usdc} Accounts = {op1, op2}
  NoAccount = NoAccount WiringAuthority = op1 Surface = op1 CurationAuthority = op2
  Baseline = 2 GrowthFactorBps = 0 MaxAmount = 4 MaxCount = 3
  Units = {1} Prices = {0, 1} Stakes = {0, 1, 2, 3, 4} Windows = {0, 1, 2}
  Ceilings = {2} Terms = {4}
  Nonces = {} Payments = {1} MaxBatch = 0 MaxSigned = 0 Tokens = 4
  NoBatch = NoBatch MaxTime = 5
  Timelock = 3 MaxWindow = 2 DefaultWindow = 1 RawWindows = {0, 2, 3} MaxChanges = 1
  Escrow = Escrow Amounts = {0, 1, 2, 3, 4}
  Day = 1 MaxCounterparties = 32 MaxHistory = 512
INVARIANTS DebtIsPayable StakesAreHeld
PROPERTIES BookAssumptionsHold NeverMarkedEarly CreditWithinStakes
CHECK_DEADLOCK FALSE
