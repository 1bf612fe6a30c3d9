SPECIFICATION MCSpec
CONSTANTS
  a1 = a1 s1 = s1 s2 = s2 op1 = op1 op2 = op2 usdc = usdc n1 = n1 j1 = j1 j2 = j2
  Agents = {a1} Services = {s1, s2} Assets = {usdc} Accounts = {op1, op2}
  NoAccount = NoAccount WiringAuthority = op1 Surface = op1
  CollectionOf <- OwnCollections
  Baseline = 2 GrowthFactorBps = 0 MaxAmount = 8 MaxCount = 4
  Units = {1} Prices = {1} Stakes = {6} Windows = {1}
  Ceilings = {8} Terms = {1}
  Payments = {1, 2} MaxBatch = 2 MaxSigned = 4 Tokens = 3
  Nonces <- AttemptsAndOne NoBatch = NoBatch MaxTime = 2
  Jobs = {j1, j2} TabOf <- OneTab AtBaseUnits = 1
  FundingTokens = 5 MaxFunding = 2 MinDelivery = 1 Outside = Outside
  Day = 1 MaxCounterparties = 32 MaxHistory = 512
INVARIANTS MoneyIsAccountedFor SignatureSettlesOnce AnswersAreTrue
PROPERTIES AloneItIsExact EveryCallEnds
CHECK_DEADLOCK FALSE
