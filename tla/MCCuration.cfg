SPECIFICATION MCSpec
CONSTANTS
  curator = curator op1 = op1 s1 = s1 usdc = usdc ausd = ausd o1 = o1 o2 = o2 o3 = o3
  Services = {s1} Assets = {usdc, ausd} Accounts = {op1, curator}
  NoAccount = NoAccount CurationAuthority = curator Unseen = Unseen
  Timelock = 2 MaxWindow = 2 DefaultWindow = 1
  Prices = {0, 1} RawWindows = {0, 2, 3} MaxChanges = 2 MaxTime = 5
  Owners = {o1, o2, o3} Threshold = 2 MaxConfirmations = 255
  Calls <- Promotions
SYMMETRY Symmetry
INVARIANTS ExecutedHasQuorum TermsAreNoticed
PROPERTY TierTakesQuorumAndNotice
CHECK_DEADLOCK FALSE
