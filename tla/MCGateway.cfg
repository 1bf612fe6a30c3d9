SPECIFICATION FairGatewaySpec
CONSTANTS
  Nothing = Nothing Failed = Failed
  Requests <- AllRequests Calls <- TwoCalls Posts <- TwoPosts Loads <- MixedLoads
  Headroom = 1 MaxSettles = 1 MaxPaid = 2 MaxWrites = 4 RecheckTicks = 2
  MaxOutside = 1 MaxLost = 1 MaxRestarts = 1 MaxOthers = 1
  CacheTime = 1 ReadTime = 1 MaxDelegation = 4 MaxNow = 3
INVARIANTS OneTransactionEach RelayTellsTheTruth RatedInOrder
PROPERTIES ImplementsMeteredCall DelegateStoodLately EveryoneIsServed
CHECK_DEADLOCK FALSE
