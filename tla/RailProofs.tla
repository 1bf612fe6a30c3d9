----------------------------- MODULE RailProofs -----------------------------
(***************************************************************************)
(* What TLAPS proves of the contracts together, for every value of their   *)
(* constants.                                                              *)
(***************************************************************************)
EXTENDS Rail, TabBookProofs

Listings == Services \X Assets
IsWindow(p, s) == p.serviceId = s /\ p.change.kind = "SettlementWindow"

-----------------------------------------------------------------------------
(* What a call of ServiceRegistry does.                                    *)

RegistryOK ==
  /\ collections \in [Listings -> Accounts \cup {NoAccount}]
  /\ prices \in [Listings -> Prices]
  /\ services \in [Services -> Service]
  /\ pending \subseteq [id : Nat, serviceId : Services, change : Registry!Change, eta : Nat]
  /\ changeNonce \in Nat
  /\ \A l \in Listings : prices[l] # 0 => collections[l] # NoAccount

\* The part of the registry a call moves: the terms of one Service, which if it
\* exists keeps its operator, its bond account and the Assets it accepts, and
\* whose window changes to one that was announced and is due.
OnlyMoves(s) ==
  /\ \A u \in Services \ {s} : services'[u] = services[u]
  /\ \A l \in Listings :
       l[1] # s => prices'[l] = prices[l] /\ collections'[l] = collections[l]
  /\ services[s].exists =>
       /\ services'[s].exists
       /\ services'[s].operator = services[s].operator
       /\ services'[s].bondAccount = services[s].bondAccount
       /\ \A l \in Listings :
            l[1] = s /\ collections[l] # NoAccount => collections'[l] # NoAccount
       /\ \/ services'[s].settlementWindow = services[s].settlementWindow
          \/ \E p \in pending :
               /\ IsWindow(p, s) /\ now >= p.eta
               /\ services'[s].settlementWindow = Registry!WindowOf(p.change.raw)

RegistryMoves ==
  /\ RegistryOK'
  /\ \E s \in Services : OnlyMoves(s)
  /\ \A p \in pending' : p \in pending \/ p.eta = now + Timelock
  /\ UNCHANGED now

LEMMA RegisterMoves ==
  ASSUME RegistryOK, NEW caller \in Accounts, NEW s \in Services, NEW A \in SUBSET Assets,
         NEW hasTool \in BOOLEAN, NEW raw \in RawWindows,
         NEW collectionOf \in [A -> Accounts \cup {NoAccount}], NEW priceOf \in [A -> Prices],
         Registry!RegisterService(caller, s, collectionOf, hasTool, priceOf, raw)
  PROVE  RegistryMoves
<1> DEFINE entry == [exists |-> TRUE, operator |-> caller, bondAccount |-> caller,
                     tier |-> "Permissionless",
                     settlementWindow |-> Registry!WindowOf(raw)]
<1>1. /\ ~services[s].exists
      /\ Registry!WindowOf(raw) <= MaxWindow
      /\ \A a \in A : collectionOf[a] # NoAccount
      /\ services' = [services EXCEPT ![s] = entry]
      /\ collections' = [l \in Listings |-> IF l[1] = s /\ l[2] \in A
                                            THEN collectionOf[l[2]] ELSE collections[l]]
      /\ prices' = [l \in Listings |-> IF l[1] = s /\ l[2] \in A /\ hasTool
                                       THEN priceOf[l[2]] ELSE prices[l]]
      /\ UNCHANGED <<pending, changeNonce, now>>
  BY DEF Registry!RegisterService, Registry!MayRegister, Registry!Listings, Listings
<1>2. entry \in Service
  <2>1. Registry!WindowOf(raw) \in 0 .. MaxWindow
    <3>1. raw \in Nat /\ DefaultWindow \in Nat /\ MaxWindow \in Nat
      BY RailAssumption
    <3> QED BY <1>1, <3>1 DEF Registry!WindowOf
  <2> QED BY <2>1, RailAssumption DEF Service, Entry, Tiers
<1> HIDE DEF entry
<1>3. services' \in [Services -> Service] /\ \A u \in Services \ {s} : services'[u] = services[u]
  BY <1>1, <1>2 DEF RegistryOK
<1>4. ASSUME NEW l \in Listings
      PROVE  /\ collections'[l] \in Accounts \cup {NoAccount}
             /\ prices'[l] \in Prices
             /\ prices'[l] # 0 => collections'[l] # NoAccount
             /\ l[1] # s => prices'[l] = prices[l] /\ collections'[l] = collections[l]
  <2>1. CASE l[1] = s /\ l[2] \in A
    BY <1>1, <2>1 DEF RegistryOK
  <2>2. CASE ~(l[1] = s /\ l[2] \in A)
    BY <1>1, <2>2 DEF RegistryOK
  <2> QED BY <2>1, <2>2
<1>5. RegistryOK'
  <2>1. /\ collections' \in [Listings -> Accounts \cup {NoAccount}]
        /\ prices' \in [Listings -> Prices]
    BY <1>1, <1>4
  <2> QED BY <1>1, <1>3, <1>4, <2>1 DEF RegistryOK
<1> QED BY <1>1, <1>3, <1>4, <1>5 DEF RegistryMoves, OnlyMoves

LEMMA QueueMoves ==
  ASSUME RegistryOK, now \in Nat, NEW caller \in Accounts, NEW s \in Services,
         NEW change \in Registry!Change, Registry!QueueChange(caller, s, change)
  PROVE  RegistryMoves /\ UNCHANGED <<services, prices, collections>>
<1> DEFINE q == [id |-> changeNonce, serviceId |-> s, change |-> change, eta |-> now + Timelock]
<1>1. /\ pending' = pending \cup {q} /\ changeNonce' = changeNonce + 1
      /\ UNCHANGED <<services, collections, prices, now>>
  BY DEF Registry!QueueChange, Registry!Eta, Registry!termVars
<1>2. q \in [id : Nat, serviceId : Services, change : Registry!Change, eta : Nat]
  BY RailAssumption DEF RegistryOK
<1>3. RegistryOK'
  BY <1>1, <1>2 DEF RegistryOK
<1> QED BY <1>1, <1>3 DEF RegistryMoves, OnlyMoves

LEMMA CancelMoves ==
  ASSUME RegistryOK, NEW caller \in Accounts, NEW p \in pending,
         Registry!CancelChange(caller, p)
  PROVE  RegistryMoves /\ UNCHANGED <<services, prices, collections>>
<1>1. /\ pending' = pending \ {p} /\ UNCHANGED <<changeNonce, services, collections, prices, now>>
      /\ p.serviceId \in Services
  BY DEF Registry!CancelChange, Registry!termVars, RegistryOK
<1>2. RegistryOK'
  BY <1>1 DEF RegistryOK
<1> QED BY <1>1, <1>2 DEF RegistryMoves, OnlyMoves

LEMMA ApplyMoves ==
  ASSUME RegistryOK, NEW caller \in Accounts, NEW p \in pending,
         Registry!ApplyChange(caller, p)
  PROVE  RegistryMoves
<1> DEFINE s == p.serviceId
           change == p.change
<1>1. /\ s \in Services /\ change \in Registry!Change
      /\ now >= p.eta
      /\ Registry!WriteChange(s, change)
      /\ pending' = pending \ {p} /\ UNCHANGED <<changeNonce, now>>
      /\ change = p.change /\ s = p.serviceId
  BY DEF Registry!ApplyChange, RegistryOK
<1> HIDE DEF s, change
<1>2. Registry!CanWrite(s, change) /\ Registry!Decodes(s, change)
  BY <1>1 DEF Registry!WriteChange, Registry!CanWrite
<1>3. change.kind \in {"Tier", "Price", "Collection", "AcceptedAsset", "SettlementWindow"}
  BY <1>1 DEF Registry!Change
<1>4. CASE change.kind = "Tier"
  <2>1. change.to \in Tiers
    BY <1>1, <1>4 DEF Registry!Change, Registry!Tiers, Tiers
  <2>2. services' = [services EXCEPT ![s].tier = change.to] /\ UNCHANGED <<prices, collections>>
    BY <1>1, <1>4 DEF Registry!WriteChange
  <2>3. /\ services' \in [Services -> Service]
        /\ \A u \in Services : u # s => services'[u] = services[u]
        /\ services'[s].exists = services[s].exists
        /\ services'[s].operator = services[s].operator
        /\ services'[s].bondAccount = services[s].bondAccount
        /\ services'[s].settlementWindow = services[s].settlementWindow
    BY <1>1, <2>1, <2>2 DEF RegistryOK, Service, Entry
  <2>4. RegistryOK'
    BY <1>1, <2>2, <2>3 DEF RegistryOK
  <2> QED BY <1>1, <2>2, <2>3, <2>4 DEF RegistryMoves, OnlyMoves
<1>5. CASE change.kind = "SettlementWindow"
  <2>1. Registry!WindowOf(change.raw) \in 0 .. MaxWindow
    <3>1. change.raw \in RawWindows
      BY <1>1, <1>5 DEF Registry!Change
    <3>2. \A raw \in RawWindows :
            Registry!WindowOf(raw) <= MaxWindow => Registry!WindowOf(raw) \in 0 .. MaxWindow
      BY RailAssumption DEF Registry!WindowOf
    <3>3. Registry!WindowOf(change.raw) <= MaxWindow
      BY <1>2, <1>5 DEF Registry!Decodes
    <3> QED BY <3>1, <3>2, <3>3
  <2>2. /\ services' = [services EXCEPT ![s].settlementWindow = Registry!WindowOf(change.raw)]
        /\ UNCHANGED <<prices, collections>>
    BY <1>1, <1>5 DEF Registry!WriteChange
  <2>3. /\ services' \in [Services -> Service]
        /\ \A u \in Services : u # s => services'[u] = services[u]
        /\ services'[s].exists = services[s].exists
        /\ services'[s].operator = services[s].operator
        /\ services'[s].bondAccount = services[s].bondAccount
        /\ services'[s].settlementWindow = Registry!WindowOf(change.raw)
    <3>1. PICK window \in Windows : window = Registry!WindowOf(change.raw)
      BY <2>1, RailAssumption
    <3>2. services \in [Services -> Service]
      BY DEF RegistryOK
    <3> QED BY <1>1, <2>2, <3>1, <3>2 DEF Service, Entry
  <2>4. RegistryOK'
    BY <1>1, <2>2, <2>3 DEF RegistryOK
  <2>5. IsWindow(p, s)
    BY <1>1, <1>5 DEF IsWindow
  <2> QED BY <1>1, <2>2, <2>3, <2>4, <2>5 DEF RegistryMoves, OnlyMoves
<1>6. CASE change.kind = "Price"
  <2>1. /\ <<s, change.asset>> \in Listings /\ change.baseUnits \in Prices
        /\ collections[<<s, change.asset>>] # NoAccount
    BY <1>1, <1>2, <1>6 DEF Registry!Change, Registry!CanWrite, Listings
  <2>2. /\ prices' = [prices EXCEPT ![<<s, change.asset>>] = change.baseUnits]
        /\ UNCHANGED <<services, collections>>
    BY <1>1, <1>6 DEF Registry!WriteChange
  <2>3. /\ prices' \in [Listings -> Prices]
        /\ \A l \in Listings : l # <<s, change.asset>> => prices'[l] = prices[l]
    BY <2>1, <2>2 DEF RegistryOK
  <2>4. RegistryOK'
    BY <1>1, <2>1, <2>2, <2>3 DEF RegistryOK
  <2>5. \A l \in Listings : l[1] # s => prices'[l] = prices[l]
    BY <2>3
  <2> QED BY <1>1, <2>2, <2>4, <2>5 DEF RegistryMoves, OnlyMoves
<1>7. CASE change.kind \in {"Collection", "AcceptedAsset"}
  <2>1. <<s, change.asset>> \in Listings /\ change.to \in Accounts /\ change.to # NoAccount
    BY <1>1, <1>2, <1>7 DEF Registry!Change, Registry!Decodes, Listings
  <2>2. /\ collections' = [collections EXCEPT ![<<s, change.asset>>] = change.to]
        /\ UNCHANGED <<services, prices>>
    BY <1>1, <1>7 DEF Registry!WriteChange
  <2>3. /\ collections' \in [Listings -> Accounts \cup {NoAccount}]
        /\ \A l \in Listings : l # <<s, change.asset>> => collections'[l] = collections[l]
        /\ collections'[<<s, change.asset>>] # NoAccount
    BY <2>1, <2>2 DEF RegistryOK
  <2>4. RegistryOK'
    BY <1>1, <2>1, <2>2, <2>3 DEF RegistryOK
  <2>5. \A l \in Listings :
          /\ l[1] # s => collections'[l] = collections[l]
          /\ collections[l] # NoAccount => collections'[l] # NoAccount
    BY <2>3
  <2> QED BY <1>1, <2>2, <2>4, <2>5 DEF RegistryMoves, OnlyMoves
<1> QED BY <1>3, <1>4, <1>5, <1>6, <1>7

LEMMA RegistryCallMoves ==
  ASSUME RegistryOK, now \in Nat, RegistryCall
  PROVE  RegistryMoves
<1>1. CASE Registry!Register
  BY <1>1, RegisterMoves DEF Registry!Register
<1> QED BY <1>1, QueueMoves, CancelMoves, ApplyMoves DEF RegistryCall

-----------------------------------------------------------------------------
(* What a call of Bond does.                                               *)

Parties == Accounts \X Assets
Holders == (Agents \cup Accounts \cup {Escrow}) \X Assets
FreeIn(asset) == [a \in Accounts |-> free[<<a, asset>>]]

StakeOK ==
  /\ staked \in [Parties -> Amount] /\ withdrawn \in [Parties -> Amount]
  /\ free \in [Parties -> Amount]
  /\ \A k \in Parties : withdrawn[k] + free[k] = staked[k]
  /\ balances \in [Holders -> Nat]
  /\ \A asset \in Assets : balances[<<Escrow, asset>>] = SumOf(Accounts, FreeIn(asset))

\* What the escrow holds moves with what one party has free.
LEMMA HeldMoves ==
  ASSUME StakeOK, NEW account \in Accounts, NEW asset \in Assets, NEW d \in Int,
         free' \in [Parties -> Amount],
         \A k \in Parties : free'[k] = free[k] + (IF k = <<account, asset>> THEN d ELSE 0),
         \A u \in Assets : balances'[<<Escrow, u>>] =
                            balances[<<Escrow, u>>] + (IF u = asset THEN d ELSE 0)
  PROVE  \A u \in Assets : balances'[<<Escrow, u>>] = SumOf(Accounts, FreeIn(u)')
<1> SUFFICES ASSUME NEW u \in Assets
             PROVE  balances'[<<Escrow, u>>] = SumOf(Accounts, FreeIn(u)')
  OBVIOUS
<1>1. /\ \A a \in Accounts : FreeIn(u)[a] = free[<<a, u>>] /\ FreeIn(u)'[a] = free'[<<a, u>>]
      /\ \A a \in Accounts : <<a, u>> \in Parties
  BY DEF FreeIn, Parties
<1>2. Amount \subseteq Nat
  BY TabBookAssumption DEF Amount
<1>3. \A a \in Accounts : FreeIn(u)[a] \in Nat /\ FreeIn(u)'[a] \in Nat
  BY <1>1, <1>2 DEF StakeOK
<1>4. balances[<<Escrow, u>>] = SumOf(Accounts, FreeIn(u)) /\ SumOf(Accounts, FreeIn(u)) \in Nat
  BY <1>3, UnitsFinite, RailAssumption DEF StakeOK
<1>5. CASE u = asset
  <2>1. ASSUME NEW a \in Accounts \ {account}
        PROVE  FreeIn(u)'[a] = FreeIn(u)[a]
    <3>1. <<a, u>> \in Parties /\ <<a, u>> # <<account, asset>> /\ free[<<a, u>>] \in Nat
      BY <1>1, <1>3
    <3>2. free'[<<a, u>>] = free[<<a, u>>]
      BY <3>1
    <3> QED BY <1>1, <3>2
  <2>2. FreeIn(u)'[account] = FreeIn(u)[account] + d
    BY <1>1, <1>5
  <2>3. SumOf(Accounts, FreeIn(u)') =
          SumOf(Accounts, FreeIn(u)) + (FreeIn(u)'[account] - FreeIn(u)[account])
    BY <1>3, <2>1, SumChanges, RailAssumption
  <2> QED BY <1>3, <1>4, <1>5, <2>2, <2>3
<1>6. CASE u # asset
  <2>1. ASSUME NEW a \in Accounts
        PROVE  FreeIn(u)'[a] = FreeIn(u)[a]
    <3>1. <<a, u>> \in Parties /\ <<a, u>> # <<account, asset>> /\ free[<<a, u>>] \in Nat
      BY <1>1, <1>3, <1>6
    <3>2. free'[<<a, u>>] = free[<<a, u>>]
      BY <3>1
    <3> QED BY <1>1, <3>2
  <2>2. SumOf(Accounts, FreeIn(u)') = SumOf(Accounts, FreeIn(u))
    BY <2>1, SumSame
  <2> QED BY <1>4, <1>6, <2>2
<1> QED BY <1>5, <1>6

LEMMA DepositMoves ==
  ASSUME StakeOK, NEW payer \in Accounts, NEW account \in Accounts, NEW asset \in Assets,
         NEW amount \in Amount, Staking!Deposit(payer, account, asset, amount),
         free' = [k \in Parties |-> staked'[k] - withdrawn'[k]]
  PROVE  StakeOK' /\ \E k \in Parties, stake \in Stakes : free' = [free EXCEPT ![k] = stake]
<1> DEFINE k == <<account, asset>>
<1>1. /\ staked[k] + amount <= MaxAmount
      /\ staked' = [staked EXCEPT ![k] = @ + amount]
      /\ UNCHANGED withdrawn
      /\ balances[<<payer, asset>>] >= amount
      /\ balances' = [balances EXCEPT ![<<payer, asset>>] = @ - amount,
                                      ![<<Escrow, asset>>] = @ + amount]
  BY DEF Staking!Deposit, Staking!Transfer
<1>2. k \in Parties /\ <<payer, asset>> \in Holders /\ <<Escrow, asset>> \in Holders
      /\ payer # Escrow /\ amount \in Nat
  BY RailAssumption, TabBookAssumption DEF Parties, Holders, Amount
<1>3. \A j \in Parties : staked[j] \in Nat /\ withdrawn[j] \in Nat /\ free[j] \in Nat
                        /\ free[j] <= MaxAmount
  BY TabBookAssumption DEF StakeOK, Amount
<1>4. /\ staked' \in [Parties -> Amount]
      /\ staked'[k] = staked[k] + amount
      /\ \A j \in Parties : j # k => staked'[j] = staked[j]
  <2>1. staked[k] + amount \in Amount
    BY <1>1, <1>2, <1>3, TabBookAssumption DEF Amount
  <2> HIDE DEF k
  <2> QED BY <1>1, <1>2, <2>1 DEF StakeOK
<1> HIDE DEF k
<1>5. \A j \in Parties : free'[j] = free[j] + (IF j = k THEN amount ELSE 0)
  BY <1>1, <1>2, <1>3, <1>4 DEF StakeOK
<1>6. free' \in [Parties -> Amount] /\ free' = [free EXCEPT ![k] = free[k] + amount]
      /\ free[k] + amount \in Amount
  <2>1. free[k] + amount \in Amount
    BY <1>1, <1>2, <1>3, TabBookAssumption DEF StakeOK, Amount
  <2>2. \A j \in Parties : free'[j] \in Amount
    <3> SUFFICES ASSUME NEW j \in Parties PROVE free'[j] \in Amount
      OBVIOUS
    <3>1. CASE j = k
      BY <1>5, <2>1, <3>1
    <3>2. CASE j # k
      BY <1>3, <1>5, <3>2, TabBookAssumption DEF Amount
    <3> QED BY <3>1, <3>2
  <2>3. \A j \in Parties : free'[j] = [free EXCEPT ![k] = free[k] + amount][j]
    BY <1>3, <1>5 DEF StakeOK
  <2> QED BY <2>1, <2>2, <2>3 DEF StakeOK
<1>7. /\ balances' \in [Holders -> Nat]
      /\ \A u \in Assets : balances'[<<Escrow, u>>] =
                            balances[<<Escrow, u>>] + (IF u = asset THEN amount ELSE 0)
  <2>1. balances' \in [Holders -> Nat]
    BY <1>1, <1>2 DEF StakeOK
  <2>2. \A u \in Assets : <<Escrow, u>> \in Holders /\ balances[<<Escrow, u>>] \in Nat
    BY DEF Holders, StakeOK
  <2> QED BY <1>1, <1>2, <2>1, <2>2 DEF StakeOK
<1>8. \A u \in Assets : balances'[<<Escrow, u>>] = SumOf(Accounts, FreeIn(u)')
  BY <1>2, <1>5, <1>6, <1>7, HeldMoves DEF k
<1>9. \A j \in Parties : withdrawn'[j] + free'[j] = staked'[j]
  <2>1. \A j \in Parties : withdrawn[j] + free[j] = staked[j]
    BY DEF StakeOK
  <2> QED BY <1>1, <1>2, <1>3, <1>4, <1>5, <2>1
<1>10. StakeOK'
  BY <1>1, <1>4, <1>6, <1>7, <1>8, <1>9 DEF StakeOK
<1> QED BY <1>2, <1>6, <1>10, RailAssumption

LEMMA WithdrawMoves ==
  ASSUME StakeOK, NEW account \in Accounts, NEW asset \in Assets,
         NEW amount \in Amount, Staking!Withdraw(account, asset, amount),
         free' = [k \in Parties |-> staked'[k] - withdrawn'[k]]
  PROVE  StakeOK' /\ \E k \in Parties, stake \in Stakes : free' = [free EXCEPT ![k] = stake]
<1> DEFINE k == <<account, asset>>
           released == Staking!Released(k, amount)
<1>1. /\ withdrawn[k] + released <= MaxAmount
      /\ withdrawn' = [withdrawn EXCEPT ![k] = @ + released]
      /\ UNCHANGED staked
      /\ balances[<<Escrow, asset>>] >= released
      /\ balances' = [balances EXCEPT ![<<Escrow, asset>>] = @ - released,
                                      ![<<account, asset>>] = @ + released]
  BY DEF Staking!Withdraw, Staking!Transfer
<1>2. k \in Parties /\ <<account, asset>> \in Holders /\ <<Escrow, asset>> \in Holders
      /\ account # Escrow /\ amount \in Nat
  BY RailAssumption, TabBookAssumption DEF Parties, Holders, Amount
<1>3. \A j \in Parties : staked[j] \in Nat /\ withdrawn[j] \in Nat /\ free[j] \in Nat
                        /\ free[j] <= MaxAmount /\ withdrawn[j] + free[j] = staked[j]
  BY TabBookAssumption DEF StakeOK, Amount
<1>4. released \in Nat /\ released <= free[k]
  BY <1>2, <1>3 DEF Staking!Released, Staking!Free
<1> HIDE DEF k, released
<1>5. /\ withdrawn' \in [Parties -> Amount]
      /\ withdrawn'[k] = withdrawn[k] + released
      /\ \A j \in Parties : j # k => withdrawn'[j] = withdrawn[j]
  <2>1. withdrawn[k] + released \in Amount
    BY <1>1, <1>2, <1>3, <1>4, TabBookAssumption DEF Amount
  <2> QED BY <1>1, <1>2, <2>1 DEF StakeOK
<1>6. \A j \in Parties : free'[j] = free[j] + (IF j = k THEN -released ELSE 0)
  BY <1>1, <1>2, <1>3, <1>4, <1>5
<1>7. free' \in [Parties -> Amount] /\ free' = [free EXCEPT ![k] = free[k] - released]
      /\ free[k] - released \in Amount
  <2>1. free[k] - released \in Amount
    BY <1>2, <1>3, <1>4, TabBookAssumption DEF Amount
  <2>2. \A j \in Parties : free'[j] \in Amount
    <3> SUFFICES ASSUME NEW j \in Parties PROVE free'[j] \in Amount
      OBVIOUS
    <3>1. CASE j = k
      <4>1. free'[k] = free[k] - released
        BY <1>2, <1>3, <1>4, <1>6
      <4> QED BY <2>1, <3>1, <4>1
    <3>2. CASE j # k
      BY <1>3, <1>6, <3>2, TabBookAssumption DEF Amount
    <3> QED BY <3>1, <3>2
  <2>3. \A j \in Parties : free'[j] = [free EXCEPT ![k] = free[k] - released][j]
    BY <1>3, <1>4, <1>6 DEF StakeOK
  <2> QED BY <2>1, <2>2, <2>3 DEF StakeOK
<1>8. /\ balances' \in [Holders -> Nat]
      /\ \A u \in Assets : balances'[<<Escrow, u>>] =
                            balances[<<Escrow, u>>] + (IF u = asset THEN -released ELSE 0)
  <2>1. balances' \in [Holders -> Nat]
    BY <1>1, <1>2, <1>4 DEF StakeOK
  <2>2. \A u \in Assets : <<Escrow, u>> \in Holders /\ balances[<<Escrow, u>>] \in Nat
    BY DEF Holders, StakeOK
  <2> QED BY <1>1, <1>2, <1>4, <2>1, <2>2 DEF StakeOK
<1>9. \A u \in Assets : balances'[<<Escrow, u>>] = SumOf(Accounts, FreeIn(u)')
  BY <1>2, <1>4, <1>6, <1>7, <1>8, HeldMoves DEF k
<1>10. \A j \in Parties : withdrawn'[j] + free'[j] = staked'[j]
  BY <1>1, <1>2, <1>3, <1>4, <1>5, <1>6
<1>11. StakeOK'
  BY <1>1, <1>5, <1>7, <1>8, <1>9, <1>10 DEF StakeOK
<1> QED BY <1>2, <1>7, <1>11, RailAssumption

LEMMA BondMoves ==
  ASSUME StakeOK, Staking!BondNext, free' = [k \in Staking!Parties |-> Staking!Free(k)']
  PROVE  StakeOK' /\ \E k \in Parties, stake \in Stakes : free' = [free EXCEPT ![k] = stake]
<1>1. free' = [k \in Parties |-> staked'[k] - withdrawn'[k]]
  BY DEF Staking!Parties, Staking!Free, Parties
<1> QED BY <1>1, DepositMoves, WithdrawMoves, RailAssumption DEF Staking!BondNext

-----------------------------------------------------------------------------
(* What a call of TabBook or TabSettlement does to a tab.                  *)

\* A set of numbers has a smallest one: of the intervals 1 .. n none is a strict
\* part of the others.
LEMMA MinOfNat ==
  ASSUME NEW S, S \subseteq Nat, S # {}
  PROVE  Min(S) \in S /\ \A y \in S : Min(S) <= y
<1> DEFINE T == {1 .. n : n \in S}
<1>1. T \subseteq FiniteSubsetsOf(Nat) /\ T # {}
  <2>1. ASSUME NEW n \in S PROVE 1 .. n \in FiniteSubsetsOf(Nat)
    <3>1. n \in Int /\ 1 \in Int /\ 1 .. n \subseteq Nat
      OBVIOUS
    <3>2. IsFiniteSet(1 .. n)
      BY <3>1, FS_Interval
    <3> QED BY <3>1, <3>2 DEF FiniteSubsetsOf
  <2> QED BY <2>1
<1> HIDE DEF T
<1>2. PICK x \in T : \A y \in T : ~(<<y, x>> \in StrictSubsetOrdering(Nat))
  BY <1>1, FS_StrictSubsetOrderingWellFounded, WFMin
<1>3. PICK m \in S : x = 1 .. m
  BY DEF T
<1>4. ASSUME NEW y \in S PROVE m <= y
  <2> SUFFICES ASSUME y < m PROVE FALSE
    OBVIOUS
  <2>1. 1 .. y \in T
    BY DEF T
  <2>2. 1 .. y \subseteq 1 .. m /\ m \in 1 .. m /\ m \notin 1 .. y
    OBVIOUS
  <2>3. 1 .. y \in SUBSET Nat /\ 1 .. m \in SUBSET Nat
    OBVIOUS
  <2>4. <<1 .. y, 1 .. m>> \in StrictSubsetOrdering(Nat)
    BY <2>2, <2>3 DEF StrictSubsetOrdering
  <2> QED BY <1>2, <1>3, <2>1, <2>4
<1> QED BY <1>4 DEF Min

\* A tab may be paid, or marked when its window has passed,
Ages(t) ==
  /\ tabs'[t].open # 0 => tabs[t].open # 0
  /\ tabs'[t].oldestUnsettledAt # 0 => tabs'[t].oldestUnsettledAt = tabs[t].oldestUnsettledAt
  /\ tabs'[t].delinquent /\ ~tabs[t].delinquent =>
       /\ now' = now
       /\ tabs[t].oldestUnsettledAt # 0
       /\ now >= tabs[t].oldestUnsettledAt + services[t[2]].settlementWindow

\* or delivered to, which starts its clock if it does not run.
Delivered(t) ==
  /\ services[t[2]].exists /\ prices[<<t[2], t[3]>>] # 0
  /\ ~tabs'[t].delinquent /\ ~tabs[t].delinquent
  /\ \/ tabs'[t].oldestUnsettledAt = tabs[t].oldestUnsettledAt
     \/ tabs[t].oldestUnsettledAt = 0 /\ tabs'[t].oldestUnsettledAt = now
  /\ now' = now

TabsMove ==
  /\ \A t \in Tabs : Ages(t) \/ Delivered(t)
  /\ UNCHANGED <<services, prices, free>>
  /\ now' >= now

LEMMA CallMoves ==
  ASSUME IInv, BookCall \/ Tick
  PROVE  TabsMove
<1>1. TypeOK /\ now \in Nat
  BY TabBookAssumption DEF IInv, TypeOK
<1>2. ASSUME NEW caller \in Accounts, NEW u \in Tabs, NEW units \in Units,
             NEW price \in Prices, NEW witness, NEW cited,
             RecordDelivery(caller, u, units, price, witness, cited)
      PROVE  TabsMove
  <2>1. /\ tabs' = [tabs EXCEPT ![u] =
                      TabAfterDelivery(tabs[u], units * prices[<<u[2], u[3]>>])]
        /\ services[u[2]].exists /\ ~tabs[u].delinquent /\ prices[<<u[2], u[3]>>] # 0
        /\ UNCHANGED <<services, prices, free, now>>
    BY <1>2 DEF RecordDelivery, MayMeter, IsQuoted, envVars
  <2>2. tabs'[u] = TabAfterDelivery(tabs[u], units * prices[<<u[2], u[3]>>])
        /\ \A t \in Tabs : t # u => tabs'[t] = tabs[t]
    BY <1>1, <2>1 DEF TypeOK
  <2>3. Delivered(u)
    BY <2>1, <2>2 DEF Delivered, TabAfterDelivery
  <2>4. \A t \in Tabs : t # u => Ages(t)
    BY <2>2 DEF Ages
  <2> QED BY <1>1, <2>1, <2>3, <2>4 DEF TabsMove
<1>3. ASSUME NEW u \in Tabs, MarkDelinquent(u)
      PROVE  TabsMove
  <2>1. /\ tabs' = [tabs EXCEPT ![u].delinquent = TRUE]
        /\ tabs[u].oldestUnsettledAt # 0
        /\ now >= tabs[u].oldestUnsettledAt + services[u[2]].settlementWindow
        /\ UNCHANGED <<services, prices, free, now>>
    BY <1>3 DEF MarkDelinquent, CanMark, envVars
  <2>2. /\ tabs'[u].open = tabs[u].open
        /\ tabs'[u].oldestUnsettledAt = tabs[u].oldestUnsettledAt
        /\ \A t \in Tabs : t # u => tabs'[t] = tabs[t]
    BY <1>1, <2>1 DEF TypeOK, Tab
  <2>3. \A t \in Tabs : Ages(t)
    BY <2>1, <2>2 DEF Ages
  <2> QED BY <1>1, <2>1, <2>3 DEF TabsMove
<1>4. CASE UNCHANGED <<tabs, services, prices, free>> /\ now' >= now
  BY <1>4 DEF TabsMove, Ages
<1>5. ASSUME NEW caller, NEW surface, SetSettlementSurface(caller, surface)
      PROVE  TabsMove
  BY <1>1, <1>4, <1>5 DEF SetSettlementSurface, envVars
<1>6. ASSUME NEW t, NEW m, NEW expiry, Authorise(t, m, expiry)
      PROVE  TabsMove
  BY <1>1, <1>4, <1>6 DEF Authorise, envVars
<1>7. CASE Tick
  BY <1>1, <1>4, <1>7 DEF Tick, bookVars
<1> QED BY <1>2, <1>3, <1>5, <1>6, <1>7 DEF BookCall

LEMMA PayMoves ==
  ASSUME IInv, NEW u \in Tabs, NEW amount \in Amount, Pay(u, amount)
  PROVE  /\ TabsMove /\ UNCHANGED now
         /\ \A t \in Tabs : Ages(t)
         /\ Transfer(u[1], collections[<<u[2], u[3]>>], u[3], amount)
         /\ collections[<<u[2], u[3]>>] # NoAccount
<1>1. /\ TypeOK /\ now \in Nat /\ tabs[u] \in Tab /\ amount \in Nat
      /\ tabs[u].open \in Nat /\ tabs[u].delinquent \in BOOLEAN
  BY TabBookAssumption DEF IInv, TypeOK, Tab, Amount
<1>2. /\ tabs' = [tabs EXCEPT ![u] = TabAfterSettlement(tabs[u], amount)]
      /\ tabs[u].prepaid + (amount - Applied(tabs[u], amount)) <= MaxAmount
      /\ UNCHANGED <<services, prices, free, now>>
      /\ Transfer(u[1], collections[<<u[2], u[3]>>], u[3], amount)
      /\ collections[<<u[2], u[3]>>] # NoAccount
  BY DEF Pay, ApplySettlement, envVars
<1>3. Applied(tabs[u], amount) \in 0 .. tabs[u].open
  BY <1>1, <1>2, SettlementType
<1>4. /\ tabs'[u].open = tabs[u].open - Applied(tabs[u], amount)
      /\ tabs'[u].oldestUnsettledAt = IF ClosesTab(tabs[u], amount) THEN 0
                                      ELSE tabs[u].oldestUnsettledAt
      /\ tabs'[u].delinquent => tabs[u].delinquent
      /\ \A t \in Tabs : t # u => tabs'[t] = tabs[t]
  BY <1>1, <1>2 DEF TypeOK, Tab, TabAfterSettlement
<1>5. Ages(u)
  BY <1>1, <1>3, <1>4 DEF Ages
<1>6. \A t \in Tabs : t # u => Ages(t)
  BY <1>4 DEF Ages
<1> QED BY <1>1, <1>2, <1>5, <1>6 DEF TabsMove

\* An Agent pays a Collection address.
Paying ==
  \E agent \in Agents, l \in Listings, asset \in Assets, amount \in Amount :
    collections[l] # NoAccount /\ Transfer(agent, collections[l], asset, amount)

\* What a step does to the batch.
BatchMoves ==
  \/ batch = NoBatch /\ batch' = NoBatch
  \/ batch = NoBatch /\ UNCHANGED <<vars, balances>> /\ batch'.before = Ledger
  \/ /\ batch # NoBatch
     /\ batch' = NoBatch \/ batch'.before = batch.before
     /\ UNCHANGED now /\ \A t \in Tabs : Ages(t)

LEMMA SettlementMoves ==
  ASSUME SettlementInv1, SettlementNext, ~BatchReverts
  PROVE  TabsMove /\ UNCHANGED collections /\ (Paying \/ UNCHANGED balances) /\ BatchMoves
<1> USE DEF SettlementInv1
<1>1. ASSUME NEW t \in Tabs, NEW amount \in Amount, Pay(t, amount)
      PROVE  TabsMove /\ Paying /\ UNCHANGED now /\ \A u \in Tabs : Ages(u)
  <2>1. /\ TabsMove /\ UNCHANGED now /\ \A u \in Tabs : Ages(u)
        /\ Transfer(t[1], collections[<<t[2], t[3]>>], t[3], amount)
        /\ collections[<<t[2], t[3]>>] # NoAccount
    BY <1>1, PayMoves
  <2>2. t[1] \in Agents /\ <<t[2], t[3]>> \in Listings /\ t[3] \in Assets
    BY DEF Tabs, Listings
  <2> QED BY <2>1, <2>2 DEF Paying
<1>2. ASSUME UNCHANGED vars PROVE TabsMove /\ \A t \in Tabs : Ages(t)
  <2>1. now \in Nat /\ UNCHANGED <<tabs, services, prices, free, now>>
    BY <1>2, TabBookAssumption DEF IInv, TypeOK, vars, bookVars, envVars
  <2>2. \A t \in Tabs : Ages(t)
    BY <2>1 DEF Ages
  <2>3. now' >= now
    BY <2>1
  <2> QED BY <2>1, <2>2, <2>3 DEF TabsMove
<1>3. ASSUME NEW t \in Tabs, NEW amount \in Payments, Settle(t, amount)
      PROVE  TabsMove /\ UNCHANGED collections /\ Paying /\ BatchMoves
  BY <1>1, <1>3, TabSettlementAssumption DEF Settle, BatchMoves
<1>4. ASSUME NEW p \in Permit, Sign(p)
      PROVE  TabsMove /\ UNCHANGED <<collections, balances>> /\ BatchMoves
  BY <1>2, <1>4 DEF Sign, BatchMoves
<1>5. ASSUME NEW p \in Permit, SettleWithPermit2(p)
      PROVE  TabsMove /\ UNCHANGED collections /\ Paying /\ BatchMoves
  <2>1. <<p.agent, p.serviceId, p.asset>> \in Tabs /\ p.amount \in Amount
    BY TabSettlementAssumption DEF Permit, Tabs
  <2> QED BY <1>1, <1>5, <2>1 DEF SettleWithPermit2, BatchMoves
<1>6. ASSUME NEW agent, NEW instructions, BatchBegins(agent, instructions)
      PROVE  TabsMove /\ UNCHANGED <<collections, balances>> /\ BatchMoves
  <2>1. /\ UNCHANGED <<vars, balances, collections>> /\ batch = NoBatch
        /\ batch' = [agent |-> agent, rest |-> instructions, before |-> Ledger]
    BY <1>6 DEF BatchBegins
  <2>2. batch'.before = Ledger
    BY <2>1
  <2> QED BY <1>2, <2>1, <2>2 DEF BatchMoves
<1>7. CASE BatchPays
  <2>1. /\ batch # NoBatch /\ batch.rest # <<>> /\ UNCHANGED collections
        /\ batch' = [batch EXCEPT !.rest = Tail(@)]
    BY <1>7 DEF BatchPays
  <2>2. batch.agent \in Agents /\ batch.rest \in Seq(Instructions)
    BY <2>1 DEF BatchOK
  <2>3. PICK i \in Instructions : Pay(<<batch.agent, i.serviceId, i.asset>>, i.amount)
    <3>1. Head(batch.rest) \in Instructions
      BY <2>1, <2>2
    <3> QED BY <1>7, <3>1 DEF BatchPays
  <2>4. <<batch.agent, i.serviceId, i.asset>> \in Tabs /\ i.amount \in Amount
    BY <2>2, TabSettlementAssumption DEF Instructions, Tabs
  <2>5. batch'.before = batch.before
    BY <2>1
  <2> QED BY <1>1, <2>1, <2>3, <2>4, <2>5 DEF BatchMoves
<1>8. CASE BatchEnds
  BY <1>2, <1>8 DEF BatchEnds, BatchMoves, vars, envVars
<1>9. CASE /\ BookCall \/ Tick
           /\ batch = NoBatch
           /\ UNCHANGED <<balances, collections, permitVars, batch>>
  BY <1>9, CallMoves DEF BatchMoves
<1> QED BY <1>3, <1>4, <1>5, <1>6, <1>7, <1>8, <1>9 DEF SettlementNext

-----------------------------------------------------------------------------
(* The inductive invariant of the contracts together.                      *)

\* A batch would restore what the escrow holds as it is.
RestoreHeld ==
  batch # NoBatch =>
    /\ batch.before.balances \in [Holders -> Nat]
    /\ \A asset \in Assets : batch.before.balances[<<Escrow, asset>>] = balances[<<Escrow, asset>>]

\* What is owed on a tab can be paid, and the tab is not marked before it is
\* due: the window in force ends no sooner, and one that was announced either
\* ends no sooner or does not come into force before.
TabInOrder(tab, t) ==
  /\ tab.open # 0 => services[t[2]].exists /\ collections[<<t[2], t[3]>>] # NoAccount
  /\ tab.delinquent => now >= dueAt[t]
  /\ tab.oldestUnsettledAt # 0 =>
       /\ dueAt[t] <= tab.oldestUnsettledAt + MaxWindow
       /\ \/ now >= dueAt[t]
          \/ tab.oldestUnsettledAt + services[t[2]].settlementWindow >= dueAt[t]
       /\ \A p \in pending : IsWindow(p, t[2]) =>
            \/ p.eta >= dueAt[t]
            \/ tab.oldestUnsettledAt + Registry!WindowOf(p.change.raw) >= dueAt[t]

TabsInOrder ==
  /\ dueAt \in [Tabs -> Nat]
  /\ \A t \in Tabs : TabInOrder(tabs[t], t)

RestoreInOrder == batch # NoBatch => \A t \in Tabs : TabInOrder(batch.before.tabs[t], t)

RailInv ==
  /\ SettlementInv1 /\ RegistryOK
  /\ StakeOK /\ RestoreHeld
  /\ TabsInOrder /\ RestoreInOrder

LEMMA RailInitInv == RailInit => RailInv
<1> SUFFICES ASSUME RailInit PROVE RailInv
  OBVIOUS
<1>1. Init /\ IInv /\ batch = NoBatch
  BY InvInit DEF RailInit
<1>2. SettlementInv1 /\ RestoreHeld /\ RestoreInOrder
  BY <1>1 DEF SettlementInv1, BatchOK, RestoreOK, RestoreHeld, RestoreInOrder
<1>3. RegistryOK
  <2>1. /\ collections = [l \in Listings |-> NoAccount] /\ prices = [l \in Listings |-> 0]
        /\ pending = {} /\ changeNonce = 0
    BY DEF RailInit, Registry!RegistryInit, Registry!Listings, Listings
  <2>2. services \in [Services -> Service] /\ prices \in [Listings -> Prices]
    BY <1>1 DEF Init, Listings
  <2> QED BY <2>1, <2>2 DEF RegistryOK
<1>4. StakeOK
  <2>1. /\ staked = [k \in Parties |-> 0] /\ withdrawn = [k \in Parties |-> 0]
        /\ free = [k \in Parties |-> 0]
        /\ balances = [h \in Holders |-> IF h[1] = Escrow THEN 0 ELSE Tokens]
    BY DEF RailInit, Staking!Parties, Parties, Holders
  <2>2. 0 \in Amount /\ Tokens \in Nat
    BY TabBookAssumption, TabSettlementAssumption DEF Amount
  <2>3. ASSUME NEW asset \in Assets
        PROVE  balances[<<Escrow, asset>>] = SumOf(Accounts, FreeIn(asset))
    <3>1. \A a \in Accounts : FreeIn(asset)[a] = 0
      BY <2>1 DEF FreeIn, Parties
    <3> QED BY <2>1, <3>1, SumOfZeros DEF Holders
  <2> QED BY <2>1, <2>2, <2>3 DEF StakeOK
<1>5. TabsInOrder
  BY <1>1 DEF RailInit, Init, TabsInOrder, TabInOrder
<1> QED BY <1>2, <1>3, <1>4, <1>5 DEF RailInv

\* A payment leaves what the escrow holds alone.
LEMMA PayingHeld ==
  ASSUME RegistryOK, StakeOK, Paying, UNCHANGED <<staked, withdrawn, free>>
  PROVE  /\ StakeOK'
         /\ \A asset \in Assets : balances'[<<Escrow, asset>>] = balances[<<Escrow, asset>>]
<1>1. PICK agent \in Agents, l \in Listings, asset \in Assets, amount \in Amount :
        collections[l] # NoAccount /\ Transfer(agent, collections[l], asset, amount)
  BY DEF Paying
<1>2. PICK c \in Accounts : c = collections[l]
  BY <1>1 DEF RegistryOK
<1>3. /\ balances[<<agent, asset>>] >= amount
      /\ balances' = [balances EXCEPT ![<<agent, asset>>] = @ - amount,
                                      ![<<c, asset>>] = @ + amount]
  BY <1>1, <1>2 DEF Transfer
<1>4. /\ <<agent, asset>> \in Holders /\ <<c, asset>> \in Holders /\ amount \in Nat
      /\ agent # Escrow /\ c # Escrow /\ agent # c
  BY RailAssumption, TabBookAssumption, TabSettlementAssumption DEF Holders, Amount
<1>5. /\ balances' \in [Holders -> Nat]
      /\ \A u \in Assets : balances'[<<Escrow, u>>] = balances[<<Escrow, u>>]
  <2>1. balances \in [Holders -> Nat] /\ balances[<<agent, asset>>] \in Nat
        /\ balances[<<c, asset>>] \in Nat
    BY <1>4 DEF StakeOK
  <2>2. balances' = [balances EXCEPT ![<<agent, asset>>] = balances[<<agent, asset>>] - amount,
                                     ![<<c, asset>>] = balances[<<c, asset>>] + amount]
    BY <1>3, <1>4, <2>1
  <2>3. balances[<<agent, asset>>] - amount \in Nat /\ balances[<<c, asset>>] + amount \in Nat
    BY <1>3, <1>4, <2>1
  <2>4. balances' \in [Holders -> Nat]
    BY <1>4, <2>1, <2>2, <2>3
  <2>5. \A u \in Assets : /\ <<Escrow, u>> \in Holders
                          /\ <<Escrow, u>> # <<agent, asset>> /\ <<Escrow, u>> # <<c, asset>>
    BY <1>4 DEF Holders
  <2> QED BY <2>1, <2>2, <2>4, <2>5
<1>6. \A u \in Assets : FreeIn(u)' = FreeIn(u)
  BY DEF FreeIn
<1>7. \A u \in Assets : balances'[<<Escrow, u>>] = SumOf(Accounts, FreeIn(u)')
  BY <1>5, <1>6 DEF StakeOK
<1> QED BY <1>5, <1>7 DEF StakeOK

\* The windows an Agent knows of are numbers, the one in force among them.
LEMMA KnownWindowsAre ==
  ASSUME RegistryOK, NEW s \in Services
  PROVE  /\ KnownWindows(s) \subseteq Nat
         /\ services[s].settlementWindow \in KnownWindows(s)
         /\ services[s].settlementWindow \in 0 .. MaxWindow
         /\ \A p \in pending :
              IsWindow(p, s) => Registry!WindowOf(p.change.raw) \in KnownWindows(s)
<1>1. services[s].settlementWindow \in 0 .. MaxWindow /\ MaxWindow \in Nat
  BY RailAssumption DEF RegistryOK, Service, Entry
<1>2. ASSUME NEW p \in pending, IsWindow(p, s)
      PROVE  Registry!WindowOf(p.change.raw) \in Nat
  <2>1. p.change \in Registry!Change /\ p.change.kind = "SettlementWindow"
    BY <1>2 DEF RegistryOK, IsWindow
  <2>2. p.change.raw \in RawWindows
    BY <2>1 DEF Registry!Change
  <2>3. \A raw \in RawWindows : Registry!WindowOf(raw) \in Nat
    BY RailAssumption DEF Registry!WindowOf
  <2> QED BY <2>2, <2>3
<1> QED BY <1>1, <1>2 DEF KnownWindows, IsWindow

\* A call of TabBook or TabSettlement leaves every tab in order.
LEMMA TabStaysInOrder ==
  ASSUME IInv, RegistryOK, dueAt \in [Tabs -> Nat], NEW t \in Tabs, TabInOrder(tabs[t], t),
         Ages(t) \/ (batch = NoBatch /\ Delivered(t)), now' >= now, tabs' \in [Tabs -> Tab],
         dueAt' = DueAt, UNCHANGED <<services, prices, collections, pending>>, now' \in Nat
  PROVE  dueAt'[t] \in Nat /\ TabInOrder(tabs[t], t)'
<1> DEFINE w == services[t[2]].settlementWindow
<1>1. /\ tabs[t] \in Tab /\ tabs'[t] \in Tab /\ t[2] \in Services /\ <<t[2], t[3]>> \in Listings
      /\ dueAt[t] \in Nat /\ now \in Nat /\ now # 0 /\ now' \in Nat
  BY TabBookAssumption DEF IInv, TypeOK, Tabs, Listings
<1>2. /\ tabs[t].oldestUnsettledAt \in Nat /\ tabs'[t].oldestUnsettledAt \in Nat
      /\ tabs[t].open = 0 => ~tabs[t].delinquent /\ tabs[t].oldestUnsettledAt = 0
  BY <1>1, TabBookAssumption DEF Tab, Time, IInv, ClosedTabIsClean
<1>3. w \in 0 .. MaxWindow /\ w \in KnownWindows(t[2]) /\ KnownWindows(t[2]) \subseteq Nat
      /\ MaxWindow \in Nat
  BY <1>1, KnownWindowsAre, RailAssumption
<1>4. services'[t[2]] = services[t[2]]
  OBVIOUS
<1> HIDE DEF w
<1>5. CASE tabs[t].oldestUnsettledAt = 0 /\ tabs'[t].oldestUnsettledAt # 0
  <2>1. /\ batch = NoBatch /\ Delivered(t) /\ tabs'[t].oldestUnsettledAt = now /\ now' = now
        /\ services[t[2]].exists /\ collections[<<t[2], t[3]>>] # NoAccount
        /\ ~tabs'[t].delinquent
    BY <1>1, <1>5 DEF Ages, Delivered, RegistryOK
  <2>2. dueAt'[t] = now + Min(KnownWindows(t[2]))
    BY <1>5, <2>1 DEF DueAt
  <2>3. Min(KnownWindows(t[2])) \in Nat /\ \A y \in KnownWindows(t[2]) : Min(KnownWindows(t[2])) <= y
    BY <1>3, MinOfNat
  <2>4. PICK m \in Nat : m = Min(KnownWindows(t[2]))
    BY <2>3
  <2>5. dueAt'[t] = now + m /\ m <= w /\ \A y \in KnownWindows(t[2]) : m <= y
    BY <1>3, <2>2, <2>3, <2>4
  <2>6. /\ dueAt'[t] \in Nat /\ dueAt'[t] <= tabs'[t].oldestUnsettledAt + MaxWindow
        /\ tabs'[t].oldestUnsettledAt + w >= dueAt'[t]
    BY <1>1, <1>3, <2>1, <2>5
  <2>7. ASSUME NEW p \in pending, IsWindow(p, t[2])
        PROVE  tabs'[t].oldestUnsettledAt + Registry!WindowOf(p.change.raw) >= dueAt'[t]
    <3>1. PICK y \in KnownWindows(t[2]) : y = Registry!WindowOf(p.change.raw)
      BY <1>1, <2>7, KnownWindowsAre
    <3>2. y \in Nat /\ m <= y
      BY <1>3, <2>5, <3>1
    <3> QED BY <1>1, <2>1, <2>5, <3>1, <3>2
  <2> QED BY <1>4, <2>1, <2>6, <2>7 DEF TabInOrder, w
<1>6. CASE ~(tabs[t].oldestUnsettledAt = 0 /\ tabs'[t].oldestUnsettledAt # 0)
  <2>1. dueAt'[t] = dueAt[t]
    BY <1>6 DEF DueAt
  <2>2. /\ tabs'[t].oldestUnsettledAt # 0 =>
             tabs'[t].oldestUnsettledAt = tabs[t].oldestUnsettledAt
        /\ tabs'[t].open # 0 =>
             services[t[2]].exists /\ collections[<<t[2], t[3]>>] # NoAccount
    BY <1>1, <1>6 DEF Ages, Delivered, TabInOrder, RegistryOK
  <2>3. ASSUME tabs'[t].delinquent PROVE now' >= dueAt[t]
    <3>1. Ages(t)
      BY <2>3 DEF Delivered
    <3>2. CASE tabs[t].delinquent
      BY <1>1, <3>2 DEF TabInOrder
    <3>3. CASE ~tabs[t].delinquent
      <4>1. /\ now' = now /\ tabs[t].oldestUnsettledAt # 0
            /\ now >= tabs[t].oldestUnsettledAt + w
        BY <2>3, <3>1, <3>3 DEF Ages, w
      <4>2. now >= dueAt[t] \/ tabs[t].oldestUnsettledAt + w >= dueAt[t]
        BY <4>1 DEF TabInOrder, w
      <4> QED BY <1>1, <1>2, <1>3, <4>1, <4>2
    <3> QED BY <3>2, <3>3
  <2>4. ASSUME tabs'[t].oldestUnsettledAt # 0
        PROVE  /\ dueAt[t] <= tabs'[t].oldestUnsettledAt + MaxWindow
               /\ now' >= dueAt[t] \/ tabs'[t].oldestUnsettledAt + w >= dueAt[t]
               /\ \A p \in pending : IsWindow(p, t[2]) =>
                    \/ p.eta >= dueAt[t]
                    \/ tabs'[t].oldestUnsettledAt + Registry!WindowOf(p.change.raw) >= dueAt[t]
    <3>1. tabs'[t].oldestUnsettledAt = tabs[t].oldestUnsettledAt
      BY <2>2, <2>4
    <3>2. now >= dueAt[t] => now' >= dueAt[t]
      BY <1>1
    <3> QED BY <2>4, <3>1, <3>2 DEF TabInOrder, w
  <2> QED BY <1>1, <1>4, <2>1, <2>2, <2>3, <2>4 DEF TabInOrder, w
<1> QED BY <1>5, <1>6

\* A call of TabBook or TabSettlement, or a round of a batch.
LEMMA BookKeepsRail ==
  ASSUME RailInv, OnBook(SettlementNext), ~BatchReverts
  PROVE  RailInv'
<1> USE DEF RailInv
<1>1. /\ SettlementNext /\ dueAt' = DueAt
      /\ UNCHANGED <<pending, changeNonce, staked, withdrawn>>
  BY DEF OnBook, registryOnly, bondOnly
<1>2. SettlementInv1'
  BY <1>1, SettlementStep1
<1>3. TabsMove /\ UNCHANGED collections /\ (Paying \/ UNCHANGED balances) /\ BatchMoves
  BY <1>1, SettlementMoves
<1>4. UNCHANGED <<services, prices, free>> /\ now' >= now
  BY <1>3 DEF TabsMove
<1>5. RegistryOK'
  BY <1>1, <1>3, <1>4 DEF RegistryOK
<1>6. /\ StakeOK'
      /\ \A asset \in Assets : balances'[<<Escrow, asset>>] = balances[<<Escrow, asset>>]
  <2>1. CASE Paying
    BY <1>1, <1>4, <2>1, PayingHeld
  <2>2. CASE UNCHANGED balances
    BY <1>1, <1>4, <2>2 DEF StakeOK, FreeIn
  <2> QED BY <1>3, <2>1, <2>2
<1>7. RestoreHeld'
  <2>1. CASE batch'.before = Ledger /\ UNCHANGED balances
    <3>1. batch'.before.balances = balances
      BY <2>1 DEF Ledger
    <3> QED BY <2>1, <3>1 DEF RestoreHeld, StakeOK
  <2>2. CASE batch # NoBatch /\ batch'.before = batch.before
    BY <1>6, <2>2 DEF RestoreHeld
  <2>3. CASE batch' = NoBatch
    BY <2>3 DEF RestoreHeld
  <2> QED BY <1>3, <2>1, <2>2, <2>3 DEF BatchMoves
<1>8. TabsInOrder'
  <2>1. /\ IInv /\ tabs' \in [Tabs -> Tab] /\ now' \in Nat /\ dueAt \in [Tabs -> Nat]
    BY <1>2, TabBookAssumption DEF SettlementInv1, IInv, TypeOK, TabsInOrder
  <2>2. ASSUME NEW t \in Tabs
        PROVE  dueAt'[t] \in Nat /\ TabInOrder(tabs[t], t)'
    <3>1. TabInOrder(tabs[t], t)
      BY DEF TabsInOrder
    <3>2. Ages(t) \/ (batch = NoBatch /\ Delivered(t))
      BY <1>3 DEF TabsMove, BatchMoves
    <3> QED BY <1>1, <1>3, <1>4, <2>1, <3>1, <3>2, TabStaysInOrder
  <2>3. dueAt' \in [Tabs -> Nat]
    BY <1>1, <2>2 DEF DueAt
  <2> QED BY <2>2, <2>3 DEF TabsInOrder
<1>9. RestoreInOrder'
  <2>1. CASE batch = NoBatch /\ UNCHANGED vars /\ batch'.before = Ledger
    <3>1. batch'.before.tabs = tabs' /\ UNCHANGED <<tabs, now>>
      BY <2>1 DEF Ledger, vars, bookVars, envVars
    <3>2. \A t \in Tabs : TabInOrder(tabs[t], t)'
      BY <1>8 DEF TabsInOrder
    <3> QED BY <3>1, <3>2 DEF RestoreInOrder, TabInOrder
  <2>2. CASE batch # NoBatch /\ batch'.before = batch.before /\ UNCHANGED now
    <3>1. \A t \in Tabs : dueAt'[t] = dueAt[t]
      BY <1>1, <2>2 DEF DueAt
    <3>2. \A t \in Tabs : TabInOrder(batch.before.tabs[t], t)
      BY <2>2 DEF RestoreInOrder
    <3> QED BY <1>1, <1>3, <1>4, <2>2, <3>1, <3>2 DEF RestoreInOrder, TabInOrder
  <2>3. CASE batch' = NoBatch
    BY <2>3 DEF RestoreInOrder
  <2> QED BY <1>3, <2>1, <2>2, <2>3 DEF BatchMoves
<1> QED BY <1>2, <1>5, <1>6, <1>7, <1>8, <1>9

\* A batch that is taken back.
LEMMA RevertKeepsRail ==
  ASSUME RailInv, OnBook(SettlementNext), BatchReverts
  PROVE  RailInv'
<1> USE DEF RailInv
<1>1. /\ SettlementNext /\ dueAt' = DueAt
      /\ UNCHANGED <<pending, changeNonce, staked, withdrawn>>
  BY DEF OnBook, registryOnly, bondOnly
<1>2. SettlementInv1'
  BY <1>1, SettlementStep1
<1>3. /\ batch # NoBatch /\ batch' = NoBatch
      /\ tabs' = batch.before.tabs /\ balances' = batch.before.balances
      /\ UNCHANGED <<services, prices, free, now, collections>>
  BY DEF BatchReverts, Restored, envVars
<1>4. RegistryOK'
  BY <1>1, <1>3 DEF RegistryOK
<1>5. StakeOK'
  BY <1>1, <1>3 DEF StakeOK, FreeIn, RestoreHeld
<1>6. RestoreHeld' /\ RestoreInOrder'
  BY <1>3 DEF RestoreHeld, RestoreInOrder
<1>7. TabsInOrder'
  <2>1. dueAt' = dueAt
    BY <1>1, <1>3 DEF DueAt, TabsInOrder
  <2>2. \A t \in Tabs : TabInOrder(batch.before.tabs[t], t)
    BY <1>3 DEF RestoreInOrder
  <2>3. \A t \in Tabs : TabInOrder(tabs[t], t)'
    BY <1>1, <1>3, <2>1, <2>2 DEF TabInOrder
  <2> QED BY <2>1, <2>3 DEF TabsInOrder
<1> QED BY <1>2, <1>4, <1>5, <1>6, <1>7

\* A call of ServiceRegistry is a registry step of TabBook,
LEMMA RegistryCallIsStep ==
  ASSUME RegistryOK, RegistryMoves, UNCHANGED <<bookVars, free>>
  PROVE  RegistryStep
<1>1. PICK s \in Services : OnlyMoves(s)
  BY DEF RegistryMoves
<1> DEFINE r == services'[s]
           price == [a \in Assets |-> prices'[<<s, a>>]]
<1>2. /\ services \in [Services -> Service] /\ services' \in [Services -> Service]
      /\ prices' \in [Listings -> Prices] /\ UNCHANGED now
  BY DEF RegistryMoves, RegistryOK
<1>3. r \in Service /\ price \in [Assets -> Prices]
  BY <1>2 DEF Listings
<1>4. services[s].exists =>
         r.exists /\ r.operator = services[s].operator /\ r.bondAccount = services[s].bondAccount
  BY <1>1 DEF OnlyMoves
<1>5. services' = [services EXCEPT ![s] = r]
  BY <1>1, <1>2 DEF OnlyMoves
<1>6. prices' = [k \in Services \X Assets |-> IF k[1] = s THEN price[k[2]] ELSE prices[k]]
  <2>1. ASSUME NEW k \in Services \X Assets
        PROVE  prices'[k] = IF k[1] = s THEN price[k[2]] ELSE prices[k]
    <3>1. k = <<k[1], k[2]>> /\ k[2] \in Assets
      OBVIOUS
    <3>2. CASE k[1] = s
      BY <3>1, <3>2
    <3>3. CASE k[1] # s
      BY <1>1, <3>3 DEF OnlyMoves, Listings
    <3> QED BY <3>2, <3>3
  <2> QED BY <1>2, <2>1 DEF Listings
<1> HIDE DEF r, price
<1> QED BY <1>2, <1>3, <1>4, <1>5, <1>6 DEF RegistryStep

\* and puts no tab out of order.
LEMMA RegistryKeepsRail ==
  ASSUME RailInv, OnRegistry(RegistryCall)
  PROVE  RailInv' /\ Next
<1> USE DEF RailInv
<1>1. /\ RegistryCall /\ batch = NoBatch /\ batch' = NoBatch
      /\ UNCHANGED <<bookVars, free, balances, staked, withdrawn, dueAt>>
      /\ IInv /\ now \in Nat
  BY TabBookAssumption DEF OnRegistry, bondOnly, SettlementInv1, IInv, TypeOK
<1>2. RegistryMoves
  BY <1>1, RegistryCallMoves
<1>3. Next /\ RegistryOK'
  BY <1>1, <1>2, RegistryCallIsStep DEF Next, RegistryMoves
<1>4. SettlementInv1'
  BY <1>1, <1>3, InvStep DEF SettlementInv1, BatchOK, RestoreOK
<1>5. StakeOK' /\ RestoreHeld' /\ RestoreInOrder'
  BY <1>1 DEF StakeOK, FreeIn, RestoreHeld, RestoreInOrder
<1>6. TabsInOrder'
  <2>1. UNCHANGED <<tabs, now>>
    BY <1>1, <1>2 DEF bookVars, RegistryMoves
  <2>2. PICK s \in Services : OnlyMoves(s)
    BY <1>2 DEF RegistryMoves
  <2>3. ASSUME NEW t \in Tabs
        PROVE  TabInOrder(tabs[t], t)'
    <3> DEFINE tab == tabs[t]
    <3>1. /\ tab \in Tab /\ t[2] \in Services /\ <<t[2], t[3]>> \in Listings
          /\ dueAt[t] \in Nat /\ TabInOrder(tab, t)
          /\ tab.oldestUnsettledAt \in Nat /\ tab.open \in Nat
          /\ Timelock \in Nat /\ MaxWindow \in Nat /\ MaxWindow < Timelock
      BY <1>1, TabBookAssumption, RailAssumption
         DEF IInv, TypeOK, Tabs, Listings, TabsInOrder, Tab, Time, Amount
    <3>2. /\ tab.open = 0 => tab.oldestUnsettledAt = 0
          /\ tab.open > 0 => tab.oldestUnsettledAt <= now
      <4>1. tab.lastDeliveryAt \in Nat
        BY <3>1, TabBookAssumption DEF Tab, Time
      <4> QED BY <1>1, <3>1, <4>1 DEF IInv, ClosedTabIsClean, OpenTabIsMarkable
    <3> HIDE DEF tab
    <3>3. tab.open # 0 => services'[t[2]].exists /\ collections'[<<t[2], t[3]>>] # NoAccount
      <4>1. CASE t[2] = s
        BY <2>2, <3>1, <4>1 DEF TabInOrder, OnlyMoves
      <4>2. CASE t[2] # s
        BY <2>2, <3>1, <4>2 DEF TabInOrder, OnlyMoves
      <4> QED BY <4>1, <4>2
    <3>4. ASSUME tab.oldestUnsettledAt # 0
          PROVE  \/ now >= dueAt[t]
                 \/ tab.oldestUnsettledAt + services'[t[2]].settlementWindow >= dueAt[t]
      <4>1. services[t[2]].exists
        BY <3>1, <3>2, <3>4 DEF TabInOrder
      <4>2. CASE services'[t[2]].settlementWindow = services[t[2]].settlementWindow
        BY <3>1, <3>4, <4>2 DEF TabInOrder
      <4>3. CASE \E p \in pending :
                   /\ IsWindow(p, t[2]) /\ now >= p.eta
                   /\ services'[t[2]].settlementWindow = Registry!WindowOf(p.change.raw)
        <5>1. PICK p \in pending :
                   /\ IsWindow(p, t[2]) /\ now >= p.eta
                   /\ services'[t[2]].settlementWindow = Registry!WindowOf(p.change.raw)
          BY <4>3
        <5>2. p.eta \in Nat
          BY DEF RegistryOK
        <5>3. \/ p.eta >= dueAt[t]
              \/ tab.oldestUnsettledAt + Registry!WindowOf(p.change.raw) >= dueAt[t]
          BY <3>1, <3>4, <5>1 DEF TabInOrder
        <5> QED BY <1>1, <3>1, <5>1, <5>2, <5>3
      <4>4. CASE t[2] = s
        BY <2>2, <4>1, <4>2, <4>3, <4>4 DEF OnlyMoves
      <4>5. CASE t[2] # s
        BY <2>2, <3>1, <4>2, <4>5 DEF OnlyMoves
      <4> QED BY <4>4, <4>5
    <3>5. ASSUME tab.oldestUnsettledAt # 0, NEW p \in pending', IsWindow(p, t[2])
          PROVE  \/ p.eta >= dueAt[t]
                 \/ tab.oldestUnsettledAt + Registry!WindowOf(p.change.raw) >= dueAt[t]
      <4>1. CASE p \in pending
        BY <3>1, <3>5, <4>1 DEF TabInOrder
      <4>2. CASE p.eta = now + Timelock
        <5>1. dueAt[t] <= tab.oldestUnsettledAt + MaxWindow /\ tab.oldestUnsettledAt <= now
          BY <3>1, <3>2, <3>5 DEF TabInOrder
        <5> QED BY <1>1, <3>1, <4>2, <5>1
      <4> QED BY <1>2, <4>1, <4>2 DEF RegistryMoves
    <3>6. tabs'[t] = tab
      BY <2>1 DEF tab
    <3> QED BY <1>1, <2>1, <3>1, <3>3, <3>4, <3>5, <3>6 DEF TabInOrder
  <2> QED BY <1>1, <2>3 DEF TabsInOrder
<1> QED BY <1>3, <1>4, <1>5, <1>6

\* A call of Bond moves stakes only.
LEMMA BondKeepsRail ==
  ASSUME RailInv, OnBond(Staking!BondNext)
  PROVE  RailInv' /\ Next
<1> USE DEF RailInv
<1>1. /\ Staking!BondNext /\ batch = NoBatch /\ batch' = NoBatch
      /\ free' = [k \in Staking!Parties |-> Staking!Free(k)']
      /\ UNCHANGED <<bookVars, services, prices, now, collections, pending, changeNonce, dueAt>>
  BY DEF OnBond, registryOnly
<1>2. StakeOK' /\ \E k \in Parties, stake \in Stakes : free' = [free EXCEPT ![k] = stake]
  BY <1>1, BondMoves
<1>3. Next
  BY <1>1, <1>2 DEF Next, BondStep, Parties
<1>4. SettlementInv1'
  BY <1>1, <1>3, InvStep DEF SettlementInv1, BatchOK, RestoreOK
<1>5. RegistryOK' /\ RestoreHeld' /\ RestoreInOrder'
  BY <1>1 DEF RegistryOK, RestoreHeld, RestoreInOrder
<1>6. TabsInOrder'
  BY <1>1 DEF TabsInOrder, TabInOrder, bookVars
<1> QED BY <1>2, <1>3, <1>4, <1>5, <1>6

LEMMA RailStep == RailInv /\ [RailNext]_allVars => RailInv'
<1> SUFFICES ASSUME RailInv, [RailNext]_allVars PROVE RailInv'
  OBVIOUS
<1>1. CASE UNCHANGED allVars
  <2>1. UNCHANGED <<railVars, pending, changeNonce, staked, withdrawn, dueAt>>
    BY <1>1 DEF allVars, registryOnly, bondOnly
  <2>2. UNCHANGED <<tabs, services, prices, free, now, balances, collections, batch>>
    BY <2>1 DEF railVars, vars, bookVars, envVars
  <2>3. SettlementInv1'
    BY <2>1, SettlementStep1 DEF RailInv
  <2>4. RegistryOK' /\ StakeOK'
    BY <2>1, <2>2 DEF RailInv, RegistryOK, StakeOK, FreeIn
  <2>5. RestoreHeld' /\ RestoreInOrder' /\ TabsInOrder'
    BY <2>1, <2>2 DEF RailInv, RestoreHeld, RestoreInOrder, TabsInOrder, TabInOrder
  <2> QED BY <2>3, <2>4, <2>5 DEF RailInv
<1> QED BY <1>1, BookKeepsRail, RevertKeepsRail, RegistryKeepsRail, BondKeepsRail DEF RailNext

-----------------------------------------------------------------------------
(* The theorems.                                                           *)

\* The contracts together keep what TabBook assumes of the chain: every step of
\* theirs is one that TabBook's specification allows, or takes a batch back.
THEOREM AssumptionsHold == RailSpec => BookAssumptionsHold
<1>1. RailInv /\ [RailNext]_allVars => [Next \/ BatchReverts]_vars
  <2> SUFFICES ASSUME RailInv, [RailNext]_allVars
               PROVE  Next \/ BatchReverts \/ UNCHANGED vars
    OBVIOUS
  <2>1. CASE OnBook(SettlementNext)
    BY <2>1, SettlementIsBookStep DEF RailInv, OnBook
  <2>2. CASE UNCHANGED allVars
    BY <2>2 DEF allVars, railVars
  <2> QED BY <2>1, <2>2, RegistryKeepsRail, BondKeepsRail DEF RailNext
<1>2. RailInit => Init
  BY DEF RailInit
<1> QED BY RailInitInv, RailStep, <1>1, <1>2, PTL DEF RailSpec, BookAssumptionsHold

\* Whoever deposits, for whom, and in whatever portions it is withdrawn, the
\* escrow holds what is free, in every Asset.
THEOREM EscrowHoldsStakes == RailSpec => []StakesAreHeld
<1>1. RailInv => StakesAreHeld
  <2> SUFFICES ASSUME StakeOK PROVE StakesAreHeld
    BY DEF RailInv
  <2>1. \A k \in Parties : free[k] >= 0
    BY TabBookAssumption DEF StakeOK, Amount
  <2>2. \A asset \in Assets :
          balances[<<Escrow, asset>>] =
            SumOf(Accounts, [a \in Accounts |-> free[<<a, asset>>]])
    BY DEF StakeOK, FreeIn
  <2> QED BY <2>1, <2>2 DEF StakesAreHeld, Parties, Staking!Parties
<1> QED BY RailInitInv, RailStep, <1>1, PTL DEF RailSpec

\* Whatever the operator of a Service queues and applies while a debt to it
\* stands, and whatever batch is taken back, TabSettlement would take the payment.
THEOREM DebtCanBePaid == RailSpec => []DebtIsPayable
<1>1. ASSUME RailInv PROVE DebtIsPayable
  <2> SUFFICES ASSUME NEW t \in Tabs, tabs[t].open > 0
               PROVE  /\ services[t[2]].exists
                      /\ collections[<<t[2], t[3]>>] # NoAccount
                      /\ tabs[t].open <= assetOpen[Account(t)]
    BY DEF DebtIsPayable
  <2>1. IInv /\ TypeOK /\ AssetOpenIsSum /\ TabInOrder(tabs[t], t)
    BY <1>1 DEF RailInv, SettlementInv1, IInv, TabsInOrder
  <2>2. \A u \in Tabs : tabs[u].open \in Nat
    BY <2>1, TabBookAssumption DEF TypeOK, Tab, Amount
  <2>3. Account(t) \in AgentAssets /\ t \in TabsOf(Account(t))
    BY DEF Account, AgentAssets, Tabs, TabsOf
  <2>4. tabs[t].open <= assetOpen[Account(t)]
    <3>1. \A u \in TabsOf(Account(t)) : Opens[u] \in Nat
      BY <2>2 DEF TabsOf, Opens
    <3>2. Opens[t] = tabs[t].open
      BY DEF Opens
    <3>3. assetOpen[Account(t)] = SumOf(TabsOf(Account(t)), Opens)
      BY <2>1, <2>3 DEF AssetOpenIsSum, Owed, Opens
    <3>4. Opens[t] <= SumOf(TabsOf(Account(t)), Opens)
      BY <2>3, <3>1, TabsOfFinite, SumBounds
    <3> QED BY <3>2, <3>3, <3>4
  <2>5. tabs[t].open # 0
    BY <2>2
  <2> QED BY <2>1, <2>4, <2>5 DEF TabInOrder
<1> QED BY RailInitInv, RailStep, <1>1, PTL DEF RailSpec

\* No change of its window lets a Service mark a tab before the window the Agent
\* knew of when its debt began has passed: the timelock is longer than any
\* window, so a shorter one comes into force after the debt is due anyway.
THEOREM MarksAreNotEarly == RailSpec => NeverMarkedEarly
<1>1. ASSUME RailInv, [RailNext]_allVars
      PROVE  [\A t \in Tabs : tabs'[t].delinquent /\ ~tabs[t].delinquent =>
                now >= dueAt[t]]_allVars
  <2> SUFFICES ASSUME RailNext, NEW t \in Tabs, tabs'[t].delinquent, ~tabs[t].delinquent
               PROVE  now >= dueAt[t]
    BY <1>1
  <2>0. SettlementInv1 /\ TabsInOrder /\ RestoreInOrder
    BY <1>1 DEF RailInv
  <2>1. CASE OnBook(SettlementNext) /\ BatchReverts
    <3>1. TabInOrder(batch.before.tabs[t], t) /\ tabs' = batch.before.tabs
      BY <2>0, <2>1 DEF BatchReverts, Restored, RestoreInOrder
    <3> QED BY <3>1 DEF TabInOrder
  <2>2. CASE OnBook(SettlementNext) /\ ~BatchReverts
    <3>1. Ages(t)
      BY <2>0, <2>2, SettlementMoves DEF OnBook, TabsMove, Delivered
    <3>2. TabInOrder(tabs[t], t) /\ dueAt[t] \in Nat
      BY <2>0 DEF TabsInOrder
    <3>3. /\ tabs[t].oldestUnsettledAt # 0
          /\ now >= tabs[t].oldestUnsettledAt + services[t[2]].settlementWindow
      BY <3>1 DEF Ages
    <3>4. \/ now >= dueAt[t]
          \/ tabs[t].oldestUnsettledAt + services[t[2]].settlementWindow >= dueAt[t]
      BY <3>2, <3>3 DEF TabInOrder
    <3>5. /\ now \in Nat /\ tabs[t].oldestUnsettledAt \in Nat
          /\ services[t[2]].settlementWindow \in Nat
      <4>1. TypeOK /\ t[2] \in Services
        BY <2>0 DEF SettlementInv1, IInv, Tabs
      <4>2. now \in 1 .. MaxTime /\ tabs[t] \in Tab /\ services[t[2]] \in Service
        BY <4>1 DEF TypeOK
      <4>3. tabs[t].oldestUnsettledAt \in Time /\ services[t[2]].settlementWindow \in Windows
        BY <4>2 DEF Tab, Service, Entry
      <4>4. Windows \subseteq Nat /\ MaxTime \in Nat
        BY TabBookAssumption
      <4>5. tabs[t].oldestUnsettledAt \in Nat
        BY <4>3, <4>4 DEF Time
      <4>6. services[t[2]].settlementWindow \in Nat
        BY <4>3, <4>4
      <4>7. now \in Nat
        BY <4>2, <4>4
      <4> QED BY <4>5, <4>6, <4>7
    <3> QED BY <3>2, <3>3, <3>4, <3>5
  <2>3. CASE OnRegistry(RegistryCall) \/ OnBond(Staking!BondNext)
    BY <2>3 DEF OnRegistry, OnBond, bookVars
  <2> QED BY <2>1, <2>2, <2>3 DEF RailNext
<1> QED BY RailInitInv, RailStep, <1>1, PTL DEF RailSpec, NeverMarkedEarly
=============================================================================
