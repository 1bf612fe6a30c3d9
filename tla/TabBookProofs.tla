--------------------------- MODULE TabBookProofs ---------------------------
(***************************************************************************)
(* What TLAPS proves of TabBook, and of TabSettlement over it, for every   *)
(* value of their constants: the books balance, also where a batch is      *)
(* taken back, and a signature settles once.                               *)
(***************************************************************************)
EXTENDS TabSettlement, TabBookClock, LimitProofs, SequenceTheorems, FiniteSetTheorems, TLAPS

-----------------------------------------------------------------------------
(* Type correctness.                                                       *)

\* An account has finitely many tabs, one for each Service.
LEMMA TabsOfFinite ==
  ASSUME NEW x \in AgentAssets
  PROVE  IsFiniteSet(TabsOf(x))
<1>1. PICK a \in Agents, u \in Assets : x = <<a, u>>
  BY DEF AgentAssets
<1> DEFINE f == [s \in Services |-> <<a, s, u>>]
<1>2. f \in Surjection(Services, TabsOf(x))
  <2>1. \A s \in Services : f[s] \in TabsOf(x)
    BY <1>1 DEF TabsOf, Tabs, Account
  <2>2. \A t \in TabsOf(x) : t[2] \in Services /\ f[t[2]] = t
    BY <1>1 DEF TabsOf, Tabs, Account
  <2>3. f \in [Services -> TabsOf(x)]
    BY <2>1
  <2> HIDE DEF f
  <2> QED BY <2>2, <2>3 DEF Surjection
<1> QED BY <1>2, FS_Surjection, TabBookAssumption

LEMMA TypeInit == Init => TypeOK
<1> SUFFICES ASSUME Init PROVE TypeOK
  OBVIOUS
<1> USE TabBookAssumption DEF Init
<1>1. tabs \in [Tabs -> Tab]
  BY DEF Tab, Amount, Time, Count
<1>2. auths \in [Tabs -> Authorisation]
  BY DEF Authorisation, Amount
<1>3. settlements \in Seq(Settlement) /\ history \in [AgentAssets -> Seq(SettlementRecord)]
  OBVIOUS
<1>4. /\ delinquentTabs \in [AgentAssets -> Count] /\ assetOpen \in [AgentAssets -> Nat]
      /\ firstDeliveryAt \in [Tabs -> Time] /\ metered \in [Tabs -> Nat]
      /\ tabRefs \subseteq Tabs /\ now \in 1 .. MaxTime
  BY DEF Count, Time
<1>5. prices \in [Services \X Assets -> Nat] /\ free \in [Accounts \X Assets -> Nat]
  OBVIOUS
<1> QED BY <1>1, <1>2, <1>3, <1>4, <1>5 DEF TypeOK

\* What a delivery makes of a tab is a tab.
LEMMA DeliveryType ==
  ASSUME TypeOK, NEW tab \in Tab, NEW charged \in Nat,
         tab.open + ToOpen(tab, charged) <= MaxAmount, tab.deliveryCount < MaxCount
  PROVE  /\ TabAfterDelivery(tab, charged) \in Tab
         /\ ToOpen(tab, charged) \in Nat /\ FromPrepaid(tab, charged) \in 0 .. tab.prepaid
         /\ ToOpen(tab, charged) = charged - FromPrepaid(tab, charged)
<1> USE TabBookAssumption DEF Tab, Amount, Count, Time
<1>1. FromPrepaid(tab, charged) \in 0 .. tab.prepaid /\ ToOpen(tab, charged) \in Nat
  BY DEF FromPrepaid, ToOpen
<1>2. now \in 1 .. MaxTime
  BY DEF TypeOK
<1>3. /\ tab.open + ToOpen(tab, charged) \in Amount
      /\ tab.prepaid - FromPrepaid(tab, charged) \in Amount
      /\ tab.deliveryCount + 1 \in Count
  BY <1>1
<1>4. TabAfterDelivery(tab, charged) \in Tab
  BY <1>2, <1>3 DEF TabAfterDelivery
<1> QED BY <1>1, <1>4 DEF ToOpen

\* What a settlement makes of a tab is a tab.
LEMMA SettlementType ==
  ASSUME NEW tab \in Tab, NEW amount \in Amount,
         tab.prepaid + (amount - Applied(tab, amount)) <= MaxAmount
  PROVE  /\ TabAfterSettlement(tab, amount) \in Tab
         /\ Applied(tab, amount) \in 0 .. tab.open /\ Applied(tab, amount) \in 0 .. amount
<1> USE TabBookAssumption DEF Tab, Amount, Count, Time
<1>1. Applied(tab, amount) \in 0 .. tab.open /\ Applied(tab, amount) \in 0 .. amount
  BY DEF Applied
<1>2. /\ tab.open - Applied(tab, amount) \in Amount
      /\ tab.prepaid + (amount - Applied(tab, amount)) \in Amount
  BY <1>1
<1>3. (tab.delinquent /\ ~SettlesDelinquency(tab, amount)) \in BOOLEAN
  OBVIOUS
<1>4. TabAfterSettlement(tab, amount) \in Tab
  <2> DEFINE open == tab.open - Applied(tab, amount)
             prepaid == tab.prepaid + (amount - Applied(tab, amount))
             oldest == IF ClosesTab(tab, amount) THEN 0 ELSE tab.oldestUnsettledAt
             delinquent == tab.delinquent /\ ~SettlesDelinquency(tab, amount)
  <2>1. TabAfterSettlement(tab, amount) =
          [tab EXCEPT !.open = open, !.oldestUnsettledAt = oldest, !.prepaid = prepaid,
                      !.delinquent = delinquent]
    BY DEF TabAfterSettlement
  <2>2. oldest \in Time /\ open \in Amount /\ prepaid \in Amount /\ delinquent \in BOOLEAN
    BY <1>2, <1>3
  <2> HIDE DEF open, prepaid, oldest, delinquent
  <2> QED BY <2>1, <2>2
<1> QED BY <1>1, <1>4

\* A delivery, by whoever meters it, leaves the ledger type-correct.
LEMMA DeliveryTypeStep ==
  ASSUME TypeOK, NEW caller, NEW t \in Tabs, NEW units \in Nat, NEW price,
         NEW witness, NEW cited, RecordDelivery(caller, t, units, price, witness, cited)
  PROVE  TypeOK'
<1> USE TabBookAssumption
<1> DEFINE charged == units * prices[<<t[2], t[3]>>]
           toOpen == ToOpen(tabs[t], charged)
<1>1. charged \in Nat /\ tabs[t] \in Tab /\ auths[t] \in Authorisation /\ Account(t) \in AgentAssets
  BY DEF TypeOK, Tabs, Account, AgentAssets
<1>2. tabs[t].open + toOpen <= MaxAmount /\ tabs[t].deliveryCount < MaxCount
  BY DEF RecordDelivery
<1>3. TabAfterDelivery(tabs[t], charged) \in Tab /\ toOpen \in Nat
  BY <1>1, <1>2, DeliveryType
<1>4. auths[t].spent + charged \in Amount
  BY <1>1 DEF RecordDelivery, IsAuthorised, Authorisation, Amount
<1>5. auths' \in [Tabs -> Authorisation]
  BY <1>1, <1>4 DEF RecordDelivery, Authorisation, TypeOK
<1>6. tabs' \in [Tabs -> Tab] /\ tabRefs' \subseteq Tabs
  BY <1>3 DEF RecordDelivery, TypeOK
<1>7. assetOpen' \in [AgentAssets -> Nat] /\ metered' \in [Tabs -> Nat]
  <2>1. /\ assetOpen' = [assetOpen EXCEPT ![Account(t)] = @ + toOpen]
        /\ metered' = [metered EXCEPT ![t] = @ + charged]
    BY DEF RecordDelivery
  <2>2. assetOpen \in [AgentAssets -> Nat] /\ metered \in [Tabs -> Nat]
    BY DEF TypeOK
  <2> HIDE DEF charged, toOpen
  <2> QED BY <1>1, <1>3, <2>1, <2>2
<1>8. firstDeliveryAt' \in [Tabs -> Time]
  BY DEF RecordDelivery, TypeOK, Time
<1> QED BY <1>5, <1>6, <1>7, <1>8 DEF RecordDelivery, TypeOK, envVars

LEMMA TypeStep == TypeOK /\ [Next]_vars => TypeOK'
<1> SUFFICES ASSUME TypeOK, [Next]_vars PROVE TypeOK'
  OBVIOUS
<1> USE TabBookAssumption
<1>1. ASSUME NEW caller \in Accounts, NEW surface \in Accounts,
             SetSettlementSurface(caller, surface)
      PROVE  TypeOK'
  BY <1>1 DEF SetSettlementSurface, TypeOK, envVars
<1>2. ASSUME NEW t \in Tabs, NEW m \in Ceilings, NEW d \in Terms, Authorise(t, m, now + d)
      PROVE  TypeOK'
  <2>1. [exists |-> TRUE, maxCumulative |-> m, spent |-> 0, expiry |-> now + d]
          \in Authorisation
    BY <1>2 DEF Authorise, Authorisation, Amount, TypeOK
  <2> QED BY <1>2, <2>1 DEF Authorise, TypeOK, envVars
<1>3. ASSUME NEW caller \in Accounts, NEW t \in Tabs, NEW units \in Units,
             NEW price \in Prices, NEW witness, NEW cited,
             RecordDelivery(caller, t, units, price, witness, cited)
      PROVE  TypeOK'
  BY <1>3, DeliveryTypeStep
<1>4. ASSUME NEW caller \in Accounts, NEW t \in Tabs, NEW amount \in Amount,
             ApplySettlement(caller, t, amount)
      PROVE  TypeOK'
  <2> DEFINE x == Account(t)
  <2>1. tabs[t] \in Tab /\ x \in AgentAssets /\ now \in Time
        /\ t[1] \in Agents /\ t[2] \in Services /\ t[3] \in Assets
    BY DEF TypeOK, Tabs, Account, AgentAssets, Time
  <2>2. tabs[t].prepaid + (amount - Applied(tabs[t], amount)) <= MaxAmount
    BY <1>4 DEF ApplySettlement
  <2>3. TabAfterSettlement(tabs[t], amount) \in Tab /\ Applied(tabs[t], amount) \in 0 .. amount
    BY <2>1, <2>2, SettlementType
  <2>4. tabs' \in [Tabs -> Tab] /\ tabRefs' \subseteq Tabs
    BY <1>4, <2>3 DEF ApplySettlement, TypeOK
  <2>5. assetOpen' \in [AgentAssets -> Nat]
    <3>1. /\ assetOpen \in [AgentAssets -> Nat] /\ Applied(tabs[t], amount) <= assetOpen[x]
          /\ assetOpen' = [assetOpen EXCEPT ![x] = @ - Applied(tabs[t], amount)]
      BY <1>4 DEF ApplySettlement, TypeOK
    <3>2. Applied(tabs[t], amount) \in Nat
      BY <2>3 DEF Amount
    <3> HIDE DEF x
    <3> QED BY <2>1, <3>1, <3>2
  <2>6. Applied(tabs[t], amount) \in Amount
    BY <2>3 DEF Amount
  <2>7. settlements' \in Seq(Settlement)
    <3>1. [agent |-> t[1], serviceId |-> t[2], asset |-> t[3], amount |-> amount,
           applied |-> Applied(tabs[t], amount), settledAt |-> now] \in Settlement
      BY <2>1, <2>6 DEF Settlement
    <3> QED BY <1>4, <3>1 DEF ApplySettlement, TypeOK
  <2>8. delinquentTabs' \in [AgentAssets -> Count]
    <3>1. /\ delinquentTabs \in [AgentAssets -> Count]
          /\ \/ delinquentTabs' = delinquentTabs
             \/ /\ delinquentTabs[x] > 0
                /\ delinquentTabs' = [delinquentTabs EXCEPT ![x] = @ - 1]
      BY <1>4 DEF ApplySettlement, TypeOK
    <3> HIDE DEF x
    <3> QED BY <2>1, <3>1, TabBookAssumption DEF Count
  <2>9. history' \in [AgentAssets -> Seq(SettlementRecord)]
    <3>1. RecordOf(t, amount) \in SettlementRecord
      BY <2>1 DEF RecordOf, SettlementRecord, TypeOK
    <3>2. Append(history[x], RecordOf(t, amount)) \in Seq(SettlementRecord)
      BY <2>1, <3>1 DEF TypeOK
    <3> QED BY <1>4, <3>2 DEF ApplySettlement, TypeOK
  <2> QED BY <1>4, <2>4, <2>5, <2>7, <2>8, <2>9 DEF ApplySettlement, TypeOK, envVars
<1>5. ASSUME NEW t \in Tabs, MarkDelinquent(t)
      PROVE  TypeOK'
  <2>1. tabs' \in [Tabs -> Tab]
    BY <1>5 DEF MarkDelinquent, TypeOK, Tab
  <2>2. Account(t) \in AgentAssets
    BY DEF Tabs, Account, AgentAssets
  <2>3. delinquentTabs' \in [AgentAssets -> Count]
    BY <1>5, <2>2 DEF MarkDelinquent, TypeOK, Count
  <2> QED BY <1>5, <2>1, <2>3 DEF MarkDelinquent, TypeOK, envVars
<1>6. CASE RegistryStep
  <2> DEFINE Registers(s, r, price) ==
         /\ services[s].exists =>
              r.exists /\ r.operator = services[s].operator /\ r.bondAccount = services[s].bondAccount
         /\ services' = [services EXCEPT ![s] = r]
         /\ prices' = [k \in Services \X Assets |->
                         IF k[1] = s THEN price[k[2]] ELSE prices[k]]
         /\ UNCHANGED <<bookVars, free, now>>
  <2>0. \E s \in Services, r \in Service, price \in [Assets -> Prices] : Registers(s, r, price)
    BY <1>6, Zenon DEF RegistryStep
  <2> PICK s \in Services, r \in Service, price \in [Assets -> Prices] : Registers(s, r, price)
    BY <2>0, Zenon
  <2>1. services' \in [Services -> Service]
    BY DEF TypeOK
  <2>2. ASSUME NEW k \in Services \X Assets
        PROVE  (IF k[1] = s THEN price[k[2]] ELSE prices[k]) \in Nat
    <3>1. price[k[2]] \in Nat
      BY <2>2, TabBookAssumption
    <3> QED BY <2>2, <3>1 DEF TypeOK
  <2>3. prices' \in [Services \X Assets -> Nat]
    BY <2>2
  <2> QED BY <1>6, <2>1, <2>3 DEF RegistryStep, TypeOK, bookVars
<1>7. CASE BondStep
  BY <1>7 DEF BondStep, TypeOK, bookVars
<1>8. CASE Tick
  BY <1>8 DEF Tick, TypeOK, bookVars
<1>9. CASE UNCHANGED vars
  BY <1>9 DEF TypeOK, vars, bookVars, envVars
<1> QED BY <1>1, <1>2, <1>3, <1>4, <1>5, <1>6, <1>7, <1>8, <1>9 DEF Next, BookStep, BookCall

\* Every state of the ledger is type-correct.
THEOREM TypeCorrect == Spec => []TypeOK
  BY TypeInit, TypeStep, PTL DEF Spec

-----------------------------------------------------------------------------
(* The books balance.                                                      *)

\* The inductive invariant: the invariants of TabBook, which need each other.
\* That a closed tab is clean lets a delivery start its clock, that nothing is
\* owed beside credit lets a settlement stop it.
IInv ==
  /\ TypeOK
  /\ AssetOpenIsSum
  /\ DelinquentCounted
  /\ OpenTabIsMarkable
  /\ ClosedTabIsClean
  /\ NoDebtBesideCredit
  /\ MeteredIsPaidOrOpen

Opens == [t \in Tabs |-> tabs[t].open]
AmountsPaid == [i \in DOMAIN settlements |-> settlements[i].amount]

\* The settlements of a tab are finitely many, of natural amounts.
LEMMA SettlementsFinite ==
  ASSUME TypeOK, NEW t
  PROVE  /\ IsFiniteSet(SettlementsOf(t))
         /\ \A i \in SettlementsOf(t) : AmountsPaid[i] \in Nat
         /\ Paid(t) \in Nat
<1>1. DOMAIN settlements = 1 .. Len(settlements) /\ Len(settlements) \in Nat
  BY DEF TypeOK
<1>2. IsFiniteSet(DOMAIN settlements)
  BY <1>1, FS_Interval
<1>3. IsFiniteSet(SettlementsOf(t))
  BY <1>2, FS_Subset DEF SettlementsOf
<1>4. \A i \in DOMAIN settlements : settlements[i].amount \in Nat
  <2>1. \A i \in DOMAIN settlements : settlements[i] \in Settlement
    BY DEF TypeOK
  <2> QED BY <2>1, TabBookAssumption DEF Settlement, Amount
<1>5. \A i \in SettlementsOf(t) : AmountsPaid[i] \in Nat
  BY <1>4 DEF SettlementsOf, AmountsPaid
<1>6. Paid(t) \in Nat
  BY <1>3, <1>5, UnitsFinite DEF Paid, AmountsPaid
<1> QED BY <1>3, <1>5, <1>6

LEMMA InvInit == Init => IInv
<1> SUFFICES ASSUME Init PROVE IInv
  OBVIOUS
<1>1. TypeOK
  BY TypeInit
<1>2. AssetOpenIsSum
  BY SumOfZeros DEF Init, AssetOpenIsSum, Owed, TabsOf
<1>3. DelinquentCounted
  <2>1. \A x \in AgentAssets : DelinquentTabs(x) = {}
    BY DEF Init, DelinquentTabs, TabsOf
  <2> QED BY <2>1, FS_EmptySet DEF Init, DelinquentCounted
<1>4. OpenTabIsMarkable /\ ClosedTabIsClean /\ NoDebtBesideCredit
  BY DEF Init, OpenTabIsMarkable, ClosedTabIsClean, NoDebtBesideCredit
<1>5. MeteredIsPaidOrOpen
  <2>1. \A t \in Tabs : Paid(t) = 0
    BY SumOfZeros DEF Init, Paid, SettlementsOf
  <2> QED BY <2>1 DEF Init, MeteredIsPaidOrOpen
<1> QED BY <1>1, <1>2, <1>3, <1>4, <1>5 DEF IInv

\* A step that leaves the tabs, their counters and the settlements alone.
LEMMA FrameInv ==
  ASSUME IInv, TypeOK', now <= now',
         UNCHANGED <<tabs, tabRefs, assetOpen, delinquentTabs, settlements, metered>>
  PROVE  IInv'
<1>1. AssetOpenIsSum'
  BY DEF IInv, AssetOpenIsSum, Owed
<1>2. DelinquentCounted'
  BY DEF IInv, DelinquentCounted, DelinquentTabs
<1>3. OpenTabIsMarkable'
  BY DEF IInv, OpenTabIsMarkable, TypeOK, Tab, Time
<1>4. ClosedTabIsClean' /\ NoDebtBesideCredit'
  BY DEF IInv, ClosedTabIsClean, NoDebtBesideCredit
<1>5. MeteredIsPaidOrOpen'
  BY DEF IInv, MeteredIsPaidOrOpen, Paid, SettlementsOf
<1> QED BY <1>1, <1>2, <1>3, <1>4, <1>5 DEF IInv

\* What is open in an account moves with what is open on one of its tabs.
LEMMA OwedMoves ==
  ASSUME TypeOK, TypeOK', AssetOpenIsSum, NEW t \in Tabs,
         \A u \in Tabs \ {t} : tabs'[u] = tabs[u],
         assetOpen' = [assetOpen EXCEPT ![Account(t)] = @ + (tabs'[t].open - tabs[t].open)]
  PROVE  AssetOpenIsSum'
<1> SUFFICES ASSUME NEW x \in AgentAssets PROVE assetOpen'[x] = Owed(x)'
  BY DEF AssetOpenIsSum
<1>1. Opens \in [Tabs -> Nat] /\ Opens' \in [Tabs -> Nat]
  <2>1. Amount \subseteq Nat
    BY TabBookAssumption DEF Amount
  <2>2. \A u \in Tabs : tabs[u].open \in Nat /\ tabs'[u].open \in Nat
    BY <2>1 DEF TypeOK, Tab
  <2> QED BY <2>2 DEF Opens
<1>2. Owed(x) = SumOf(TabsOf(x), Opens) /\ Owed(x)' = SumOf(TabsOf(x), Opens')
  BY DEF Owed, Opens
<1>3. \A u \in TabsOf(x) : u \in Tabs /\ Opens[u] \in Nat /\ Opens'[u] \in Nat
  BY <1>1 DEF TabsOf
<1>4. \A u \in Tabs \ {t} : Opens'[u] = Opens[u]
  BY DEF Opens
<1>5. assetOpen[x] = Owed(x)
  BY DEF AssetOpenIsSum
<1>6. CASE x = Account(t)
  <2>1. t \in TabsOf(x)
    BY <1>6 DEF TabsOf
  <2>2. \A u \in TabsOf(x) \ {t} : Opens'[u] = Opens[u]
    BY <1>3, <1>4
  <2>3. SumOf(TabsOf(x), Opens') = SumOf(TabsOf(x), Opens) + (Opens'[t] - Opens[t])
    BY <1>3, <2>1, <2>2, TabsOfFinite, SumChanges
  <2>4. assetOpen'[x] = assetOpen[x] + (Opens'[t] - Opens[t])
    BY <1>6 DEF TypeOK, Opens
  <2> QED BY <1>2, <1>5, <2>3, <2>4
<1>7. CASE x # Account(t)
  <2>1. \A u \in TabsOf(x) : Opens'[u] = Opens[u]
    BY <1>3, <1>4, <1>7 DEF TabsOf
  <2>2. assetOpen'[x] = assetOpen[x]
    BY <1>7 DEF TypeOK
  <2> QED BY <1>2, <1>5, <2>1, <2>2, SumSame
<1> QED BY <1>6, <1>7

LEMMA DeliveryInv ==
  ASSUME IInv, NEW caller, NEW t \in Tabs, NEW units \in Nat, NEW price,
         NEW witness, NEW cited, RecordDelivery(caller, t, units, price, witness, cited)
  PROVE  IInv'
<1> DEFINE charged == units * prices[<<t[2], t[3]>>]
           toOpen == ToOpen(tabs[t], charged)
           paid == FromPrepaid(tabs[t], charged)
<1>0. TypeOK'
  BY DeliveryTypeStep DEF IInv
<1>1. TypeOK /\ charged \in Nat /\ tabs[t] \in Tab /\ now \in Nat /\ now \in 1 .. MaxTime
  BY TabBookAssumption DEF IInv, TypeOK, Tabs
<1>2. tabs[t].open + toOpen <= MaxAmount /\ tabs[t].deliveryCount < MaxCount
  BY DEF RecordDelivery
<1>3. toOpen \in Nat /\ paid \in 0 .. tabs[t].prepaid /\ toOpen = charged - paid
  BY <1>1, <1>2, DeliveryType
<1>4. /\ tabs' = [tabs EXCEPT ![t] = TabAfterDelivery(tabs[t], charged)]
      /\ tabRefs' = tabRefs \cup {t}
      /\ assetOpen' = [assetOpen EXCEPT ![Account(t)] = @ + toOpen]
      /\ metered' = [metered EXCEPT ![t] = @ + charged]
      /\ ~tabs[t].delinquent
      /\ UNCHANGED <<settlements, delinquentTabs, now>>
  BY DEF RecordDelivery, MayMeter, envVars
<1> HIDE DEF charged
<1>5. /\ tabs'[t] = TabAfterDelivery(tabs[t], charged)
      /\ \A u \in Tabs \ {t} : tabs'[u] = tabs[u]
  BY <1>1, <1>4 DEF TypeOK
<1>6. /\ tabs'[t].open = tabs[t].open + toOpen
      /\ tabs'[t].prepaid = tabs[t].prepaid - paid
      /\ tabs'[t].lastDeliveryAt = now
      /\ tabs'[t].delinquent = tabs[t].delinquent
      /\ tabs'[t].oldestUnsettledAt = IF toOpen > 0 /\ tabs[t].oldestUnsettledAt = 0
                                      THEN now ELSE tabs[t].oldestUnsettledAt
  BY <1>5 DEF TabAfterDelivery
<1>7. tabs[t].open \in Nat /\ tabs[t].prepaid \in Nat /\ tabs[t].oldestUnsettledAt \in Nat
      /\ tabs[t].lastDeliveryAt \in Nat
  BY <1>1, TabBookAssumption DEF Tab, Amount, Time
<1> HIDE DEF toOpen, paid
<1>8. AssetOpenIsSum'
  <2>1. tabs'[t].open - tabs[t].open = toOpen
    BY <1>3, <1>6, <1>7
  <2> QED BY <1>0, <1>1, <1>4, <1>5, <2>1, OwedMoves DEF IInv
<1>9. DelinquentCounted'
  <2>1. \A x : DelinquentTabs(x)' = DelinquentTabs(x)
    BY <1>5, <1>6 DEF DelinquentTabs, TabsOf
  <2> QED BY <1>4, <2>1 DEF IInv, DelinquentCounted
<1>10. OpenTabIsMarkable'
  <2>1. SUFFICES ASSUME NEW u \in Tabs, tabs'[u].open > 0
                 PROVE  /\ u \in tabRefs'
                        /\ tabs'[u].oldestUnsettledAt \in 1 .. tabs'[u].lastDeliveryAt
                        /\ tabs'[u].lastDeliveryAt <= now'
    BY DEF OpenTabIsMarkable
  <2>2. CASE u # t
    BY <1>4, <1>5, <2>1, <2>2 DEF IInv, OpenTabIsMarkable
  <2>3. CASE u = t /\ tabs[t].open = 0
    <3>1. tabs[t].oldestUnsettledAt = 0 /\ toOpen > 0
      BY <1>3, <1>6, <1>7, <2>1, <2>3 DEF IInv, ClosedTabIsClean
    <3> QED BY <1>1, <1>4, <1>6, <2>3, <3>1
  <2>4. CASE u = t /\ tabs[t].open > 0
    <3>1. /\ tabs[t].oldestUnsettledAt \in 1 .. tabs[t].lastDeliveryAt
          /\ tabs[t].lastDeliveryAt <= now
      BY <2>4 DEF IInv, OpenTabIsMarkable
    <3> QED BY <1>1, <1>4, <1>6, <1>7, <2>4, <3>1
  <2> QED BY <1>7, <2>2, <2>3, <2>4
<1>11. ClosedTabIsClean'
  <2>1. SUFFICES ASSUME NEW u \in Tabs, tabs'[u].open = 0
                 PROVE  ~tabs'[u].delinquent /\ tabs'[u].oldestUnsettledAt = 0
    BY DEF ClosedTabIsClean
  <2>2. CASE u # t
    BY <1>5, <2>1, <2>2 DEF IInv, ClosedTabIsClean
  <2>3. CASE u = t
    <3>1. tabs[t].open = 0 /\ toOpen = 0
      BY <1>3, <1>6, <1>7, <2>1, <2>3
    <3> QED BY <1>4, <1>6, <2>3, <3>1 DEF IInv, ClosedTabIsClean
  <2> QED BY <2>2, <2>3
<1>12. NoDebtBesideCredit'
  <2>1. SUFFICES ASSUME NEW u \in Tabs PROVE tabs'[u].open = 0 \/ tabs'[u].prepaid = 0
    BY DEF NoDebtBesideCredit
  <2>2. CASE u # t
    BY <1>5, <2>2 DEF IInv, NoDebtBesideCredit
  <2>3. CASE u = t
    <3>1. tabs[t].open = 0 \/ tabs[t].prepaid = 0
      BY DEF IInv, NoDebtBesideCredit
    <3>2. toOpen = 0 \/ paid = tabs[t].prepaid
      BY <1>1, <1>3, <1>7 DEF paid, FromPrepaid
    <3> QED BY <1>3, <1>6, <1>7, <2>3, <3>1, <3>2
  <2> QED BY <2>2, <2>3
<1>13. MeteredIsPaidOrOpen'
  <2>1. SUFFICES ASSUME NEW u \in Tabs
                 PROVE  metered'[u] + tabs'[u].prepaid = Paid(u)' + tabs'[u].open
    BY DEF MeteredIsPaidOrOpen
  <2>2. Paid(u)' = Paid(u) /\ Paid(u) \in Nat
    BY <1>0, <1>1, <1>4, SettlementsFinite DEF Paid, SettlementsOf
  <2>3. metered[u] + tabs[u].prepaid = Paid(u) + tabs[u].open
    BY DEF IInv, MeteredIsPaidOrOpen
  <2>4. CASE u # t
    BY <1>1, <1>4, <1>5, <2>2, <2>3, <2>4 DEF TypeOK
  <2>5. CASE u = t
    <3>1. metered'[t] = metered[t] + charged /\ metered[t] \in Nat
      BY <1>1, <1>4 DEF TypeOK
    <3> QED BY <1>0, <1>1, <1>3, <1>6, <1>7, <2>2, <2>3, <2>5, <3>1
  <2> QED BY <2>4, <2>5
<1> QED BY <1>0, <1>8, <1>9, <1>10, <1>11, <1>12, <1>13 DEF IInv

\* The settlement of a tab adds its amount to what is paid on it.
LEMMA PaidMoves ==
  ASSUME TypeOK, TypeOK', NEW t \in Tabs, NEW u \in Tabs, NEW r \in Settlement,
         <<r.agent, r.serviceId, r.asset>> = t, settlements' = Append(settlements, r)
  PROVE  Paid(u)' = Paid(u) + (IF u = t THEN r.amount ELSE 0)
<1> DEFINE n == Len(settlements) + 1
<1>1. settlements \in Seq(Settlement) /\ Len(settlements) \in Nat
  BY DEF TypeOK
<1>2. /\ DOMAIN settlements = 1 .. Len(settlements)
      /\ DOMAIN settlements' = DOMAIN settlements \cup {n} /\ n \notin DOMAIN settlements
      /\ \A i \in DOMAIN settlements : settlements'[i] = settlements[i]
      /\ settlements'[n] = r
  BY <1>1
<1> HIDE DEF n
<1>3. /\ IsFiniteSet(SettlementsOf(u))
      /\ \A i \in SettlementsOf(u) : AmountsPaid[i] \in Nat
      /\ Paid(u) \in Nat
  BY SettlementsFinite
<1>4. \A i \in SettlementsOf(u) : AmountsPaid'[i] = AmountsPaid[i]
  BY <1>2 DEF SettlementsOf, AmountsPaid
<1>5. Paid(u) = SumOf(SettlementsOf(u), AmountsPaid) /\ Paid(u)' = SumOf(SettlementsOf(u)', AmountsPaid')
  BY DEF Paid, AmountsPaid
<1>6. CASE u = t
  <2>1. SettlementsOf(u)' = SettlementsOf(u) \cup {n} /\ n \notin SettlementsOf(u)
    BY <1>2, <1>6 DEF SettlementsOf
  <2>2. AmountsPaid'[n] = r.amount /\ AmountsPaid'[n] \in Nat
    BY <1>2, TabBookAssumption DEF AmountsPaid, Settlement, Amount
  <2>3. SumOf(SettlementsOf(u) \cup {n}, AmountsPaid') = SumOf(SettlementsOf(u), AmountsPaid) + AmountsPaid'[n]
    BY <1>3, <1>4, <2>1, <2>2, SumOfOneMore
  <2> QED BY <1>5, <1>6, <2>1, <2>2, <2>3
<1>7. CASE u # t
  <2>1. SettlementsOf(u)' = SettlementsOf(u)
    BY <1>2, <1>7 DEF SettlementsOf
  <2>2. Paid(u)' = Paid(u)
    BY <1>4, <1>5, <2>1, SumSame
  <2> QED BY <1>3, <1>7, <2>2
<1> QED BY <1>6, <1>7

\* The delinquent tabs of an account are finitely many.
LEMMA DelinquentFinite ==
  ASSUME NEW x \in AgentAssets
  PROVE  IsFiniteSet(DelinquentTabs(x)) /\ Cardinality(DelinquentTabs(x)) \in Nat
<1>1. IsFiniteSet(DelinquentTabs(x))
  BY TabsOfFinite, FS_Subset DEF DelinquentTabs
<1> QED BY <1>1, FS_CardinalityType

\* What a tab and its account are made of.
LEMMA TabParts ==
  ASSUME TypeOK, NEW t \in Tabs
  PROVE  /\ t[1] \in Agents /\ t[2] \in Services /\ t[3] \in Assets
         /\ Account(t) \in AgentAssets /\ prices[<<t[2], t[3]>>] \in Nat
         /\ tabs[t] \in Tab /\ tabs[t].open \in Nat /\ tabs[t].prepaid \in Nat
         /\ auths[t] \in Authorisation
<1>1. t[1] \in Agents /\ t[2] \in Services /\ t[3] \in Assets
  BY DEF Tabs
<1>2. Account(t) \in AgentAssets
  BY <1>1 DEF Account, AgentAssets
<1>3. prices[<<t[2], t[3]>>] \in Nat
  BY <1>1 DEF TypeOK
<1>4. tabs[t] \in Tab /\ auths[t] \in Authorisation
  BY DEF TypeOK
<1>5. tabs[t].open \in Nat /\ tabs[t].prepaid \in Nat
  BY <1>4, TabBookAssumption DEF Tab, Amount
<1> QED BY <1>1, <1>2, <1>3, <1>4, <1>5

LEMMA SettlementInv ==
  ASSUME IInv, TypeOK', NEW caller, NEW t \in Tabs, NEW amount \in Amount,
         ApplySettlement(caller, t, amount)
  PROVE  IInv'
<1> DEFINE applied == Applied(tabs[t], amount)
           x == Account(t)
           ends == SettlesDelinquency(tabs[t], amount)
<1>0. TypeOK /\ amount \in Nat
  BY TabBookAssumption DEF IInv, Amount
<1>1. TypeOK /\ tabs[t] \in Tab /\ x \in AgentAssets /\ amount \in Nat
  BY <1>0, TabParts
<1>2. applied \in 0 .. tabs[t].open /\ applied \in 0 .. amount
  BY <1>1, SettlementType DEF ApplySettlement
<1>3. /\ tabs' = [tabs EXCEPT ![t] = TabAfterSettlement(tabs[t], amount)]
      /\ tabRefs' = tabRefs \cup {t}
      /\ assetOpen' = [assetOpen EXCEPT ![x] = @ - applied]
      /\ delinquentTabs' = IF ends /\ delinquentTabs[x] > 0
                           THEN [delinquentTabs EXCEPT ![x] = @ - 1] ELSE delinquentTabs
      /\ UNCHANGED <<metered, now>>
  BY DEF ApplySettlement, envVars
<1>4. /\ tabs'[t] = TabAfterSettlement(tabs[t], amount)
      /\ \A u \in Tabs \ {t} : tabs'[u] = tabs[u]
  BY <1>1, <1>3 DEF TypeOK
<1>5. /\ tabs'[t].open = tabs[t].open - applied
      /\ tabs'[t].prepaid = tabs[t].prepaid + (amount - applied)
      /\ tabs'[t].lastDeliveryAt = tabs[t].lastDeliveryAt
      /\ tabs'[t].delinquent = (tabs[t].delinquent /\ ~ends)
      /\ tabs'[t].oldestUnsettledAt = IF ClosesTab(tabs[t], amount) THEN 0
                                      ELSE tabs[t].oldestUnsettledAt
  BY <1>1, <1>4 DEF TabAfterSettlement, Tab
<1>6. tabs[t].open \in Nat /\ tabs[t].prepaid \in Nat /\ tabs[t].oldestUnsettledAt \in Nat
      /\ tabs[t].lastDeliveryAt \in Nat /\ tabs[t].delinquent \in BOOLEAN
  BY <1>1, TabBookAssumption DEF Tab, Amount, Time
<1>7. /\ ClosesTab(tabs[t], amount) <=> applied > 0 /\ tabs[t].open = applied
      /\ ends <=> tabs[t].delinquent /\ tabs[t].open = applied
      /\ applied = IF amount < tabs[t].open THEN amount ELSE tabs[t].open
  BY DEF ClosesTab, SettlesDelinquency, Applied
<1> HIDE DEF applied, ends
<1>8. AssetOpenIsSum'
  <2>1. tabs'[t].open - tabs[t].open = -applied
    BY <1>2, <1>5, <1>6
  <2>2. assetOpen[x] - applied = assetOpen[x] + (tabs'[t].open - tabs[t].open)
    BY <1>1, <1>2, <2>1 DEF TypeOK
  <2>3. assetOpen' = [assetOpen EXCEPT ![x] = @ + (tabs'[t].open - tabs[t].open)]
    BY <1>1, <1>3, <2>2 DEF TypeOK
  <2> QED BY <1>1, <1>4, <2>3, OwedMoves DEF IInv
<1>9. DelinquentCounted'
  <2>1. SUFFICES ASSUME NEW y \in AgentAssets
                 PROVE  delinquentTabs'[y] = Cardinality(DelinquentTabs(y)')
    BY DEF DelinquentCounted
  <2>2. delinquentTabs[y] = Cardinality(DelinquentTabs(y))
    BY DEF IInv, DelinquentCounted
  <2>3. CASE ends /\ y = x
    <3>1. DelinquentTabs(y)' = DelinquentTabs(y) \ {t} /\ t \in DelinquentTabs(y)
      BY <1>4, <1>5, <1>7, <2>3 DEF DelinquentTabs, TabsOf
    <3>2. Cardinality(DelinquentTabs(y)') = Cardinality(DelinquentTabs(y)) - 1
      BY <3>1, DelinquentFinite, FS_RemoveElement
    <3>3. Cardinality(DelinquentTabs(y)) # 0
      BY <3>1, DelinquentFinite, FS_EmptySet
    <3>4. delinquentTabs[x] \in Nat /\ delinquentTabs[x] > 0
      BY <2>2, <2>3, <3>3, DelinquentFinite
    <3>5. delinquentTabs'[x] = delinquentTabs[x] - 1
      BY <1>1, <1>3, <2>3, <3>4 DEF TypeOK
    <3> QED BY <2>2, <2>3, <3>2, <3>5
  <2>4. CASE ~(ends /\ y = x)
    <3>1. DelinquentTabs(y)' = DelinquentTabs(y)
      BY <1>4, <1>5, <1>6, <2>4 DEF DelinquentTabs, TabsOf
    <3>2. delinquentTabs'[y] = delinquentTabs[y]
      BY <1>1, <1>3, <2>4 DEF TypeOK
    <3> QED BY <2>2, <3>1, <3>2
  <2> QED BY <2>3, <2>4
<1>10. OpenTabIsMarkable'
  <2>1. SUFFICES ASSUME NEW u \in Tabs, tabs'[u].open > 0
                 PROVE  /\ u \in tabRefs'
                        /\ tabs'[u].oldestUnsettledAt \in 1 .. tabs'[u].lastDeliveryAt
                        /\ tabs'[u].lastDeliveryAt <= now'
    BY DEF OpenTabIsMarkable
  <2>2. CASE u # t
    BY <1>3, <1>4, <2>1, <2>2 DEF IInv, OpenTabIsMarkable
  <2>3. CASE u = t
    <3>1. tabs[t].open > 0 /\ ~ClosesTab(tabs[t], amount)
      BY <1>2, <1>5, <1>6, <1>7, <2>1, <2>3
    <3>2. /\ tabs[t].oldestUnsettledAt \in 1 .. tabs[t].lastDeliveryAt
          /\ tabs[t].lastDeliveryAt <= now
      BY <3>1 DEF IInv, OpenTabIsMarkable
    <3> QED BY <1>3, <1>5, <2>3, <3>1, <3>2
  <2> QED BY <2>2, <2>3
<1>11. ClosedTabIsClean'
  <2>1. SUFFICES ASSUME NEW u \in Tabs, tabs'[u].open = 0
                 PROVE  ~tabs'[u].delinquent /\ tabs'[u].oldestUnsettledAt = 0
    BY DEF ClosedTabIsClean
  <2>2. CASE u # t
    BY <1>4, <2>1, <2>2 DEF IInv, ClosedTabIsClean
  <2>3. CASE u = t
    <3>1. tabs[t].open = applied
      BY <1>2, <1>5, <1>6, <2>1, <2>3
    <3>2. applied = 0 => ~tabs[t].delinquent /\ tabs[t].oldestUnsettledAt = 0
      BY <3>1 DEF IInv, ClosedTabIsClean
    <3>3. ~tabs'[t].delinquent
      BY <1>5, <1>7, <3>1
    <3>4. tabs'[t].oldestUnsettledAt = 0
      <4>1. applied > 0 \/ applied = 0
        BY <1>2
      <4> QED BY <1>5, <1>7, <3>1, <3>2, <4>1
    <3> QED BY <2>3, <3>3, <3>4
  <2> QED BY <2>2, <2>3
<1>12. NoDebtBesideCredit'
  <2>1. SUFFICES ASSUME NEW u \in Tabs PROVE tabs'[u].open = 0 \/ tabs'[u].prepaid = 0
    BY DEF NoDebtBesideCredit
  <2>2. CASE u # t
    BY <1>4, <2>2 DEF IInv, NoDebtBesideCredit
  <2>3. CASE u = t
    <3>1. tabs[t].open = 0 \/ tabs[t].prepaid = 0
      BY DEF IInv, NoDebtBesideCredit
    <3>2. CASE amount < tabs[t].open
      <4>1. applied = amount /\ tabs[t].prepaid = 0
        BY <1>1, <1>6, <1>7, <3>1, <3>2
      <4>2. tabs'[t].prepaid = 0
        BY <1>1, <1>5, <4>1
      <4> QED BY <2>3, <4>2
    <3>3. CASE ~(amount < tabs[t].open)
      <4>1. applied = tabs[t].open
        BY <1>7, <3>3
      <4>2. tabs'[t].open = 0
        BY <1>5, <1>6, <4>1
      <4> QED BY <2>3, <4>2
    <3> QED BY <3>2, <3>3
  <2> QED BY <2>2, <2>3
<1>13. MeteredIsPaidOrOpen'
  <2>1. SUFFICES ASSUME NEW u \in Tabs
                 PROVE  metered'[u] + tabs'[u].prepaid = Paid(u)' + tabs'[u].open
    BY DEF MeteredIsPaidOrOpen
  <2> DEFINE r == [agent |-> t[1], serviceId |-> t[2], asset |-> t[3], amount |-> amount,
                   applied |-> applied, settledAt |-> now]
  <2>2. /\ settlements' = Append(settlements, r)
        /\ r \in Settlement /\ r.amount = amount /\ <<r.agent, r.serviceId, r.asset>> = t
    <3>1. settlements' = Append(settlements, r)
      BY DEF ApplySettlement, applied
    <3>2. applied \in Amount
      BY <1>2, TabBookAssumption DEF Amount
    <3>3. now \in Time
      BY <1>1 DEF TypeOK, Time
    <3>4. r \in Settlement
      BY <3>2, <3>3 DEF Tabs, Settlement
    <3>5. <<r.agent, r.serviceId, r.asset>> = t
      BY DEF Tabs
    <3> QED BY <3>1, <3>4, <3>5
  <2> HIDE DEF r
  <2>3. Paid(u)' = Paid(u) + (IF u = t THEN amount ELSE 0)
    BY <1>1, <2>2, PaidMoves
  <2>4. metered[u] + tabs[u].prepaid = Paid(u) + tabs[u].open /\ metered[u] \in Nat
    BY <1>1 DEF IInv, MeteredIsPaidOrOpen, TypeOK
  <2>5. Paid(u) \in Nat
    BY <1>1, SettlementsFinite
  <2>6. CASE u # t
    <3>1. Paid(u)' = Paid(u)
      BY <2>3, <2>5, <2>6
    <3> QED BY <1>3, <1>4, <2>4, <2>6, <3>1
  <2>7. CASE u = t
    BY <1>1, <1>2, <1>3, <1>5, <1>6, <2>3, <2>4, <2>5, <2>7
  <2> QED BY <2>6, <2>7
<1> QED BY <1>8, <1>9, <1>10, <1>11, <1>12, <1>13 DEF IInv

LEMMA MarkInv ==
  ASSUME IInv, TypeOK', NEW t \in Tabs, MarkDelinquent(t)
  PROVE  IInv'
<1> DEFINE x == Account(t)
<1>1. TypeOK /\ tabs[t] \in Tab /\ x \in AgentAssets
  BY DEF IInv, TypeOK, Tabs, Account, AgentAssets
<1>2. /\ tabs' = [tabs EXCEPT ![t].delinquent = TRUE]
      /\ delinquentTabs' = [delinquentTabs EXCEPT ![x] = @ + 1]
      /\ UNCHANGED <<tabRefs, assetOpen, settlements, metered, now>>
      /\ ~tabs[t].delinquent /\ tabs[t].open # 0
  BY DEF MarkDelinquent, CanMark, envVars
<1>3. /\ \A u \in Tabs \ {t} : tabs'[u] = tabs[u]
      /\ tabs'[t].delinquent
      /\ \A u \in Tabs : /\ tabs'[u].open = tabs[u].open
                         /\ tabs'[u].prepaid = tabs[u].prepaid
                         /\ tabs'[u].oldestUnsettledAt = tabs[u].oldestUnsettledAt
                         /\ tabs'[u].lastDeliveryAt = tabs[u].lastDeliveryAt
  BY <1>1, <1>2 DEF TypeOK, Tab
<1>4. AssetOpenIsSum'
  <2>1. \A y : Owed(y)' = Owed(y)
    <3>1. \A y : \A u \in TabsOf(y) : Opens'[u] = Opens[u]
      BY <1>3 DEF Opens, TabsOf
    <3>2. \A y : SumOf(TabsOf(y), Opens') = SumOf(TabsOf(y), Opens)
      BY <3>1, SumSame
    <3> QED BY <3>2 DEF Owed, Opens
  <2> QED BY <1>2, <2>1 DEF IInv, AssetOpenIsSum
<1>5. DelinquentCounted'
  <2>1. SUFFICES ASSUME NEW y \in AgentAssets
                 PROVE  delinquentTabs'[y] = Cardinality(DelinquentTabs(y)')
    BY DEF DelinquentCounted
  <2>2. delinquentTabs[y] = Cardinality(DelinquentTabs(y))
    BY DEF IInv, DelinquentCounted
  <2>3. CASE y = x
    <3>1. DelinquentTabs(y)' = DelinquentTabs(y) \cup {t} /\ t \notin DelinquentTabs(y)
      BY <1>2, <1>3, <2>3 DEF DelinquentTabs, TabsOf
    <3>2. Cardinality(DelinquentTabs(y)') = Cardinality(DelinquentTabs(y)) + 1
      BY <3>1, DelinquentFinite, FS_AddElement
    <3>3. delinquentTabs'[y] = delinquentTabs[y] + 1
      BY <1>1, <1>2, <2>3 DEF TypeOK
    <3> QED BY <2>2, <3>2, <3>3
  <2>4. CASE y # x
    <3>1. DelinquentTabs(y)' = DelinquentTabs(y)
      BY <1>3, <2>4 DEF DelinquentTabs, TabsOf
    <3>2. delinquentTabs'[y] = delinquentTabs[y]
      BY <1>1, <1>2, <2>4 DEF TypeOK
    <3> QED BY <2>2, <3>1, <3>2
  <2> QED BY <2>3, <2>4
<1>6. OpenTabIsMarkable'
  BY <1>2, <1>3 DEF IInv, OpenTabIsMarkable
<1>7. ClosedTabIsClean' /\ NoDebtBesideCredit'
  BY <1>2, <1>3 DEF IInv, ClosedTabIsClean, NoDebtBesideCredit
<1>8. MeteredIsPaidOrOpen'
  BY <1>2, <1>3 DEF IInv, MeteredIsPaidOrOpen, Paid, SettlementsOf
<1> QED BY <1>4, <1>5, <1>6, <1>7, <1>8 DEF IInv

LEMMA InvStep == IInv /\ [Next]_vars => IInv'
<1> SUFFICES ASSUME IInv, [Next]_vars PROVE IInv'
  OBVIOUS
<1>1. TypeOK'
  BY TypeStep DEF IInv
<1>2. now \in Nat
  BY TabBookAssumption DEF IInv, TypeOK
<1>3. ASSUME NEW caller \in Accounts, NEW surface \in Accounts,
             SetSettlementSurface(caller, surface)
      PROVE  IInv'
  BY <1>1, <1>2, <1>3, FrameInv DEF SetSettlementSurface, envVars
<1>4. ASSUME NEW t \in Tabs, NEW m \in Ceilings, NEW d \in Terms, Authorise(t, m, now + d)
      PROVE  IInv'
  BY <1>1, <1>2, <1>4, FrameInv DEF Authorise, envVars
<1>5. CASE RegistryStep \/ BondStep \/ Tick \/ UNCHANGED vars
  BY <1>1, <1>2, <1>5, FrameInv
     DEF RegistryStep, BondStep, Tick, vars, bookVars, envVars
<1>6. ASSUME NEW caller, NEW t \in Tabs, NEW units \in Units, NEW price, NEW witness, NEW cited,
             RecordDelivery(caller, t, units, price, witness, cited)
      PROVE  IInv'
  BY <1>6, DeliveryInv, TabBookAssumption
<1> QED BY <1>1, <1>3, <1>4, <1>5, <1>6, SettlementInv, MarkInv DEF Next, BookStep, BookCall

\* In every state of the ledger assetOpen is the sum of the open amounts,
\* delinquentTabs the number of delinquent tabs, open tabs can be marked, closed
\* ones are clean, no debt stands beside credit, and all metered is paid or open.
THEOREM BooksBalance ==
  Spec => [](AssetOpenIsSum /\ DelinquentCounted /\ TabIsSound /\ MeteredIsPaidOrOpen)
<1>1. IInv => AssetOpenIsSum /\ DelinquentCounted /\ TabIsSound /\ MeteredIsPaidOrOpen
  BY DEF IInv, TabIsSound
<1> QED BY InvInit, InvStep, <1>1, PTL DEF Spec

\* What an account owes is the sum of its tabs.
THEOREM OpenIsSum == Spec => []AssetOpenIsSum
  BY BooksBalance, PTL

\* Its delinquent tabs are counted.
THEOREM DelinquentsAreCounted == Spec => []DelinquentCounted
  BY BooksBalance, PTL

\* Every debt can be marked, a paid tab is clean, no tab has debt beside credit.
THEOREM TabsAreSound == Spec => []TabIsSound
  BY BooksBalance, PTL

\* Every unit metered is paid or open.
THEOREM MeteringBalances == Spec => []MeteredIsPaidOrOpen
  BY BooksBalance, PTL

-----------------------------------------------------------------------------
(* Delinquency.                                                            *)

\* Nothing is metered to an account with a delinquent tab: that tab keeps
\* assetOpen above zero, and delinquentTabs keeps the limit at zero.
LEMMA DeliveryNeedsNoDelinquent ==
  ASSUME IInv, NEW caller, NEW t \in Tabs, NEW units \in Units, NEW price \in Prices,
         NEW witness, NEW cited, RecordDelivery(caller, t, units, price, witness, cited)
  PROVE  DelinquentTabs(Account(t)) = {}
<1> DEFINE x == Account(t)
           toOpen == ToOpen(tabs[t], units * prices[<<t[2], t[3]>>])
<1>1. TypeOK /\ x \in AgentAssets /\ assetOpen[x] \in Nat
  BY DEF IInv, TypeOK, Tabs, Account, AgentAssets
<1>2. toOpen \in Nat
  <2>1. units * prices[<<t[2], t[3]>>] \in Nat /\ tabs[t] \in Tab
    BY <1>1, TabBookAssumption DEF TypeOK, Tabs
  <2> QED BY <1>1, <2>1, DeliveryType DEF RecordDelivery
<1>3. HasHeadroom(x, toOpen, witness, cited)
  BY DEF RecordDelivery
<1> HIDE DEF x, toOpen
<1> SUFFICES ASSUME NEW u \in DelinquentTabs(x) PROVE FALSE
  BY DEF x
<1>4. Cardinality(DelinquentTabs(x)) # 0
  BY <1>1, DelinquentFinite, FS_EmptySet
<1>5. delinquentTabs[x] > 0
  BY <1>1, <1>4, DelinquentFinite DEF IInv, DelinquentCounted
<1>6. assetOpen[x] + toOpen <= 0
  BY <1>3, <1>5 DEF HasHeadroom, LimitOf
<1>7. u \in TabsOf(x) /\ u \in Tabs /\ tabs[u].open \in Nat /\ tabs[u].open # 0
  <2>1. u \in TabsOf(x) /\ u \in Tabs /\ tabs[u].delinquent
    BY DEF DelinquentTabs, TabsOf
  <2>2. tabs[u].open \in Nat
    BY <1>1, <2>1, TabBookAssumption DEF TypeOK, Tab, Amount
  <2> QED BY <2>1, <2>2 DEF IInv, ClosedTabIsClean
<1>8. tabs[u].open <= Owed(x)
  <2>1. \A v \in TabsOf(x) : Opens[v] \in Nat
    BY <1>1, TabBookAssumption DEF TabsOf, Opens, TypeOK, Tab, Amount
  <2>2. Opens[u] <= SumOf(TabsOf(x), Opens)
    BY <1>1, <1>7, <2>1, TabsOfFinite, SumBounds
  <2> QED BY <1>7, <2>2 DEF Owed, Opens
<1>9. assetOpen[x] = Owed(x)
  BY <1>1 DEF IInv, AssetOpenIsSum
<1> QED BY <1>1, <1>2, <1>6, <1>7, <1>8, <1>9

\* Nothing is metered to an account while one of its tabs is delinquent.
THEOREM DelinquencyFreezes == Spec => DelinquentAccountIsFrozen
<1> DEFINE A == \A t \in Tabs : DelinquentTabs(Account(t)) # {} => metered'[t] = metered[t]
<1>1. IInv /\ [Next]_vars => [A]_vars
  <2> SUFFICES ASSUME IInv, Next, NEW t \in Tabs, DelinquentTabs(Account(t)) # {}
               PROVE  metered'[t] = metered[t]
    OBVIOUS
  <2>1. CASE metered' = metered
    BY <2>1
  <2>2. ASSUME NEW caller \in Accounts, NEW u \in Tabs, NEW units \in Units,
               NEW price \in Prices, NEW witness, NEW cited,
               RecordDelivery(caller, u, units, price, witness, cited)
        PROVE  metered'[t] = metered[t]
    <3>1. u # t
      BY <2>2, DeliveryNeedsNoDelinquent
    <3>2. metered' = [metered EXCEPT ![u] = @ + units * prices[<<u[2], u[3]>>]]
      BY <2>2 DEF RecordDelivery
    <3> QED BY <3>1, <3>2 DEF IInv, TypeOK
  <2>3. \/ metered' = metered
        \/ \E caller \in Accounts, u \in Tabs, units \in Units, price \in Prices,
              witness \in {history[x] : x \in AgentAssets},
              cited \in SUBSET (Services \X Assets) :
             RecordDelivery(caller, u, units, price, witness, cited)
    BY DEF Next, BookStep, BookCall, SetSettlementSurface, Authorise, ApplySettlement, MarkDelinquent,
           RegistryStep, BondStep, Tick, bookVars
  <2> QED BY <2>1, <2>2, <2>3
<1> QED BY <1>1, InvInit, InvStep, PTL DEF Spec, DelinquentAccountIsFrozen

\* Only a settlement that leaves nothing open lifts a delinquency.
THEOREM DelinquencyIsSettled == Spec => DelinquencyEndsInSettlement
<1> DEFINE A == \A t \in Tabs : tabs[t].delinquent /\ ~tabs'[t].delinquent =>
                  tabs'[t].open = 0 /\ Len(settlements') > Len(settlements)
<1>1. IInv /\ [Next]_vars => [A]_vars
  <2> SUFFICES ASSUME IInv, Next, NEW t \in Tabs, tabs[t].delinquent, ~tabs'[t].delinquent
               PROVE  tabs'[t].open = 0 /\ Len(settlements') > Len(settlements)
    OBVIOUS
  <2>1. TypeOK /\ tabs[t] \in Tab
    BY DEF IInv, TypeOK
  <2>2. ASSUME NEW caller \in Accounts, NEW u \in Tabs, NEW units \in Units,
               NEW price \in Prices, NEW witness, NEW cited,
               RecordDelivery(caller, u, units, price, witness, cited)
        PROVE  FALSE
    <3>1. /\ tabs' = [tabs EXCEPT ![u] =
                        TabAfterDelivery(tabs[u], units * prices[<<u[2], u[3]>>])]
          /\ ~tabs[u].delinquent
      BY <2>2 DEF RecordDelivery, MayMeter
    <3> QED BY <2>1, <3>1 DEF TypeOK
  <2>3. ASSUME NEW caller \in Accounts, NEW u \in Tabs, NEW amount \in Amount,
               ApplySettlement(caller, u, amount)
        PROVE  tabs'[t].open = 0 /\ Len(settlements') > Len(settlements)
    <3>1. /\ tabs' = [tabs EXCEPT ![u] = TabAfterSettlement(tabs[u], amount)]
          /\ settlements' = Append(settlements,
               [agent |-> u[1], serviceId |-> u[2], asset |-> u[3], amount |-> amount,
                applied |-> Applied(tabs[u], amount), settledAt |-> now])
      BY <2>3 DEF ApplySettlement
    <3>2. u = t
      BY <2>1, <3>1 DEF TypeOK
    <3>3. /\ tabs'[t].delinquent = (tabs[t].delinquent /\ ~SettlesDelinquency(tabs[t], amount))
          /\ tabs'[t].open = tabs[t].open - Applied(tabs[t], amount)
      BY <2>1, <3>1, <3>2 DEF TypeOK, Tab, TabAfterSettlement
    <3>4. tabs[t].open = Applied(tabs[t], amount)
      BY <3>3 DEF SettlesDelinquency
    <3>5. tabs[t].open \in Nat
      BY <2>1, TabBookAssumption DEF Tab, Amount
    <3>6. Len(settlements') = Len(settlements) + 1 /\ Len(settlements) \in Nat
      BY <2>1, <3>1 DEF TypeOK
    <3> QED BY <3>3, <3>4, <3>5, <3>6
  <2>4. ASSUME NEW u \in Tabs, MarkDelinquent(u) PROVE FALSE
    BY <2>1, <2>4 DEF MarkDelinquent, TypeOK, Tab
  <2>5. tabs' # tabs
    OBVIOUS
  <2> QED BY <2>2, <2>3, <2>4, <2>5
          DEF Next, BookStep, BookCall, SetSettlementSurface, Authorise, RegistryStep,
              BondStep, Tick, bookVars
<1> QED BY <1>1, InvInit, InvStep, PTL DEF Spec, DelinquencyEndsInSettlement

-----------------------------------------------------------------------------
(* What credit rests on.                                                   *)

\* Only a delivery raises what is open in an account, and to within its limit.
LEMMA OpensWithinLimit ==
  ASSUME TypeOK, Next, NEW x \in AgentAssets, assetOpen'[x] > assetOpen[x]
  PROVE  \E cited \in SUBSET (Services \X Assets) :
           /\ HasLimit(x, history[x], cited)
           /\ delinquentTabs[x] = 0 /\ assetOpen'[x] > 0
           /\ assetOpen'[x] <= creditLimit(history[x], ResolvedBonds(cited), Params(x))
<1>1. assetOpen \in [AgentAssets -> Nat] /\ delinquentTabs[x] \in Nat
  BY TabBookAssumption DEF TypeOK, Count
<1>2. ASSUME NEW caller \in Accounts, NEW t \in Tabs, NEW units \in Units, NEW price \in Prices,
             NEW witness, NEW cited \in SUBSET (Services \X Assets),
             RecordDelivery(caller, t, units, price, witness, cited)
      PROVE  /\ HasLimit(x, history[x], cited)
             /\ delinquentTabs[x] = 0 /\ assetOpen'[x] > 0
             /\ assetOpen'[x] <= creditLimit(history[x], ResolvedBonds(cited), Params(x))
  <2> DEFINE toOpen == ToOpen(tabs[t], units * prices[<<t[2], t[3]>>])
  <2>1. toOpen \in Nat
    <3>1. units * prices[<<t[2], t[3]>>] \in Nat /\ tabs[t] \in Tab
      BY TabBookAssumption DEF TypeOK, Tabs
    <3> QED BY <1>2, <3>1, DeliveryType DEF RecordDelivery
  <2>2. /\ HasHeadroom(Account(t), toOpen, witness, cited)
        /\ assetOpen' = [assetOpen EXCEPT ![Account(t)] = @ + toOpen]
    BY <1>2 DEF RecordDelivery
  <2> HIDE DEF toOpen
  <2>3. Account(t) = x /\ assetOpen'[x] = assetOpen[x] + toOpen
    BY <1>1, <2>2
  <2>4. /\ HasLimit(x, history[x], cited) /\ witness = history[x]
        /\ assetOpen[x] + toOpen <= LimitOf(x, history[x], cited)
    BY <2>2, <2>3 DEF HasHeadroom, HasLimit, WitnessAccepted
  <2>5. assetOpen'[x] > 0
    BY <1>1, <2>1, <2>3
  <2>6. delinquentTabs[x] = 0
    <3>1. delinquentTabs[x] > 0 => LimitOf(x, history[x], cited) = 0
      BY DEF LimitOf
    <3> QED BY <1>1, <2>1, <2>3, <2>4, <2>5, <3>1
  <2> QED BY <2>3, <2>4, <2>5, <2>6 DEF LimitOf
<1>3. ASSUME NEW caller \in Accounts, NEW t \in Tabs, NEW amount \in Amount,
             ApplySettlement(caller, t, amount)
      PROVE  FALSE
  <2>1. /\ Applied(tabs[t], amount) \in Nat
        /\ assetOpen' = [assetOpen EXCEPT ![Account(t)] = @ - Applied(tabs[t], amount)]
    <3>1. tabs[t].open \in Nat /\ amount \in Nat
      BY TabBookAssumption DEF TypeOK, Tab, Amount
    <3> QED BY <1>3, <3>1 DEF ApplySettlement, Applied
  <2> QED BY <1>1, <2>1
<1>4. CASE assetOpen' = assetOpen
  BY <1>1, <1>4
<1>5. \/ assetOpen' = assetOpen
      \/ \E caller \in Accounts, t \in Tabs, units \in Units, price \in Prices,
            witness \in {history[y] : y \in AgentAssets},
            cited \in SUBSET (Services \X Assets) :
           RecordDelivery(caller, t, units, price, witness, cited)
      \/ \E caller \in Accounts, t \in Tabs, amount \in Amount :
           ApplySettlement(caller, t, amount)
  BY DEF Next, BookStep, BookCall, SetSettlementSurface, Authorise, MarkDelinquent,
         RegistryStep, BondStep, Tick, bookVars
<1> QED BY <1>2, <1>3, <1>4, <1>5

\* The limit is computed over a typed history and typed Bonds.
LEMMA EvaluatesTyped ==
  ASSUME TypeOK, NEW x \in AgentAssets, NEW cited \in SUBSET (Services \X Assets),
         \A e \in cited : services[e[1]].exists
  PROVE  /\ IsHistory(history[x]) /\ IsParams(Params(x))
         /\ IsFiniteSet(ResolvedBonds(cited)) /\ \A b \in ResolvedBonds(cited) : b.amount \in Nat
<1>1. IsHistory(history[x])
  <2>1. history[x] \in Seq(SettlementRecord)
    BY DEF TypeOK
  <2>2. \A r \in SettlementRecord : r.amount \in Nat /\ r.settledAt \in Int
    BY TabBookAssumption DEF SettlementRecord, Amount, Time
  <2> HIDE DEF TypeOK
  <2>3. /\ Len(history[x]) \in Nat /\ DOMAIN history[x] = 1 .. Len(history[x])
        /\ \A i \in DOMAIN history[x] : history[x][i] \in SettlementRecord
    BY <2>1
  <2> QED BY <2>2, <2>3 DEF IsHistory
<1>2. IsParams(Params(x))
  BY TabBookAssumption DEF TypeOK, IsParams, Params
<1>3. IsFiniteSet(cited)
  BY TabBookAssumption, FS_Product, FS_Subset
<1> DEFINE bond == [e \in cited |-> [serviceId |-> e[1], asset |-> e[2],
                      amount |-> free[<<services[e[1]].bondAccount, e[2]>>]]]
<1>4. bond \in Surjection(cited, ResolvedBonds(cited))
  BY DEF ResolvedBonds, Surjection
<1>5. IsFiniteSet(ResolvedBonds(cited))
  <2> HIDE DEF bond
  <2> QED BY <1>3, <1>4, FS_Surjection
<1>6. ASSUME NEW e \in cited PROVE free[<<services[e[1]].bondAccount, e[2]>>] \in Nat
  <2>1. services[e[1]] \in Service /\ services[e[1]].exists /\ e[2] \in Assets
    BY DEF TypeOK
  <2>2. services[e[1]].bondAccount \in Accounts
    BY <2>1 DEF Service
  <2> QED BY <2>1, <2>2 DEF TypeOK
<1>7. ASSUME NEW b \in ResolvedBonds(cited) PROVE b.amount \in Nat
  <2>1. PICK e \in cited :
          b = [serviceId |-> e[1], asset |-> e[2],
               amount |-> free[<<services[e[1]].bondAccount, e[2]>>]]
    BY DEF ResolvedBonds
  <2>2. b.amount = free[<<services[e[1]].bondAccount, e[2]>>]
    BY <2>1
  <2> QED BY <1>6, <2>2
<1> QED BY <1>1, <1>2, <1>5, <1>7

LEMMA CitableOK ==
  ASSUME NEW x \in AgentAssets
  PROVE  LET known == {<<s, x[2]>> : s \in CitableServices(x)}
         IN  known \in SUBSET (Services \X Assets) /\ \A e \in known : services[e[1]].exists
<1>1. x[2] \in Assets
  BY DEF AgentAssets
<1>2. ASSUME NEW s \in CitableServices(x)
      PROVE  <<s, x[2]>> \in Services \X Assets /\ services[<<s, x[2]>>[1]].exists
  BY <1>1 DEF CitableServices
<1> QED BY <1>2

\* What a Service cites in the Asset of the account is part of what all the
\* counterparties of the Agent have in Bonds.
LEMMA CitedWithinStakes ==
  ASSUME TypeOK, NEW x \in AgentAssets, NEW cited \in SUBSET (Services \X Assets),
         BondsResolve(x, cited)
  PROVE  BondSum(ResolvedBonds(cited), x[2]) <= CounterpartyStake(x)
<1> DEFINE known == {<<s, x[2]>> : s \in CitableServices(x)}
           B == ResolvedBonds(cited)
           K == ResolvedBonds(known)
           S == {b \in B : b.asset = x[2]}
           T == {b \in K : b.asset = x[2]}
           v == [b \in B |-> b.amount]
           w == [b \in K |-> b.amount]
<1>1. known \in SUBSET (Services \X Assets) /\ \A e \in known : services[e[1]].exists
  BY CitableOK
<1>2. IsFiniteSet(B) /\ \A b \in B : b.amount \in Nat
  BY EvaluatesTyped DEF BondsResolve
<1>3. IsFiniteSet(K) /\ \A b \in K : b.amount \in Nat
  <2> HIDE DEF known
  <2> QED BY <1>1, EvaluatesTyped
<1>4. S \subseteq T
  <2> SUFFICES ASSUME NEW b \in S PROVE b \in K
    OBVIOUS
  <2>1. PICK e \in cited :
          b = [serviceId |-> e[1], asset |-> e[2],
               amount |-> free[<<services[e[1]].bondAccount, e[2]>>]]
    BY DEF ResolvedBonds
  <2>2. e[2] = x[2] /\ e[1] \in Services /\ e = <<e[1], e[2]>>
    BY <2>1
  <2>3. IsCounterparty(<<x[1], e[1], x[2]>>) /\ services[e[1]].exists
    BY <2>2 DEF BondsResolve
  <2>4. e \in known
    BY <2>2, <2>3 DEF CitableServices
  <2> HIDE DEF known
  <2> QED BY <2>1, <2>4 DEF ResolvedBonds
<1>5. BondSum(B, x[2]) = SumOf(S, v) /\ BondSum(K, x[2]) = SumOf(T, w)
  <2> HIDE DEF B, K
  <2> QED BY <1>2, <1>3, BondSumIs
<1>6. /\ IsFiniteSet(T) /\ (\A b \in T : w[b] \in Nat)
      /\ \A b \in S : v[b] \in Int /\ v[b] <= w[b]
  <2> HIDE DEF B, K, known
  <2>1. IsFiniteSet(T)
    BY <1>3, FS_Subset
  <2>2. \A b \in T : w[b] \in Nat
    BY <1>3
  <2>3. \A b \in S : v[b] \in Int /\ v[b] = w[b]
    BY <1>2, <1>4
  <2> QED BY <2>1, <2>2, <2>3
<1>7. SumOf(S, v) <= SumOf(T, w)
  <2> HIDE DEF S, T, v, w
  <2> QED BY <1>4, <1>6, SumMonotone
<1> QED BY <1>5, <1>7 DEF CounterpartyStake

\* R13.7, R17.1: every delivery that is metered on credit leaves the account
\* owing less than what its counterparties have in Bonds at that moment.
THEOREM CreditStaysWithinStakes == Spec => CreditWithinStakes
<1>1. TypeOK /\ [Next]_vars =>
        [\A x \in AgentAssets :
           assetOpen'[x] > assetOpen[x] => assetOpen'[x] < CounterpartyStake(x)]_vars
  <2> SUFFICES ASSUME TypeOK, Next, TypeOK', NEW x \in AgentAssets, assetOpen'[x] > assetOpen[x]
               PROVE  assetOpen'[x] < CounterpartyStake(x)
    BY TypeStep
  <2>1. PICK cited \in SUBSET (Services \X Assets) :
          /\ HasLimit(x, history[x], cited)
          /\ delinquentTabs[x] = 0 /\ assetOpen'[x] > 0
          /\ assetOpen'[x] <= creditLimit(history[x], ResolvedBonds(cited), Params(x))
    BY OpensWithinLimit
  <2> DEFINE B == ResolvedBonds(cited)
             L == creditLimit(history[x], B, Params(x))
  <2>2. BondsResolve(x, cited)
    BY <2>1 DEF HasLimit
  <2>3. /\ IsHistory(history[x]) /\ IsParams(Params(x))
        /\ IsFiniteSet(B) /\ \A b \in B : b.amount \in Nat
    BY <2>2, EvaluatesTyped DEF BondsResolve
  <2>4. Params(x).asset = x[2]
    BY DEF Params
  <2>5. L \in Nat /\ L <= bondCap(B, x[2])
    <3> HIDE DEF B
    <3> QED BY <2>3, <2>4, LimitType
  <2>6. BondSum(B, x[2]) <= CounterpartyStake(x)
    BY <2>2, CitedWithinStakes
  <2> HIDE DEF B, L
  <2>7. bondCap(B, x[2]) \in Nat /\ BondSum(B, x[2]) \in Nat
    BY <2>3, CapType
  <2>8. assetOpen'[x] \in Nat /\ assetOpen'[x] <= L
    BY <2>1 DEF TypeOK, L, B
  <2>9. bondCap(B, x[2]) > 0
    BY <2>1, <2>5, <2>7, <2>8
  <2>10. bondCap(B, x[2]) < BondSum(B, x[2])
    BY <2>3, <2>9, CapBelowBonds
  <2>11. CounterpartyStake(x) \in Nat
    <3> DEFINE known == {<<s, x[2]>> : s \in CitableServices(x)}
    <3>1. known \in SUBSET (Services \X Assets) /\ \A e \in known : services[e[1]].exists
      BY CitableOK
    <3>2. CounterpartyStake(x) = BondSum(ResolvedBonds(known), x[2])
      BY DEF CounterpartyStake
    <3> HIDE DEF known
    <3> QED BY <3>1, <3>2, EvaluatesTyped, CapType
  <2> QED BY <2>5, <2>6, <2>7, <2>8, <2>10, <2>11
<1> QED BY <1>1, TypeCorrect, PTL DEF Spec, CreditWithinStakes

\* Every record of a history is of a settlement of the Agent with that Service,
\* at that time, and has of the first delivery what the tab has, or nothing if
\* the settlement came before it.
TabFor(x, r) == <<x[1], r.serviceId, x[2]>>
IsSettled(x, r) ==
  /\ r.asset = x[2]
  /\ r.firstDeliveryAt \in {0, firstDeliveryAt[TabFor(x, r)]}
  /\ \E j \in SettlementsOf(TabFor(x, r)) : settlements[j].settledAt = r.settledAt
HistoryIsSettled ==
  \A x \in AgentAssets : \A i \in DOMAIN history[x] : IsSettled(x, history[x][i])

LEMMA HistoryStep ==
  ASSUME TypeOK, HistoryIsSettled, [Next]_vars
  PROVE  HistoryIsSettled'
<1> SUFFICES ASSUME NEW x \in AgentAssets, NEW i \in DOMAIN history'[x]
             PROVE  IsSettled(x, history[x][i])'
  BY DEF HistoryIsSettled
<1>1. /\ history[x] \in Seq(SettlementRecord) /\ settlements \in Seq(Settlement)
      /\ x[1] \in Agents /\ x[2] \in Assets /\ x = <<x[1], x[2]>>
  BY DEF TypeOK, AgentAssets
<1>2. \A k \in DOMAIN history[x] :
        IsSettled(x, history[x][k]) /\ TabFor(x, history[x][k]) \in Tabs
  <2>1. \A r \in SettlementRecord : r.serviceId \in Services
    BY DEF SettlementRecord
  <2>2. \A k \in DOMAIN history[x] : history[x][k] \in SettlementRecord
    BY <1>1
  <2> QED BY <1>1, <2>1, <2>2 DEF HistoryIsSettled, TabFor, Tabs
<1>3. ASSUME NEW caller \in Accounts, NEW u \in Tabs, NEW amount \in Amount,
             ApplySettlement(caller, u, amount)
      PROVE  IsSettled(x, history[x][i])'
  <2> DEFINE entry == [agent |-> u[1], serviceId |-> u[2], asset |-> u[3], amount |-> amount,
                       applied |-> Applied(tabs[u], amount), settledAt |-> now]
             n == Len(settlements)
  <2>1. /\ settlements' = Append(settlements, entry)
        /\ history' = [history EXCEPT ![Account(u)] = Append(@, RecordOf(u, amount))]
        /\ firstDeliveryAt' = firstDeliveryAt
    BY <1>3 DEF ApplySettlement
  <2>2. /\ \A j \in DOMAIN settlements : j \in DOMAIN settlements' /\ settlements'[j] = settlements[j]
        /\ n + 1 \in DOMAIN settlements' /\ settlements'[n + 1] = entry
    <3> HIDE DEF entry
    <3> QED BY <1>1, <2>1
  <2>3. CASE x = Account(u) /\ i = Len(history[x]) + 1
    <3>1. history'[x][i] = RecordOf(u, amount)
      <4> HIDE DEF entry
      <4> QED BY <1>1, <2>1, <2>3 DEF TypeOK
    <3>2. /\ u = <<u[1], u[2], u[3]>> /\ u[1] = x[1] /\ u[3] = x[2]
          /\ RecordOf(u, amount).serviceId = u[2] /\ RecordOf(u, amount).asset = u[3]
          /\ RecordOf(u, amount).settledAt = now
          /\ RecordOf(u, amount).firstDeliveryAt = firstDeliveryAt[u]
      BY <2>3 DEF RecordOf, Account, Tabs
    <3>3. n + 1 \in SettlementsOf(u)' /\ settlements'[n + 1].settledAt = now
      BY <2>2, <3>2 DEF SettlementsOf
    <3>4. TabFor(x, RecordOf(u, amount)) = u
      BY <3>2 DEF TabFor
    <3> QED BY <2>1, <3>1, <3>2, <3>3, <3>4 DEF IsSettled
  <2>4. CASE ~(x = Account(u) /\ i = Len(history[x]) + 1)
    <3>1. i \in DOMAIN history[x] /\ history'[x][i] = history[x][i]
      <4> HIDE DEF entry
      <4>1. CASE x = Account(u)
        <5>1. history'[x] = Append(history[x], RecordOf(u, amount))
          BY <2>1, <4>1 DEF TypeOK
        <5> QED BY <1>1, <2>4, <4>1, <5>1
      <4>2. CASE x # Account(u)
        <5>1. history'[x] = history[x]
          BY <2>1, <4>2 DEF TypeOK
        <5> QED BY <5>1
      <4> QED BY <4>1, <4>2
    <3>2. \A t : SettlementsOf(t) \subseteq SettlementsOf(t)'
      BY <2>2 DEF SettlementsOf
    <3>3. \A t : \A j \in SettlementsOf(t) : settlements'[j] = settlements[j]
      BY <2>2 DEF SettlementsOf
    <3> QED BY <1>2, <2>1, <3>1, <3>2, <3>3, ZenonT(60) DEF IsSettled
  <2> QED BY <2>3, <2>4
<1>4. ASSUME UNCHANGED <<settlements, history>>,
             \A t \in Tabs : firstDeliveryAt[t] # 0 => firstDeliveryAt'[t] = firstDeliveryAt[t]
      PROVE  IsSettled(x, history[x][i])'
  <2>1. /\ i \in DOMAIN history[x] /\ history'[x][i] = history[x][i]
        /\ \A t : SettlementsOf(t)' = SettlementsOf(t)
    BY <1>4 DEF SettlementsOf
  <2> QED BY <1>2, <1>4, <2>1 DEF IsSettled
<1>5. ASSUME NEW caller \in Accounts, NEW t \in Tabs, NEW units, NEW price, NEW witness, NEW cited,
             RecordDelivery(caller, t, units, price, witness, cited)
      PROVE  IsSettled(x, history[x][i])'
  <2>1. /\ UNCHANGED <<settlements, history>>
        /\ \A u \in Tabs : firstDeliveryAt[u] # 0 => firstDeliveryAt'[u] = firstDeliveryAt[u]
    BY <1>5 DEF RecordDelivery, TypeOK
  <2> QED BY <1>4, <2>1
<1>6. CASE UNCHANGED <<settlements, history, firstDeliveryAt>>
  BY <1>4, <1>6
<1>7. \/ UNCHANGED <<settlements, history, firstDeliveryAt>>
      \/ \E caller \in Accounts, t \in Tabs, units \in Units, price \in Prices,
            witness \in {history[y] : y \in AgentAssets},
            cited \in SUBSET (Services \X Assets) :
           RecordDelivery(caller, t, units, price, witness, cited)
      \/ \E caller \in Accounts, t \in Tabs, amount \in Amount :
           ApplySettlement(caller, t, amount)
  BY DEF Next, BookStep, BookCall, SetSettlementSurface, Authorise, MarkDelinquent,
         RegistryStep, BondStep, Tick, vars, bookVars
<1> QED BY <1>3, <1>5, <1>6, <1>7

\* R17.5: credit beyond the baseline is borrowed only by an Agent that three
\* Services were paid by after delivering to it.
THEOREM CreditIsEarned == Spec => BorrowingIsEarned
<1> DEFINE Earned(x) == assetOpen'[x] > assetOpen[x] /\ assetOpen'[x] > Baseline =>
                          Cardinality(PaidAfterDelivery(x)) >= 3
<1>1. TypeOK /\ HistoryIsSettled /\ [Next]_vars => [\A x \in AgentAssets : Earned(x)]_vars
  <2> SUFFICES ASSUME TypeOK, TypeOK', HistoryIsSettled, Next, NEW x \in AgentAssets,
                      assetOpen'[x] > assetOpen[x], assetOpen'[x] > Baseline
               PROVE  Cardinality(PaidAfterDelivery(x)) >= 3
    BY TypeStep
  <2>1. PICK cited \in SUBSET (Services \X Assets) :
          /\ HasLimit(x, history[x], cited)
          /\ delinquentTabs[x] = 0 /\ assetOpen'[x] > 0
          /\ assetOpen'[x] <= creditLimit(history[x], ResolvedBonds(cited), Params(x))
    BY OpensWithinLimit
  <2> DEFINE p == Params(x)
             h == history[x]
             B == ResolvedBonds(cited)
             C == Counterparties(h, p)
             L == creditLimit(h, B, p)
             cap == bondCap(B, p.asset)
  <2>2. IsHistory(h) /\ IsParams(p) /\ IsFiniteSet(B) /\ \A b \in B : b.amount \in Nat
    BY <2>1, EvaluatesTyped DEF HasLimit, BondsResolve
  <2>3. p.baseline = Baseline /\ p.asset = x[2] /\ Baseline \in Nat
    BY TabBookAssumption DEF Params
  <2>4. C \subseteq PaidAfterDelivery(x)
    <3> SUFFICES ASSUME NEW i \in Counting(h, p) PROVE h[i].serviceId \in PaidAfterDelivery(x)
      BY DEF Counterparties
    <3> DEFINE r == h[i]
               t == <<x[1], r.serviceId, x[2]>>
    <3>1. i \in DOMAIN h /\ r.firstDeliveryAt # 0 /\ r.firstDeliveryAt < r.settledAt
      BY DEF Counting, Counts
    <3>2. /\ r.firstDeliveryAt \in {0, firstDeliveryAt[t]}
          /\ \E j \in SettlementsOf(t) : settlements[j].settledAt = r.settledAt
      BY <3>1 DEF HistoryIsSettled, IsSettled, TabFor
    <3>3. r \in SettlementRecord
      <4>1. h \in Seq(SettlementRecord)
        BY DEF TypeOK
      <4> HIDE DEF h, p
      <4> QED BY <3>1, <4>1
    <3>4. /\ r.serviceId \in Services /\ r.firstDeliveryAt \in Nat /\ r.settledAt \in Nat
      BY <3>3, TabBookAssumption DEF SettlementRecord, Time
    <3> HIDE DEF h, p, r
    <3>5. firstDeliveryAt[t] \in 1 .. (r.settledAt - 1)
      BY <3>1, <3>2, <3>4
    <3> QED BY <3>2, <3>4, <3>5 DEF PaidAfterDelivery, r
  <2>5. IsFiniteSet(PaidAfterDelivery(x))
    BY TabBookAssumption, FS_Subset DEF PaidAfterDelivery
  <2>6. cap \in Nat /\ assetOpen'[x] \in Nat /\ assetOpen'[x] <= L
    <3>1. assetOpen'[x] \in Nat /\ assetOpen'[x] <= L
      BY <2>1 DEF TypeOK
    <3> HIDE DEF p, B, L
    <3> QED BY <2>2, <3>1, CapType
  <2>7. Cardinality(C) < MinCounterparties => L = Least(Baseline, cap)
    BY <2>3 DEF creditLimit
  <2> HIDE DEF p, h, B, C, L, cap
  <2>8. ~(Cardinality(C) < MinCounterparties)
    BY <2>3, <2>6, <2>7 DEF Least
  <2>9. Cardinality(C) <= Cardinality(PaidAfterDelivery(x)) /\ IsFiniteSet(C)
    BY <2>4, <2>5, FS_Subset
  <2>10. Cardinality(C) \in Nat /\ Cardinality(PaidAfterDelivery(x)) \in Nat
    BY <2>5, <2>9, FS_CardinalityType
  <2> QED BY <2>8, <2>9, <2>10 DEF MinCounterparties
<1>2. Init => HistoryIsSettled
  BY DEF Init, HistoryIsSettled
<1>3. TypeOK /\ HistoryIsSettled /\ [Next]_vars => HistoryIsSettled'
  BY HistoryStep
<1> QED BY <1>1, <1>2, <1>3, TypeCorrect, PTL DEF Spec, BorrowingIsEarned

-----------------------------------------------------------------------------
(* The clock of a tab.                                                     *)

\* What a step may do to the clock of a tab: it stays while something is open,
\* and does not start later than now.
ClockMoves(t) ==
  /\ tabs'[t].open \in Nat
  /\ tabs[t].open > 0 /\ tabs'[t].open > 0 =>
       tabs'[t].oldestUnsettledAt = tabs[t].oldestUnsettledAt
  /\ tabs[t].open = 0 /\ tabs'[t].open > 0 => tabs'[t].oldestUnsettledAt <= now

LEMMA ClockSteps ==
  ASSUME IInv, IInv', [Next]_vars
  PROVE  \A t \in Tabs : ClockMoves(t)
<1> SUFFICES ASSUME NEW t \in Tabs PROVE ClockMoves(t)
  OBVIOUS
<1>1. /\ tabs \in [Tabs -> Tab] /\ tabs[t] \in Tab /\ tabs'[t] \in Tab /\ now \in Nat
      /\ tabs'[t].open \in Nat /\ tabs[t].open \in Nat
  <2>1. tabs \in [Tabs -> Tab] /\ tabs' \in [Tabs -> Tab] /\ now \in Nat
    BY TabBookAssumption DEF IInv, TypeOK
  <2>2. \A tab \in Tab : tab.open \in Nat
    BY TabBookAssumption DEF Tab, Amount
  <2> QED BY <2>1, <2>2
<1>2. CASE tabs'[t].open = tabs[t].open /\ tabs'[t].oldestUnsettledAt = tabs[t].oldestUnsettledAt
  BY <1>1, <1>2 DEF ClockMoves
<1>3. ASSUME NEW caller \in Accounts, NEW u \in Tabs, NEW units \in Units, NEW price \in Prices,
             NEW witness, NEW cited, RecordDelivery(caller, u, units, price, witness, cited)
      PROVE  ClockMoves(t)
  <2> DEFINE charged == units * prices[<<u[2], u[3]>>]
  <2>1. tabs' = [tabs EXCEPT ![u] = TabAfterDelivery(tabs[u], charged)]
    BY <1>3 DEF RecordDelivery
  <2> HIDE DEF charged
  <2>2. CASE u # t
    <3>1. tabs'[t] = tabs[t]
      BY <1>1, <2>1, <2>2
    <3> QED BY <1>2, <3>1
  <2>3. CASE u = t
    <3>1. /\ tabs'[t].open = tabs[t].open + ToOpen(tabs[t], charged)
          /\ tabs'[t].oldestUnsettledAt =
               IF ToOpen(tabs[t], charged) > 0 /\ tabs[t].oldestUnsettledAt = 0
               THEN now ELSE tabs[t].oldestUnsettledAt
      BY <1>1, <2>1, <2>3 DEF TabAfterDelivery
    <3>2. tabs[t].open > 0 => tabs[t].oldestUnsettledAt # 0
      BY DEF IInv, OpenTabIsMarkable
    <3>3. tabs[t].open = 0 => tabs[t].oldestUnsettledAt = 0
      BY DEF IInv, ClosedTabIsClean
    <3>4. tabs[t].open = 0 => ToOpen(tabs[t], charged) = tabs'[t].open
      <4>1. ToOpen(tabs[t], charged) \in Int
        <5>1. tabs[t].prepaid \in Nat /\ charged \in Nat
          BY <1>1, TabBookAssumption, SMTT(30) DEF Tab, Amount, charged, IInv, TypeOK, Tabs
        <5> QED BY <5>1 DEF ToOpen, FromPrepaid
      <4> QED BY <1>1, <3>1, <4>1
    <3> QED BY <1>1, <3>1, <3>2, <3>3, <3>4 DEF ClockMoves
  <2> QED BY <2>2, <2>3
<1>4. ASSUME NEW caller \in Accounts, NEW u \in Tabs, NEW amount \in Amount,
             ApplySettlement(caller, u, amount)
      PROVE  ClockMoves(t)
  <2>1. tabs' = [tabs EXCEPT ![u] = TabAfterSettlement(tabs[u], amount)]
    BY <1>4 DEF ApplySettlement
  <2>2. CASE u # t
    <3>1. tabs'[t] = tabs[t]
      BY <1>1, <2>1, <2>2
    <3> QED BY <1>2, <3>1
  <2>3. CASE u = t
    <3>1. /\ tabs'[t].open = tabs[t].open - Applied(tabs[t], amount)
          /\ tabs'[t].oldestUnsettledAt =
               IF ClosesTab(tabs[t], amount) THEN 0 ELSE tabs[t].oldestUnsettledAt
      BY <1>1, <2>1, <2>3 DEF TabAfterSettlement, Tab
    <3>2. Applied(tabs[t], amount) \in Nat
      BY <1>1, TabBookAssumption DEF Applied, Amount
    <3> QED BY <1>1, <3>1, <3>2 DEF ClockMoves, ClosesTab
  <2> QED BY <2>2, <2>3
<1>5. ASSUME NEW u \in Tabs, MarkDelinquent(u) PROVE ClockMoves(t)
  <2>1. tabs' = [tabs EXCEPT ![u].delinquent = TRUE]
    BY <1>5 DEF MarkDelinquent
  <2>2. tabs'[t].open = tabs[t].open /\ tabs'[t].oldestUnsettledAt = tabs[t].oldestUnsettledAt
    BY <1>1, <2>1 DEF Tab
  <2> QED BY <1>2, <2>2
<1>6. CASE tabs' = tabs
  BY <1>2, <1>6
<1> QED BY <1>3, <1>4, <1>5, <1>6
        DEF Next, BookStep, BookCall, SetSettlementSurface, Authorise, RegistryStep, BondStep,
            Tick, vars, bookVars

\* The ages of the units that are open on a tab: one for each, in order, none in
\* the future, and the clock of the tab no later than the first.
Ordered(s, until) ==
  /\ \A i, j \in DOMAIN s : i <= j => s[i] <= s[j]
  /\ \A i \in DOMAIN s : s[i] <= until

AgesOK ==
  \A t \in Tabs :
    /\ openSince[t] \in Seq(Nat) /\ Len(openSince[t]) = tabs[t].open
    /\ Ordered(openSince[t], now)
    /\ tabs[t].open > 0 => tabs[t].oldestUnsettledAt <= openSince[t][1]

LEMMA OrderedLonger ==
  ASSUME NEW s \in Seq(Nat), NEW until \in Nat, Ordered(s, until), NEW m \in Nat
  PROVE  LET r == s \o [i \in 1 .. m |-> until]
         IN  /\ r \in Seq(Nat) /\ Len(r) = Len(s) + m /\ Ordered(r, until)
             /\ Len(r) > 0 => r[1] = IF Len(s) > 0 THEN s[1] ELSE until
<1> DEFINE d == [i \in 1 .. m |-> until]
           r == s \o d
           n == Len(s)
<1>1. d \in Seq(Nat) /\ Len(d) = m /\ n \in Nat /\ \A i \in 1 .. m : d[i] = until
  OBVIOUS
<1> HIDE DEF d
<1>2. r \in Seq(Nat) /\ Len(r) = n + m
  BY <1>1
<1>3. /\ \A i \in 1 .. n : r[i] = s[i] /\ s[i] \in Nat /\ s[i] <= until
      /\ \A i \in (n + 1) .. (n + m) : r[i] = until
  <2>1. \A i \in 1 .. n : r[i] = s[i] /\ s[i] \in Nat
    BY <1>1
  <2>2. \A i \in (n + 1) .. (n + m) : r[i] = until
    BY <1>1
  <2>3. \A i \in 1 .. n : s[i] <= until
    BY DEF Ordered
  <2> QED BY <2>1, <2>2, <2>3
<1>4. \A i, j \in 1 .. n : i <= j => s[i] <= s[j]
  BY DEF Ordered
<1> HIDE DEF r, n
<1>5. Ordered(r, until)
  <2>1. DOMAIN r = 1 .. (n + m)
    BY <1>2
  <2>2. \A i \in 1 .. (n + m) : i \in 1 .. n \/ i \in (n + 1) .. (n + m)
    BY <1>1
  <2>3. ASSUME NEW i \in 1 .. (n + m) PROVE r[i] <= until
    BY <1>3, <2>2
  <2>4. ASSUME NEW i \in 1 .. (n + m), NEW j \in 1 .. (n + m), i <= j PROVE r[i] <= r[j]
    <3>1. CASE j \in 1 .. n
      <4>1. i \in 1 .. n
        BY <1>1, <2>4, <3>1
      <4> QED BY <1>3, <1>4, <2>4, <3>1, <4>1
    <3>2. CASE j \in (n + 1) .. (n + m)
      BY <1>3, <2>3, <3>2
    <3> QED BY <2>2, <3>1, <3>2
  <2> QED BY <2>1, <2>3, <2>4 DEF Ordered
<1>6. Len(r) > 0 => r[1] = IF n > 0 THEN s[1] ELSE until
  <2>1. CASE n > 0
    <3>1. 1 \in 1 .. n
      BY <1>1, <2>1
    <3> QED BY <1>3, <2>1, <3>1
  <2>2. CASE n = 0 /\ m > 0
    <3>1. 1 \in (n + 1) .. (n + m)
      BY <1>1, <2>2
    <3> QED BY <1>3, <2>2, <3>1
  <2> QED BY <1>1, <1>2, <2>1, <2>2
<1> QED BY <1>2, <1>5, <1>6 DEF r, n, d

LEMMA OrderedShorter ==
  ASSUME NEW s \in Seq(Nat), NEW until \in Nat, Ordered(s, until), NEW k \in 1 .. Len(s)
  PROVE  LET r == SubSeq(s, k + 1, Len(s))
         IN  /\ r \in Seq(Nat) /\ Len(r) = Len(s) - k /\ Ordered(r, until)
             /\ Len(r) > 0 => s[1] <= r[1]
<1> DEFINE n == Len(s)
           m == n - k
           r == SubSeq(s, k + 1, n)
<1>1. n \in Nat /\ m \in Nat /\ k \in 1 .. n /\ DOMAIN s = 1 .. n
  OBVIOUS
<1>2. r \in Seq(Nat) /\ Len(r) = m /\ \A i \in 1 .. m : r[i] = s[i + k]
  <2>1. k + 1 \in 1 .. n + 1 /\ n \in (k + 1) - 1 .. n
    BY <1>1
  <2>2. /\ r \in Seq(Nat) /\ Len(r) = n - (k + 1) + 1
        /\ \A i \in 1 .. n - (k + 1) + 1 : r[i] = s[(k + 1) + i - 1]
    BY <2>1, SubSeqProperties
  <2>3. n - (k + 1) + 1 = m /\ \A i \in 1 .. m : (k + 1) + i - 1 = i + k
    BY <1>1
  <2> HIDE DEF r, n, m
  <2> QED BY <2>2, <2>3
<1> HIDE DEF r
<1>3. \A i \in 1 .. m : i + k \in 1 .. n
  BY <1>1
<1>4. /\ \A i, j \in 1 .. n : i <= j => s[i] <= s[j]
      /\ \A i \in 1 .. n : s[i] <= until
  BY DEF Ordered
<1> HIDE DEF m, n
<1>5. Ordered(r, until)
  <2>1. DOMAIN r = 1 .. m
    BY <1>2
  <2>2. ASSUME NEW i \in 1 .. m, NEW j \in 1 .. m, i <= j PROVE r[i] <= r[j]
    <3>1. i + k <= j + k
      BY <1>1, <2>2
    <3> QED BY <1>2, <1>3, <1>4, <3>1
  <2>3. \A i \in 1 .. m : r[i] <= until
    BY <1>2, <1>3, <1>4
  <2> QED BY <2>1, <2>2, <2>3 DEF Ordered
<1>6. Len(r) > 0 => s[1] <= r[1]
  <2> SUFFICES ASSUME Len(r) > 0 PROVE s[1] <= r[1]
    OBVIOUS
  <2>1. 1 \in 1 .. m /\ 1 \in 1 .. n /\ 1 <= 1 + k /\ 1 + k \in 1 .. n
    BY <1>1, <1>2, <1>3
  <2> QED BY <1>2, <1>4, <2>1
<1> QED BY <1>2, <1>5, <1>6 DEF r, m, n

\* No call of the book moves the clock.
LEMMA CallsKeepTime ==
  ASSUME BookStep
  PROVE  now' = now
<1>1. ASSUME NEW caller, NEW surface, SetSettlementSurface(caller, surface)
      PROVE  now' = now
  BY <1>1, Zenon DEF SetSettlementSurface, envVars
<1>2. ASSUME NEW t, NEW m, NEW d, Authorise(t, m, now + d)
      PROVE  now' = now
  BY <1>2, Zenon DEF Authorise, envVars
<1>3. ASSUME NEW caller, NEW t, NEW units, NEW price, NEW witness, NEW cited,
             RecordDelivery(caller, t, units, price, witness, cited)
      PROVE  now' = now
  BY <1>3, Zenon DEF RecordDelivery, envVars
<1>4. ASSUME NEW t, MarkDelinquent(t)
      PROVE  now' = now
  BY <1>4, Zenon DEF MarkDelinquent, envVars
<1>5. ASSUME NEW caller, NEW t, NEW amount, ApplySettlement(caller, t, amount)
      PROVE  now' = now
  BY <1>5, Zenon DEF ApplySettlement, envVars
<1> QED BY <1>1, <1>2, <1>3, <1>4, <1>5, Zenon DEF BookStep, BookCall

LEMMA AgesStep ==
  ASSUME IInv, IInv', AgesOK, [ClockNext]_<<vars, openSince>>
  PROVE  AgesOK'
<1>1. now \in Nat /\ now' \in Nat /\ tabs \in [Tabs -> Tab] /\ \A tab \in Tab :
        tab.open \in Nat /\ tab.oldestUnsettledAt \in Nat
  BY TabBookAssumption DEF IInv, TypeOK, Tab, Amount, Time
<1>2. CASE UNCHANGED <<vars, openSince>>
  BY <1>2 DEF AgesOK, vars, bookVars, envVars
<1>3. CASE ClockNext
  <2>1. Next /\ openSince' = [t \in Tabs |-> Aged(t)] /\ now <= now'
    <3>1. BookStep => now' = now
      BY CallsKeepTime
    <3> QED BY <1>1, <1>3, <3>1 DEF ClockNext, Next, Tick
  <2> SUFFICES ASSUME NEW t \in Tabs
               PROVE  /\ openSince'[t] \in Seq(Nat) /\ Len(openSince'[t]) = tabs'[t].open
                      /\ Ordered(openSince'[t], now')
                      /\ tabs'[t].open > 0 => tabs'[t].oldestUnsettledAt <= openSince'[t][1]
    BY DEF AgesOK
  <2> DEFINE s == openSince[t]
             old == tabs[t].open
             new == tabs'[t].open
             r == openSince'[t]
  <2>2. /\ s \in Seq(Nat) /\ Len(s) = old /\ Ordered(s, now)
        /\ old > 0 => tabs[t].oldestUnsettledAt <= s[1]
    BY DEF AgesOK
  <2>3. ClockMoves(t)
    BY <2>1, ClockSteps
  <2>4. /\ old \in Nat /\ new \in Nat /\ tabs[t].oldestUnsettledAt \in Nat
        /\ tabs'[t].oldestUnsettledAt \in Nat
        /\ old > 0 /\ new > 0 => tabs'[t].oldestUnsettledAt = tabs[t].oldestUnsettledAt
        /\ old = 0 /\ new > 0 => tabs'[t].oldestUnsettledAt <= now
    <3>1. tabs'[t] \in Tab /\ tabs[t] \in Tab
      BY DEF IInv, TypeOK
    <3> QED BY <1>1, <2>3, <3>1 DEF ClockMoves
  <2>5. r = Aged(t)
    BY <2>1
  <2>6. ASSUME NEW q \in Seq(Nat), Ordered(q, now) PROVE Ordered(q, now')
    <3>1. \A i \in DOMAIN q : q[i] \in Nat
      OBVIOUS
    <3> QED BY <1>1, <2>1, <2>6, <3>1 DEF Ordered
  <2> HIDE DEF s, old, new, r
  <2>7. CASE new >= old
    <3> DEFINE m == new - old
               q == s \o [i \in 1 .. m |-> now]
    <3>1. m \in Nat /\ m >= 0
      BY <2>4, <2>7
    <3>2. r = q
      BY <2>4, <2>5, <3>1 DEF Aged, s, old, new
    <3>3. q \in Seq(Nat) /\ Len(q) = Len(s) + m /\ Ordered(q, now)
          /\ (Len(q) > 0 => q[1] = IF Len(s) > 0 THEN s[1] ELSE now)
      <4> HIDE DEF m
      <4> QED BY <1>1, <2>2, <3>1, OrderedLonger
    <3>4. Len(q) = new
      <4>1. new = old + m
        BY <2>4
      <4> HIDE DEF m, q
      <4> QED BY <2>2, <3>3, <4>1
    <3> HIDE DEF m, q
    <3>5. new > 0 => tabs'[t].oldestUnsettledAt <= q[1]
      BY <2>2, <2>4, <3>3, <3>4
    <3> QED BY <2>6, <3>2, <3>3, <3>4, <3>5 DEF r, new
  <2>8. CASE new < old
    <3> DEFINE k == old - new
               q == SubSeq(s, k + 1, Len(s))
    <3>1. k \in 1 .. Len(s) /\ ~(new - old >= 0) /\ 1 - (new - old) = k + 1
      BY <2>2, <2>4, <2>8
    <3>2. r = q
      BY <2>4, <2>5, <3>1 DEF Aged, s, old, new
    <3>3. q \in Seq(Nat) /\ Len(q) = Len(s) - k /\ Ordered(q, now)
          /\ (Len(q) > 0 => s[1] <= q[1])
      <4> HIDE DEF k
      <4> QED BY <1>1, <2>2, <3>1, OrderedShorter
    <3>4. Len(q) = new
      BY <2>2, <2>4, <3>3
    <3>5. old > 0
      BY <2>4, <2>8
    <3> HIDE DEF k, q
    <3>6. new > 0 => s[1] \in Nat /\ q[1] \in Nat
      BY <2>2, <2>4, <3>3, <3>4, <3>5
    <3>7. new > 0 => tabs'[t].oldestUnsettledAt <= q[1]
      BY <2>2, <2>4, <3>3, <3>4, <3>5, <3>6
    <3> QED BY <2>6, <3>2, <3>3, <3>4, <3>7 DEF r, new
  <2> QED BY <2>4, <2>7, <2>8 DEF r, new
<1> QED BY <1>2, <1>3

\* The clock of a tab is never later than its oldest unsettled delivery, whatever
\* is delivered and paid in whatever portions.
THEOREM ClockIsNotLate == ClockSpec => []ClockNeverLate
<1>1. ClockInit => IInv /\ AgesOK
  <2> SUFFICES ASSUME ClockInit PROVE IInv /\ AgesOK
    OBVIOUS
  <2>1. IInv
    BY InvInit DEF ClockInit
  <2>2. AgesOK
    BY DEF ClockInit, Init, AgesOK, Ordered
  <2> QED BY <2>1, <2>2
<1>2. [ClockNext]_<<vars, openSince>> => [Next]_vars
  BY DEF ClockNext, Next
<1>3. IInv /\ [Next]_vars => IInv'
  BY InvStep
<1>4. IInv /\ IInv' /\ AgesOK /\ [ClockNext]_<<vars, openSince>> => AgesOK'
  BY AgesStep
<1>5. AgesOK => ClockNeverLate
  BY DEF AgesOK, ClockNeverLate
<1> QED BY <1>1, <1>2, <1>3, <1>4, <1>5, PTL DEF ClockSpec

-----------------------------------------------------------------------------
(* TabBook implements CreditLine.                                          *)

Balance == [t \in Tabs |-> tabs[t].open - tabs[t].prepaid]
Allowance == [t \in Tabs |-> auths[t].maxCumulative - auths[t].spent]
Frozen == {t \in Tabs : tabs[t].delinquent}

LEMMA LineInit == Init => Line!Init
  BY DEF Init, Line!Init, Line!Tabs, Tabs

LEMMA LineDelivery ==
  ASSUME IInv, IInv', NEW caller \in Accounts, NEW t \in Tabs, NEW units \in Units,
         NEW price \in Prices, NEW witness, NEW cited,
         RecordDelivery(caller, t, units, price, witness, cited)
  PROVE  \E n \in 1 .. MaxAmount : Line!Deliver(t, n)
<1> DEFINE charged == units * prices[<<t[2], t[3]>>]
<1>0. TypeOK /\ units \in Nat
  BY TabBookAssumption DEF IInv
<1>1. /\ TypeOK /\ tabs[t] \in Tab /\ auths[t] \in Authorisation /\ charged \in Nat
      /\ prices[<<t[2], t[3]>>] \in Nat /\ units \in Nat
  BY <1>0, TabParts
<1>2. /\ charged <= MaxAmount /\ units # 0 /\ prices[<<t[2], t[3]>>] # 0
      /\ auths[t].spent + charged <= auths[t].maxCumulative
      /\ tabs[t].open + ToOpen(tabs[t], charged) <= MaxAmount
      /\ tabs[t].deliveryCount < MaxCount
      /\ tabs' = [tabs EXCEPT ![t] = TabAfterDelivery(tabs[t], charged)]
      /\ auths' = [auths EXCEPT ![t].spent = @ + charged]
  BY DEF RecordDelivery, IsQuoted, IsAuthorised
<1>3. charged # 0
  <2>1. \A m, k \in Nat : m # 0 /\ k # 0 => m * k # 0
    OBVIOUS
  <2> QED BY <1>1, <1>2, <2>1
<1>4. charged \in 1 .. MaxAmount
  BY <1>1, <1>2, <1>3, TabBookAssumption
<1>5. ToOpen(tabs[t], charged) = charged - FromPrepaid(tabs[t], charged)
      /\ FromPrepaid(tabs[t], charged) \in Nat
  BY <1>1, <1>2, DeliveryType DEF Tab, Amount
<1> HIDE DEF charged
<1>6. Balance' = [Balance EXCEPT ![t] = @ + charged]
  <2>1. /\ tabs'[t].open = tabs[t].open + ToOpen(tabs[t], charged)
        /\ tabs'[t].prepaid = tabs[t].prepaid - FromPrepaid(tabs[t], charged)
        /\ \A u \in Tabs \ {t} : tabs'[u] = tabs[u]
    BY <1>1, <1>2 DEF TypeOK, TabAfterDelivery
  <2>2. tabs[t].open \in Nat /\ tabs[t].prepaid \in Nat
    BY <1>1, TabBookAssumption DEF Tab, Amount
  <2>3. tabs'[t].open - tabs'[t].prepaid = (tabs[t].open - tabs[t].prepaid) + charged
    BY <1>1, <1>5, <2>1, <2>2
  <2>4. Balance'[t] = Balance[t] + charged /\ \A u \in Tabs \ {t} : Balance'[u] = Balance[u]
    BY <2>1, <2>3 DEF Balance
  <2> QED BY <2>4 DEF Balance
<1>7. Allowance' = [Allowance EXCEPT ![t] = @ - charged]
  <2>1. /\ auths'[t].spent = auths[t].spent + charged
        /\ auths'[t].maxCumulative = auths[t].maxCumulative
        /\ \A u \in Tabs \ {t} : auths'[u] = auths[u]
    BY <1>1, <1>2 DEF TypeOK, Authorisation
  <2>2. auths[t].spent \in Nat /\ auths[t].maxCumulative \in Nat
    BY <1>1, TabBookAssumption DEF Authorisation, Amount
  <2>3. auths'[t].maxCumulative - auths'[t].spent
          = (auths[t].maxCumulative - auths[t].spent) - charged
    BY <1>1, <2>1, <2>2
  <2>4. /\ Allowance'[t] = Allowance[t] - charged
        /\ \A u \in Tabs \ {t} : Allowance'[u] = Allowance[u]
    BY <2>1, <2>3 DEF Allowance
  <2> QED BY <2>4 DEF Allowance
<1>8. Frozen' = Frozen
  BY <1>1, <1>2 DEF Frozen, TypeOK, TabAfterDelivery
<1>9. \A u \in Frozen : ~Line!SameAccount(t, u)
  BY DeliveryNeedsNoDelinquent DEF Frozen, DelinquentTabs, TabsOf, Account, Line!SameAccount
<1>10. charged <= Allowance[t]
  BY <1>1, <1>2, TabBookAssumption DEF Allowance, Authorisation, Amount
<1> QED BY <1>4, <1>6, <1>7, <1>8, <1>9, <1>10 DEF Line!Deliver, Balance, Allowance, Frozen

LEMMA LineSettlement ==
  ASSUME IInv, IInv', NEW caller \in Accounts, NEW t \in Tabs, NEW amount \in Amount,
         ApplySettlement(caller, t, amount)
  PROVE  \E n \in 1 .. MaxAmount : Line!Pay(t, n)
<1> DEFINE applied == Applied(tabs[t], amount)
           ends == SettlesDelinquency(tabs[t], amount)
<1>0. TypeOK /\ amount \in Nat
  BY TabBookAssumption DEF IInv, Amount
<1>1. /\ TypeOK /\ tabs[t] \in Tab /\ amount \in Nat
      /\ tabs[t].open \in Nat /\ tabs[t].prepaid \in Nat
  BY <1>0, TabParts
<1>2. /\ tabs' = [tabs EXCEPT ![t] = TabAfterSettlement(tabs[t], amount)]
      /\ amount # 0 /\ UNCHANGED auths
      /\ tabs[t].prepaid + (amount - applied) <= MaxAmount
  BY DEF ApplySettlement
<1>3. amount \in 1 .. MaxAmount
  BY <1>1, <1>2, TabBookAssumption DEF Amount
<1>4. /\ tabs'[t].open = tabs[t].open - applied
      /\ tabs'[t].prepaid = tabs[t].prepaid + (amount - applied)
      /\ tabs'[t].delinquent = (tabs[t].delinquent /\ ~ends)
      /\ \A u \in Tabs \ {t} : tabs'[u] = tabs[u]
  BY <1>1, <1>2 DEF TypeOK, Tab, TabAfterSettlement
<1>5. applied \in 0 .. amount
  BY <1>1, <1>2, SettlementType
<1>6. ends <=> tabs[t].delinquent /\ tabs[t].open <= amount
  BY <1>1 DEF ends, SettlesDelinquency, Applied
<1> HIDE DEF applied, ends
<1>7. Balance' = [Balance EXCEPT ![t] = @ - amount]
  <2>1. tabs'[t].open - tabs'[t].prepaid = (tabs[t].open - tabs[t].prepaid) - amount
    BY <1>1, <1>4, <1>5
  <2>2. Balance'[t] = Balance[t] - amount /\ \A u \in Tabs \ {t} : Balance'[u] = Balance[u]
    BY <1>4, <2>1 DEF Balance
  <2> QED BY <2>2 DEF Balance
<1>8. Frozen' = IF Balance[t] <= amount THEN Frozen \ {t} ELSE Frozen
  <2>1. CASE t \in Frozen
    <3>1. tabs[t].delinquent
      BY <2>1 DEF Frozen
    <3>2. tabs[t].open # 0
      BY <3>1 DEF IInv, ClosedTabIsClean
    <3>3. tabs[t].prepaid = 0
      BY <3>2 DEF IInv, NoDebtBesideCredit
    <3>4. Balance[t] = tabs[t].open
      BY <1>1, <3>3 DEF Balance
    <3>5. ends <=> Balance[t] <= amount
      BY <1>6, <3>1, <3>4
    <3>6. Frozen' = IF ends THEN Frozen \ {t} ELSE Frozen
      BY <1>4, <3>1 DEF Frozen
    <3> QED BY <3>5, <3>6
  <2>2. CASE t \notin Frozen
    BY <1>4, <2>2 DEF Frozen
  <2> QED BY <2>1, <2>2
<1> QED BY <1>2, <1>3, <1>7, <1>8 DEF Line!Pay, Balance, Allowance, Frozen

LEMMA LineStep == IInv /\ IInv' /\ [Next]_vars => [Line!Next]_(Line!vars)
<1> SUFFICES ASSUME IInv, IInv', [Next]_vars
             PROVE  Line!Next \/ UNCHANGED <<Balance, Allowance, Frozen>>
  BY DEF Line!vars, Balance, Allowance, Frozen
<1> USE DEF Line!Next, Line!Tabs
<1>1. ASSUME NEW t \in Tabs, NEW m \in Ceilings, NEW d \in Terms, Authorise(t, m, now + d)
      PROVE  Line!Next
  <2>1. m \in 0 .. MaxAmount
    BY TabBookAssumption
  <2>2. auths' = [auths EXCEPT ![t] = [exists |-> TRUE, maxCumulative |-> m, spent |-> 0,
                                       expiry |-> now + d]]
        /\ tabs' = tabs
    BY <1>1 DEF Authorise
  <2>3. Allowance' = [Allowance EXCEPT ![t] = m]
    <3>1. /\ auths'[t].maxCumulative = m /\ auths'[t].spent = 0
          /\ \A u \in Tabs \ {t} : auths'[u] = auths[u]
      BY <2>2 DEF IInv, TypeOK
    <3>2. m - 0 = m
      BY <2>1, TabBookAssumption
    <3>3. Allowance'[t] = m /\ \A u \in Tabs \ {t} : Allowance'[u] = Allowance[u]
      BY <3>1, <3>2 DEF Allowance
    <3> QED BY <3>3 DEF Allowance
  <2>4. Line!Allow(t, m)
    BY <2>2, <2>3 DEF Line!Allow, Balance, Allowance, Frozen
  <2> QED BY <2>1, <2>4 DEF Tabs
<1>2. ASSUME NEW caller \in Accounts, NEW t \in Tabs, NEW units \in Units,
             NEW price \in Prices, NEW witness, NEW cited,
             RecordDelivery(caller, t, units, price, witness, cited)
      PROVE  Line!Next
  BY <1>2, LineDelivery DEF Tabs
<1>3. ASSUME NEW caller \in Accounts, NEW t \in Tabs, NEW amount \in Amount,
             ApplySettlement(caller, t, amount)
      PROVE  Line!Next
  BY <1>3, LineSettlement DEF Tabs
<1>4. ASSUME NEW t \in Tabs, MarkDelinquent(t)
      PROVE  Line!Next
  <2>1. /\ tabs' = [tabs EXCEPT ![t].delinquent = TRUE] /\ UNCHANGED auths
        /\ tabs[t].open # 0 /\ ~tabs[t].delinquent
    BY <1>4 DEF MarkDelinquent, CanMark
  <2>2. tabs[t].prepaid = 0 /\ tabs[t].open \in Nat
    BY <2>1, TabBookAssumption DEF IInv, NoDebtBesideCredit, TypeOK, Tab, Amount
  <2>3. Balance[t] > 0
    BY <2>1, <2>2 DEF Balance
  <2>4. Balance' = Balance /\ Allowance' = Allowance
    BY <2>1 DEF IInv, TypeOK, Tab, Balance, Allowance
  <2>5. Frozen' = Frozen \cup {t} /\ t \notin Frozen
    BY <2>1 DEF IInv, TypeOK, Tab, Frozen
  <2>6. Line!Freeze(t)
    BY <2>3, <2>4, <2>5 DEF Line!Freeze, Balance, Allowance, Frozen
  <2> QED BY <2>6 DEF Tabs
<1>5. CASE UNCHANGED <<tabs, auths>>
  BY <1>5 DEF Balance, Allowance, Frozen
<1> QED BY <1>1, <1>2, <1>3, <1>4, <1>5
        DEF Next, BookStep, BookCall, SetSettlementSurface, RegistryStep, BondStep, Tick,
            vars, bookVars, envVars

\* The ledger behaves as one signed balance per tab, with an allowance that
\* deliveries consume and a freeze that only payment in full lifts.
THEOREM Implementation == Spec => ImplementsCreditLine
  BY LineInit, LineStep, InvInit, InvStep, PTL DEF Spec, Line!Spec, ImplementsCreditLine

-----------------------------------------------------------------------------
(* TabSettlement.                                                          *)

\* The ledger as it was before the batch that is being run.
Before == INSTANCE TabBook WITH
  tabs <- batch.before.tabs, tabRefs <- batch.before.tabRefs,
  assetOpen <- batch.before.assetOpen, delinquentTabs <- batch.before.delinquentTabs,
  settlements <- batch.before.settlements, history <- batch.before.history

\* A batch pays the instructions of one Agent.
BatchOK ==
  batch # NoBatch => batch.agent \in Agents /\ batch.rest \in Seq(Instructions)

\* What a batch would restore is sound: the part of the inductive invariant of
\* TabBook that is about the ledger, of the ledger before the batch.
RestoreOK ==
  batch # NoBatch =>
    /\ Before!TypeOK
    /\ Before!AssetOpenIsSum
    /\ Before!DelinquentCounted
    /\ Before!OpenTabIsMarkable
    /\ Before!ClosedTabIsClean
    /\ Before!NoDebtBesideCredit
    /\ Before!MeteredIsPaidOrOpen

SettlementInv1 == IInv /\ BatchOK /\ RestoreOK

LEMMA SettlementInit1 == SettlementInit => SettlementInv1
  BY InvInit DEF SettlementInit, SettlementInv1, BatchOK, RestoreOK

\* A payment is a step of TabBook.
LEMMA PayIsBookStep ==
  ASSUME IInv, NEW t \in Tabs, NEW amount \in Amount, Pay(t, amount)
  PROVE  /\ IInv' /\ Next
         /\ UNCHANGED <<metered, services, prices, free, now, settlementSurface,
                        auths, firstDeliveryAt>>
<1>1. ApplySettlement(Surface, t, amount) /\ Surface \in Accounts
  BY TabSettlementAssumption DEF Pay
<1>2. Next
  BY <1>1 DEF Next, BookStep
<1> QED BY <1>1, <1>2, InvStep DEF ApplySettlement, envVars

\* What a batch would restore stays as it is while the batch runs.
LEMMA RestoreKept ==
  ASSUME RestoreOK, batch # NoBatch, batch'.before = batch.before,
         UNCHANGED <<metered, services, prices, free, now, settlementSurface, auths,
                     firstDeliveryAt>>
  PROVE  RestoreOK'
<1>1. Before!TypeOK'
  BY DEF RestoreOK, Before!TypeOK
<1>2. Before!AssetOpenIsSum'
  BY DEF RestoreOK, Before!AssetOpenIsSum, Before!Owed
<1>3. Before!DelinquentCounted'
  BY DEF RestoreOK, Before!DelinquentCounted, Before!DelinquentTabs
<1>4. Before!OpenTabIsMarkable'
  BY DEF RestoreOK, Before!OpenTabIsMarkable
<1>5. Before!ClosedTabIsClean' /\ Before!NoDebtBesideCredit'
  BY DEF RestoreOK, Before!ClosedTabIsClean, Before!NoDebtBesideCredit
<1>6. Before!MeteredIsPaidOrOpen'
  BY DEF RestoreOK, Before!MeteredIsPaidOrOpen, Before!Paid, Before!SettlementsOf
<1> QED BY <1>1, <1>2, <1>3, <1>4, <1>5, <1>6 DEF RestoreOK

\* Its sums and numbers of elements are those of TabBook.
LEMMA SameCounts ==
  /\ \A S : Before!Cardinality(S) = Cardinality(S)
  /\ \A S, f : Before!SumOf(S, f) = SumOf(S, f)
<1>1. \A S : Before!Cardinality(S) = Cardinality(S)
  BY DEF Before!Cardinality, Cardinality
<1> QED BY <1>1 DEF Before!SumOf, SumOf, Before!UnitsIn, UnitsIn

\* The ledger before the batch is a ledger of the same tabs and accounts.
LEMMA SameSets ==
  /\ Before!Tabs = Tabs /\ Before!AgentAssets = AgentAssets /\ Before!Tab = Tab
  /\ Before!Count = Count /\ Before!Authorisation = Authorisation /\ Before!Time = Time
  /\ Before!Settlement = Settlement /\ Before!SettlementRecord = SettlementRecord
  /\ Before!Service = Service
  /\ \A x : Before!TabsOf(x) = TabsOf(x)
<1>1. /\ Before!Tabs = Tabs /\ Before!AgentAssets = AgentAssets
      /\ Before!Count = Count /\ Before!Time = Time /\ Before!Amount = Amount
      /\ Before!Tiers = Tiers
  BY DEF Before!Tabs, Tabs, Before!AgentAssets, AgentAssets, Before!Count, Count,
         Before!Time, Time, Before!Amount, Amount, Before!Tiers, Tiers
<1>2. Before!Tab = Tab /\ Before!Authorisation = Authorisation
  BY <1>1 DEF Before!Tab, Tab, Before!Authorisation, Authorisation
<1>3. Before!Settlement = Settlement /\ Before!SettlementRecord = SettlementRecord
  BY <1>1 DEF Before!Settlement, Settlement, Before!SettlementRecord, SettlementRecord
<1>4. Before!Service = Service
  BY <1>1 DEF Before!Service, Service, Before!Entry, Entry
<1>5. \A x : Before!TabsOf(x) = TabsOf(x)
  BY <1>1 DEF Before!TabsOf, TabsOf, Before!Account, Account
<1> QED BY <1>1, <1>2, <1>3, <1>4, <1>5

\* What is sound when a batch begins is sound to restore.
LEMMA BatchKeeps ==
  ASSUME IInv, UNCHANGED vars, batch'.before = Ledger
  PROVE  RestoreOK'
<1>1. /\ batch'.before.tabs = tabs /\ batch'.before.tabRefs = tabRefs
      /\ batch'.before.assetOpen = assetOpen
      /\ batch'.before.delinquentTabs = delinquentTabs
      /\ batch'.before.settlements = settlements /\ batch'.before.history = history
      /\ UNCHANGED <<metered, services, prices, free, now, settlementSurface, auths,
                     firstDeliveryAt>>
  BY DEF Ledger, vars, bookVars, envVars
<1>2. Before!TypeOK'
  BY <1>1, SameSets DEF IInv, TypeOK, Before!TypeOK
<1>3. Before!AssetOpenIsSum'
  <2>1. \A x : Before!Owed(x)' = Owed(x)
    BY <1>1, SameCounts DEF Owed, TabsOf, Tabs, Account,
                Before!Owed, Before!TabsOf, Before!Tabs, Before!Account
  <2> QED BY <1>1, <2>1, SameSets DEF IInv, AssetOpenIsSum, Before!AssetOpenIsSum
<1>4. Before!DelinquentCounted'
  <2>1. \A x : Before!DelinquentTabs(x)' = DelinquentTabs(x)
    BY <1>1 DEF DelinquentTabs, TabsOf, Tabs, Account,
                Before!DelinquentTabs, Before!TabsOf, Before!Tabs, Before!Account
  <2> QED BY <1>1, <2>1, SameSets, SameCounts
          DEF IInv, DelinquentCounted, Before!DelinquentCounted
<1>5. Before!OpenTabIsMarkable'
  BY <1>1, SameSets DEF IInv, OpenTabIsMarkable, Before!OpenTabIsMarkable
<1>6. Before!ClosedTabIsClean' /\ Before!NoDebtBesideCredit'
  BY <1>1, SameSets DEF IInv, ClosedTabIsClean, Before!ClosedTabIsClean,
                        NoDebtBesideCredit, Before!NoDebtBesideCredit
<1>7. Before!MeteredIsPaidOrOpen'
  <2>1. \A t : Before!SettlementsOf(t)' = SettlementsOf(t)
    BY <1>1 DEF SettlementsOf, Before!SettlementsOf
  <2>2. \A t : Before!Paid(t)' = Paid(t)
    BY <1>1, <2>1, SameCounts DEF Paid, Before!Paid
  <2> QED BY <1>1, <2>2, SameSets DEF IInv, MeteredIsPaidOrOpen, Before!MeteredIsPaidOrOpen
<1> QED BY <1>2, <1>3, <1>4, <1>5, <1>6, <1>7 DEF RestoreOK

\* What a batch restores is sound.
LEMMA RevertInv ==
  ASSUME IInv, RestoreOK, BatchReverts
  PROVE  IInv'
<1>1. /\ tabs' = batch.before.tabs /\ tabRefs' = batch.before.tabRefs
      /\ assetOpen' = batch.before.assetOpen
      /\ delinquentTabs' = batch.before.delinquentTabs
      /\ settlements' = batch.before.settlements /\ history' = batch.before.history
      /\ UNCHANGED <<metered, services, prices, free, now, settlementSurface, auths,
                     firstDeliveryAt>>
      /\ batch # NoBatch
  BY DEF BatchReverts, Restored, envVars
<1>2. TypeOK'
  BY <1>1, SameSets DEF RestoreOK, TypeOK, Before!TypeOK
<1>3. AssetOpenIsSum'
  <2>1. \A x : Owed(x)' = Before!Owed(x)
    BY <1>1, SameCounts DEF Owed, TabsOf, Tabs, Account,
                Before!Owed, Before!TabsOf, Before!Tabs, Before!Account
  <2> QED BY <1>1, <2>1, SameSets DEF RestoreOK, AssetOpenIsSum, Before!AssetOpenIsSum
<1>4. DelinquentCounted'
  <2>1. \A x : DelinquentTabs(x)' = Before!DelinquentTabs(x)
    BY <1>1 DEF DelinquentTabs, TabsOf, Tabs, Account,
                Before!DelinquentTabs, Before!TabsOf, Before!Tabs, Before!Account
  <2> QED BY <1>1, <2>1, SameSets, SameCounts
          DEF RestoreOK, DelinquentCounted, Before!DelinquentCounted
<1>5. OpenTabIsMarkable'
  BY <1>1, SameSets DEF RestoreOK, OpenTabIsMarkable, Before!OpenTabIsMarkable
<1>6. ClosedTabIsClean' /\ NoDebtBesideCredit'
  BY <1>1, SameSets DEF RestoreOK, ClosedTabIsClean, Before!ClosedTabIsClean,
                        NoDebtBesideCredit, Before!NoDebtBesideCredit
<1>7. MeteredIsPaidOrOpen'
  <2>1. \A t : SettlementsOf(t)' = Before!SettlementsOf(t)
    BY <1>1 DEF SettlementsOf, Before!SettlementsOf
  <2>2. \A t : Paid(t)' = Before!Paid(t)
    BY <1>1, <2>1, SameCounts DEF Paid, Before!Paid
  <2> QED BY <1>1, <2>2, SameSets DEF RestoreOK, MeteredIsPaidOrOpen, Before!MeteredIsPaidOrOpen
<1> QED BY <1>2, <1>3, <1>4, <1>5, <1>6, <1>7 DEF IInv

\* Every step keeps the books and what a batch would restore of them.
LEMMA SettlementStep1 ==
  ASSUME SettlementInv1, [SettlementNext]_railVars
  PROVE  SettlementInv1'
<1> USE DEF SettlementInv1
<1>1. ASSUME NEW t \in Tabs, NEW amount \in Payments, Settle(t, amount)
      PROVE  SettlementInv1'
  <2>1. amount \in Amount /\ Pay(t, amount) /\ batch' = NoBatch
    BY <1>1, TabSettlementAssumption DEF Settle
  <2> QED BY <2>1, PayIsBookStep DEF BatchOK, RestoreOK
<1>2. ASSUME NEW p \in Permit, Sign(p)
      PROVE  SettlementInv1'
  <2>1. UNCHANGED vars /\ batch' = NoBatch
    BY <1>2 DEF Sign
  <2> QED BY <2>1, InvStep DEF BatchOK, RestoreOK
<1>3. ASSUME NEW p \in Permit, SettleWithPermit2(p)
      PROVE  SettlementInv1'
  <2>1. <<p.agent, p.serviceId, p.asset>> \in Tabs /\ p.amount \in Amount
    BY TabSettlementAssumption DEF Permit, Tabs
  <2>2. Pay(<<p.agent, p.serviceId, p.asset>>, p.amount) /\ batch' = NoBatch
    BY <1>3 DEF SettleWithPermit2
  <2>3. IInv'
    BY <2>1, <2>2, PayIsBookStep
  <2> QED BY <2>2, <2>3 DEF BatchOK, RestoreOK
<1>4. ASSUME NEW agent \in Agents, NEW n \in 1 .. MaxBatch,
             NEW instructions \in [1 .. n -> Instructions], BatchBegins(agent, instructions)
      PROVE  SettlementInv1'
  <2>1. UNCHANGED vars /\ batch' = [agent |-> agent, rest |-> instructions, before |-> Ledger]
    BY <1>4 DEF BatchBegins
  <2>2. instructions \in Seq(Instructions)
    BY TabSettlementAssumption
  <2>3. BatchOK'
    BY <2>1, <2>2 DEF BatchOK
  <2> QED BY <2>1, <2>3, InvStep, BatchKeeps
<1>5. CASE BatchPays
  <2> DEFINE i == Head(batch.rest)
  <2>1. /\ batch # NoBatch /\ batch.rest # <<>>
        /\ Pay(<<batch.agent, i.serviceId, i.asset>>, i.amount)
        /\ batch' = [batch EXCEPT !.rest = Tail(@)]
    BY <1>5 DEF BatchPays
  <2>2. batch.agent \in Agents /\ batch.rest \in Seq(Instructions)
    BY <2>1 DEF BatchOK
  <2>3. i \in Instructions
    BY <2>1, <2>2
  <2>4. <<batch.agent, i.serviceId, i.asset>> \in Tabs /\ i.amount \in Amount
    BY <2>2, <2>3, TabSettlementAssumption DEF Instructions, Tabs
  <2>5. /\ IInv'
        /\ UNCHANGED <<metered, services, prices, free, now, settlementSurface, auths,
                       firstDeliveryAt>>
    <3> HIDE DEF i
    <3> QED BY <2>1, <2>4, PayIsBookStep
  <2>6. BatchOK'
    BY <2>1, <2>2 DEF BatchOK
  <2>7. RestoreOK'
    BY <2>1, <2>5, RestoreKept
  <2> QED BY <2>5, <2>6, <2>7
<1>6. CASE BatchEnds
  <2>1. UNCHANGED vars /\ batch' = NoBatch
    BY <1>6 DEF BatchEnds
  <2> QED BY <2>1, InvStep DEF BatchOK, RestoreOK
<1>7. CASE BatchReverts
  <2>1. batch' = NoBatch
    BY <1>7 DEF BatchReverts
  <2> QED BY <1>7, <2>1, RevertInv DEF BatchOK, RestoreOK
<1>8. CASE /\ BookCall \/ Tick
           /\ batch = NoBatch
           /\ UNCHANGED <<balances, collections, permitVars, batch>>
  <2>1. Next /\ batch' = NoBatch
    BY <1>8 DEF Next, BookStep
  <2> QED BY <2>1, InvStep DEF BatchOK, RestoreOK
<1>9. CASE UNCHANGED railVars
  <2>1. UNCHANGED vars /\ UNCHANGED batch
    BY <1>9 DEF railVars
  <2>2. CASE batch = NoBatch
    BY <2>1, <2>2, InvStep DEF BatchOK, RestoreOK
  <2>3. CASE batch # NoBatch
    <3>1. RestoreOK'
      BY <2>1, <2>3, RestoreKept DEF vars, bookVars, envVars
    <3> QED BY <2>1, <3>1, InvStep DEF BatchOK
  <2> QED BY <2>2, <2>3
<1> QED BY <1>1, <1>2, <1>3, <1>4, <1>5, <1>6, <1>7, <1>8, <1>9 DEF SettlementNext

\* Through payments, batches and batches taken back, the books balance.
THEOREM BooksBalanceThroughBatches ==
  SettlementSpec => [](AssetOpenIsSum /\ DelinquentCounted /\ TabIsSound /\ MeteredIsPaidOrOpen)
<1>1. SettlementInv1 => AssetOpenIsSum /\ DelinquentCounted /\ TabIsSound /\ MeteredIsPaidOrOpen
  BY DEF SettlementInv1, IInv, TabIsSound
<1> QED BY SettlementInit1, SettlementStep1, <1>1, PTL DEF SettlementSpec

\* A step is one of TabBook, or takes a batch back.
LEMMA SettlementIsBookStep ==
  ASSUME SettlementInv1, SettlementNext
  PROVE  Next \/ BatchReverts \/ UNCHANGED vars
<1>1. ASSUME NEW t \in Tabs, NEW amount \in Payments, Settle(t, amount)
      PROVE  Next
  BY <1>1, PayIsBookStep, TabSettlementAssumption DEF Settle, SettlementInv1
<1>2. ASSUME NEW p \in Permit, SettleWithPermit2(p)
      PROVE  Next
  <2>1. <<p.agent, p.serviceId, p.asset>> \in Tabs /\ p.amount \in Amount
    BY TabSettlementAssumption DEF Permit, Tabs
  <2> QED BY <1>2, <2>1, PayIsBookStep DEF SettleWithPermit2, SettlementInv1
<1>3. CASE BatchPays
  <2>1. batch # NoBatch /\ batch.rest # <<>>
    BY <1>3 DEF BatchPays
  <2>2. batch.agent \in Agents /\ batch.rest \in Seq(Instructions)
    BY <2>1 DEF BatchOK, SettlementInv1
  <2>3. PICK i \in Instructions : Pay(<<batch.agent, i.serviceId, i.asset>>, i.amount)
    <3>1. Head(batch.rest) \in Instructions
      BY <2>1, <2>2
    <3> QED BY <1>3, <3>1 DEF BatchPays
  <2>4. <<batch.agent, i.serviceId, i.asset>> \in Tabs /\ i.amount \in Amount
    BY <2>2, <2>3, TabSettlementAssumption DEF Instructions, Tabs
  <2> QED BY <2>3, <2>4, PayIsBookStep DEF SettlementInv1
<1>4. CASE UNCHANGED vars
  BY <1>4
<1> QED BY <1>1, <1>2, <1>3, <1>4
        DEF SettlementNext, Sign, BatchBegins, BatchEnds, Next, BookStep

-----------------------------------------------------------------------------
(* Settlement by signature.                                                *)

Signature == [agent : Agents, serviceId : Services, asset : Assets, amount : Amount,
              nonce : Nonces, deadline : Time]

\* The witness and the fields of Permit2's own tell a payload whole: what Permit2
\* takes is what was signed.
LEMMA PayloadIsSigned ==
  ASSUME signed \subseteq Signature, NEW p \in Signature, PermitHolds(p)
  PROVE  p \in signed
<1>1. PICK q \in signed : Payload(q) = Payload(p)
  BY DEF PermitHolds
<1>2. Payload(q).witness = Payload(p).witness
  BY <1>1
<1>3. /\ q.agent = p.agent /\ q.asset = p.asset /\ q.amount = p.amount
      /\ q.nonce = p.nonce /\ q.deadline = p.deadline
  BY <1>1 DEF Payload
<1>4. q.serviceId = p.serviceId
  BY <1>2 DEF Payload, WitnessHash
<1>5. q = p
  BY <1>3, <1>4 DEF Signature
<1> QED BY <1>5

\* The payloads that the entries settled by signature answer to; their nonces are
\* spent.
AnswersTo(permitOf) ==
  /\ \A i \in gasless :
       SettledAs(i, permitOf[i]) /\ <<permitOf[i].agent, permitOf[i].nonce>> \in usedNonces
  /\ \A i, k \in gasless :
       permitOf[i].agent = permitOf[k].agent /\ permitOf[i].nonce = permitOf[k].nonce => i = k

\* What a batch would restore has the entries that were settled by signature.
BatchSigned ==
  batch # NoBatch =>
    \A i \in gasless : /\ i \in DOMAIN batch.before.settlements
                       /\ batch.before.settlements[i] = settlements[i]

SignedOK ==
  /\ signed \subseteq Signature
  /\ \E permitOf \in [gasless -> signed] : AnswersTo(permitOf)
  /\ BatchSigned

\* What a step may do with the signatures and with what they settled: it leaves
\* the entries as they are, or adds one for a signature whose nonce was unspent.
SignedStep ==
  /\ signed \subseteq signed' /\ signed' \subseteq Signature
  /\ usedNonces \subseteq usedNonces'
  /\ BatchSigned'
  /\ \A i \in gasless : i \in DOMAIN settlements' /\ settlements'[i] = settlements[i]
  /\ \/ gasless' = gasless
     \/ \E p \in signed : \E n :
          /\ <<p.agent, p.nonce>> \notin usedNonces /\ <<p.agent, p.nonce>> \in usedNonces'
          /\ n \notin DOMAIN settlements /\ SettledAs(n, p)'
          /\ gasless' = gasless \cup {n}

LEMMA SignedKept ==
  ASSUME SignedOK, SignedStep
  PROVE  SignedOK'
<1>1. PICK permitOf \in [gasless -> signed] : AnswersTo(permitOf)
  BY DEF SignedOK
<1>2. \A i \in gasless : SettledAs(i, permitOf[i]) /\ SettledAs(i, permitOf[i])'
  BY <1>1 DEF AnswersTo, SignedStep, SettledAs
<1>3. CASE gasless' = gasless
  <2>1. permitOf \in [gasless' -> signed']
    BY <1>3 DEF SignedStep
  <2>2. AnswersTo(permitOf)'
    BY <1>1, <1>2, <1>3 DEF AnswersTo, SignedStep
  <2> QED BY <2>1, <2>2 DEF SignedOK, SignedStep
<1>4. ASSUME NEW p \in signed, NEW n,
             <<p.agent, p.nonce>> \notin usedNonces, <<p.agent, p.nonce>> \in usedNonces',
             n \notin DOMAIN settlements, SettledAs(n, p)', gasless' = gasless \cup {n}
      PROVE  SignedOK'
  <2>1. n \notin gasless
    BY <1>2, <1>4 DEF SettledAs
  <2>2. \E f \in [gasless' -> signed'] : f[n] = p /\ \A i \in gasless : f[i] = permitOf[i]
    <3> DEFINE f == [i \in gasless' |-> IF i = n THEN p ELSE permitOf[i]]
    <3>1. f \in [gasless' -> signed']
      BY <1>1, <1>4 DEF SignedStep
    <3>2. f[n] = p /\ \A i \in gasless : f[i] = permitOf[i]
      BY <1>4, <2>1
    <3> HIDE DEF f
    <3> QED BY <3>1, <3>2
  <2>3. PICK also \in [gasless' -> signed'] : also[n] = p /\ \A i \in gasless : also[i] = permitOf[i]
    BY <2>2
  <2>4. \A i \in gasless' :
          SettledAs(i, also[i])' /\ <<also[i].agent, also[i].nonce>> \in usedNonces'
    BY <1>1, <1>2, <1>4, <2>3 DEF AnswersTo, SignedStep
  <2>5. \A i \in gasless : ~(permitOf[i].agent = p.agent /\ permitOf[i].nonce = p.nonce)
    BY <1>1, <1>4 DEF AnswersTo
  <2>6. \A i, k \in gasless' :
          also[i].agent = also[k].agent /\ also[i].nonce = also[k].nonce => i = k
    BY <1>1, <1>4, <2>3, <2>5 DEF AnswersTo
  <2>7. AnswersTo(also)'
    BY <2>4, <2>6 DEF AnswersTo
  <2> QED BY <2>7 DEF SignedOK, SignedStep
<1> QED BY <1>3, <1>4 DEF SignedStep

\* A payment adds its entry to the log.
LEMMA PayAppends ==
  ASSUME TypeOK, NEW t, NEW amount, Pay(t, amount)
  PROVE  /\ Len(settlements') = Len(settlements) + 1 /\ Len(settlements') \notin DOMAIN settlements
         /\ DOMAIN settlements' = DOMAIN settlements \cup {Len(settlements')}
         /\ \A i \in DOMAIN settlements : settlements'[i] = settlements[i]
         /\ LET s == settlements'[Len(settlements')]
            IN  /\ s.agent = t[1] /\ s.serviceId = t[2] /\ s.asset = t[3]
                /\ s.amount = amount /\ s.settledAt = now
<1> DEFINE e == [agent |-> t[1], serviceId |-> t[2], asset |-> t[3], amount |-> amount,
                 applied |-> Applied(tabs[t], amount), settledAt |-> now]
<1>1. settlements' = Append(settlements, e)
  BY DEF Pay, ApplySettlement
<1>2. settlements \in Seq(Settlement) /\ Len(settlements) \in Nat
      /\ DOMAIN settlements = 1 .. Len(settlements)
  BY DEF TypeOK
<1> HIDE DEF e
<1>3. /\ Len(settlements') = Len(settlements) + 1
      /\ DOMAIN settlements' = DOMAIN settlements \cup {Len(settlements) + 1}
      /\ settlements'[Len(settlements) + 1] = e
      /\ \A i \in DOMAIN settlements : settlements'[i] = settlements[i]
  BY <1>1, <1>2
<1>4. /\ e.agent = t[1] /\ e.serviceId = t[2] /\ e.asset = t[3]
      /\ e.amount = amount /\ e.settledAt = now
  BY DEF e
<1>5. Len(settlements') \notin DOMAIN settlements
  BY <1>2, <1>3
<1> QED BY <1>3, <1>4, <1>5

\* Nothing moves but what has been signed.
LEMMA QuietlySigned ==
  ASSUME SignedOK, UNCHANGED <<settlements, usedNonces, gasless>>,
         signed \subseteq signed', signed' \subseteq Signature,
         batch' = NoBatch \/ batch' = batch \/ batch'.before.settlements = settlements
  PROVE  SignedStep
<1>1. PICK permitOf \in [gasless -> signed] : AnswersTo(permitOf)
  BY DEF SignedOK
<1>2. \A i \in gasless : i \in DOMAIN settlements
  BY <1>1 DEF AnswersTo, SettledAs
<1>3. BatchSigned'
  BY <1>2 DEF SignedOK, BatchSigned
<1> QED BY <1>2, <1>3 DEF SignedStep

\* A payment without a signature.
LEMMA PaidUnsigned ==
  ASSUME TypeOK, SignedOK, NEW t, NEW amount, Pay(t, amount), UNCHANGED permitVars,
         batch' = NoBatch \/ (batch # NoBatch /\ batch'.before = batch.before)
  PROVE  SignedStep
<1>1. PICK permitOf \in [gasless -> signed] : AnswersTo(permitOf)
  BY DEF SignedOK
<1>2. \A i \in gasless : i \in DOMAIN settlements
  BY <1>1 DEF AnswersTo, SettledAs
<1>3. \A i \in gasless : i \in DOMAIN settlements' /\ settlements'[i] = settlements[i]
  BY <1>2, PayAppends
<1>4. BatchSigned'
  BY <1>3 DEF SignedOK, BatchSigned, permitVars
<1> QED BY <1>3, <1>4 DEF SignedStep, SignedOK, permitVars

\* Whoever submits what Permit2 takes settles what was signed.
LEMMA PaidBySignature ==
  ASSUME TypeOK, SignedOK, NEW p \in Signature, SettleWithPermit2(p)
  PROVE  SignedStep
<1> DEFINE t == <<p.agent, p.serviceId, p.asset>>
<1> PICK n : n = Len(settlements')
  OBVIOUS
<1>1. /\ Pay(t, p.amount) /\ batch' = NoBatch /\ PermitHolds(p)
      /\ usedNonces' = usedNonces \cup {<<p.agent, p.nonce>>}
      /\ gasless' = gasless \cup {n} /\ signed' = signed
  BY DEF SettleWithPermit2
<1>2. p \in signed /\ <<p.agent, p.nonce>> \notin usedNonces /\ now <= p.deadline
  BY <1>1, PayloadIsSigned DEF SignedOK, PermitHolds
<1>3. PICK permitOf \in [gasless -> signed] : AnswersTo(permitOf)
  BY DEF SignedOK
<1>4. \A i \in gasless : i \in DOMAIN settlements
  BY <1>3 DEF AnswersTo, SettledAs
<1>5. /\ n \notin DOMAIN settlements /\ n \in DOMAIN settlements'
      /\ \A i \in gasless : i \in DOMAIN settlements' /\ settlements'[i] = settlements[i]
      /\ settlements'[n].agent = p.agent /\ settlements'[n].serviceId = p.serviceId
      /\ settlements'[n].asset = p.asset /\ settlements'[n].amount = p.amount
      /\ settlements'[n].settledAt = now
  BY <1>1, <1>4, PayAppends
<1>6. SettledAs(n, p)'
  BY <1>2, <1>5 DEF SettledAs
<1> QED BY <1>1, <1>2, <1>5, <1>6 DEF SignedStep, SignedOK, BatchSigned

\* No call of the book but a settlement adds to the log.
LEMMA CallsPayNothing ==
  ASSUME BookCall \/ Tick
  PROVE  settlements' = settlements
<1>1. ASSUME NEW caller, NEW surface, SetSettlementSurface(caller, surface)
      PROVE  settlements' = settlements
  BY <1>1, Zenon DEF SetSettlementSurface
<1>2. ASSUME NEW t, NEW m, NEW d, Authorise(t, m, now + d)
      PROVE  settlements' = settlements
  BY <1>2, Zenon DEF Authorise
<1>3. ASSUME NEW caller, NEW t, NEW units, NEW price, NEW witness, NEW cited,
             RecordDelivery(caller, t, units, price, witness, cited)
      PROVE  settlements' = settlements
  BY <1>3, Zenon DEF RecordDelivery
<1>4. ASSUME NEW t, MarkDelinquent(t)
      PROVE  settlements' = settlements
  BY <1>4, Zenon DEF MarkDelinquent
<1>5. CASE Tick
  BY <1>5, Zenon DEF Tick, bookVars
<1> QED BY <1>1, <1>2, <1>3, <1>4, <1>5, Zenon DEF BookCall

LEMMA SignedNext ==
  ASSUME SettlementInv1, SignedOK, [SettlementNext]_railVars
  PROVE  SignedStep
<1> USE DEF SettlementInv1, IInv
<1>1. signed \subseteq Signature
  BY DEF SignedOK
<1>2. ASSUME NEW t \in Tabs, NEW amount \in Payments, Settle(t, amount)
      PROVE  SignedStep
  BY <1>2, PaidUnsigned DEF Settle
<1>3. ASSUME NEW p \in Permit, Sign(p) \/ SettleWithPermit2(p)
      PROVE  SignedStep
  <2>1. p \in Signature
    BY TabSettlementAssumption DEF Permit, Signature
  <2>2. CASE Sign(p)
    BY <1>1, <2>1, <2>2, QuietlySigned DEF Sign, vars, bookVars
  <2>3. CASE SettleWithPermit2(p)
    BY <2>1, <2>3, PaidBySignature
  <2> QED BY <1>3, <2>2, <2>3
<1>4. ASSUME NEW agent, NEW instructions, BatchBegins(agent, instructions)
      PROVE  SignedStep
  <2>1. batch'.before.settlements = settlements
    BY <1>4 DEF BatchBegins, Ledger
  <2> QED BY <1>1, <1>4, <2>1, QuietlySigned DEF BatchBegins, vars, bookVars, permitVars
<1>5. CASE BatchPays
  <2>1. batch # NoBatch /\ batch' = [batch EXCEPT !.rest = Tail(@)]
    BY <1>5 DEF BatchPays
  <2>2. batch'.before = batch.before
    BY <2>1 DEF BatchOK
  <2> QED BY <1>5, <2>1, <2>2, PaidUnsigned DEF BatchPays
<1>6. CASE BatchEnds
  BY <1>1, <1>6, QuietlySigned DEF BatchEnds, vars, bookVars, permitVars
<1>7. CASE BatchReverts
  <2>1. /\ batch # NoBatch /\ batch' = NoBatch /\ settlements' = batch.before.settlements
        /\ UNCHANGED permitVars
    BY <1>7 DEF BatchReverts, Restored
  <2>2. \A i \in gasless : i \in DOMAIN settlements' /\ settlements'[i] = settlements[i]
    BY <2>1 DEF SignedOK, BatchSigned
  <2> QED BY <1>1, <2>1, <2>2 DEF SignedStep, BatchSigned, permitVars
<1>8. CASE /\ BookCall \/ Tick
           /\ batch = NoBatch
           /\ UNCHANGED <<balances, collections, permitVars, batch>>
  BY <1>1, <1>8, CallsPayNothing, QuietlySigned DEF permitVars
<1>9. CASE UNCHANGED railVars
  BY <1>1, <1>9, QuietlySigned DEF railVars, vars, bookVars, permitVars
<1> QED BY <1>2, <1>3, <1>4, <1>5, <1>6, <1>7, <1>8, <1>9 DEF SettlementNext

\* witnessHash and _pullWithPermit2: whoever submits a payload, and whatever batches
\* are run and taken back between, an entry that a signature made is of what an
\* Agent signed, in time, and no signature makes two.
THEOREM SignaturesSettleOnce == SettlementSpec => []SignatureSettlesOnce
<1>1. SettlementInit => SignedOK
  <2> SUFFICES ASSUME SettlementInit PROVE SignedOK
    OBVIOUS
  <2>1. gasless = {} /\ signed = {} /\ batch = NoBatch
    BY DEF SettlementInit
  <2>2. [i \in {} |-> i] \in [gasless -> signed] /\ AnswersTo([i \in {} |-> i])
    BY <2>1 DEF AnswersTo
  <2> QED BY <2>1, <2>2 DEF SignedOK, BatchSigned
<1>2. SettlementInv1 /\ SignedOK /\ [SettlementNext]_railVars => SignedOK'
  BY SignedNext, SignedKept
<1>3. SignedOK => SignatureSettlesOnce
  BY DEF SignedOK, AnswersTo, SignatureSettlesOnce
<1> QED BY SettlementInit1, SettlementStep1, <1>1, <1>2, <1>3, PTL DEF SettlementSpec
=============================================================================
