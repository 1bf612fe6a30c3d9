------------------------------ MODULE TabBook ------------------------------
(***************************************************************************)
(* The ledger of packages/contracts/src/TabBook.sol: Open Tabs, prepaid    *)
(* credit, authorisations, delinquency, and the settlement history a       *)
(* Credit Limit is computed from.  One action per state-changing function; *)
(* a call that reverts is no step.                                         *)
(*                                                                         *)
(* A tab is <<agent, serviceId, asset>>, the preimage of its tabId.  The   *)
(* history commitment is a chain of hashes of every field of every record, *)
(* so the model keeps the sequence it commits to.  The last five variables *)
(* are what the contract reads of the rest of the chain: ServiceRegistry,  *)
(* Bond and the block clock.  They change by the environment's actions     *)
(* here, and by the contracts' own in a module that composes them.         *)
(***************************************************************************)
EXTENDS LimitLib, UnitSums

CONSTANTS
  Agents, Services, Assets, Accounts,
  NoAccount,         \* the zero address
  WiringAuthority,   \* WIRING_AUTHORITY
  Baseline,          \* BASELINE
  GrowthFactorBps,   \* GROWTH_FACTOR_BPS
  MaxAmount,         \* type(uint128).max
  MaxCount,          \* type(uint32).max
  Units, Prices, Stakes, Windows, \* what the callers and the environment choose from:
  Ceilings, Terms,   \* maxCumulative, and how far expiry is from now
  MaxTime            \* bound on the clock

ASSUME TabBookAssumption ==
  /\ NoAccount \notin Accounts /\ WiringAuthority \in Accounts
  /\ IsFiniteSet(Services) /\ IsFiniteSet(Assets)
  /\ Baseline \in Nat /\ GrowthFactorBps \in Nat
  /\ MaxAmount \in Nat /\ MaxCount \in Nat /\ MaxTime \in Nat \ {0}
  /\ Units \subseteq Nat /\ Prices \subseteq Nat /\ Stakes \subseteq Nat
  /\ Windows \subseteq Nat /\ Ceilings \subseteq 0 .. MaxAmount /\ Terms \subseteq Int

VARIABLES
  settlementSurface, \* the one contract permitted to apply settlements
  tabs,              \* _tabs
  tabRefs,           \* _tabRefs: the tabs whose reverse lookup exists
  assetOpen,         \* _assetOpen
  delinquentTabs,    \* _delinquentTabs
  auths,             \* _auths
  firstDeliveryAt,   \* _firstDeliveryAt
  settlements,       \* _settlements, in the order of _settlementNonce
  history,           \* what _historyRoot commits to; _historyCount is its length
  metered,           \* sum of the amounts of the DeliveryRecorded events
  services,          \* ServiceRegistry.serviceOf
  prices,            \* ServiceRegistry.priceOf; 0 is an unknown tool
  free,              \* Bond.freeOf
  now                \* block.timestamp

bookVars == <<settlementSurface, tabs, tabRefs, assetOpen, delinquentTabs, auths,
              firstDeliveryAt, settlements, history, metered>>
envVars == <<services, prices, free, now>>
vars == <<bookVars, envVars>>

Tabs == Agents \X Services \X Assets
AgentAssets == Agents \X Assets
Account(t) == <<t[1], t[3]>>
TabsOf(x) == {t \in Tabs : Account(t) = x}

Amount == 0 .. MaxAmount
Count == 0 .. MaxCount
Time == 0 .. MaxTime

Tab == [open : Amount, prepaid : Amount, oldestUnsettledAt : Time,
        lastDeliveryAt : Time, deliveryCount : Count, delinquent : BOOLEAN]
Authorisation == [exists : BOOLEAN, maxCumulative : Amount, spent : Amount, expiry : Nat]
Settlement == [agent : Agents, serviceId : Services, asset : Assets,
               amount : Amount, applied : Amount, settledAt : Time]
SettlementRecord == [serviceId : Services, asset : Assets, amount : Amount,
                     settledAt : Time, firstDeliveryAt : Time,
                     curated : BOOLEAN, bonded : BOOLEAN]
Tiers == {"Permissionless", "Curated"}
Entry == [exists : BOOLEAN, operator : Accounts \cup {NoAccount},
          bondAccount : Accounts \cup {NoAccount}, tier : Tiers,
          settlementWindow : Windows]
\* A Service that is registered has the account that registered it for both.
Service == {s \in Entry : s.exists => s.operator \in Accounts /\ s.bondAccount \in Accounts}

TypeOK ==
  /\ settlementSurface \in Accounts \cup {NoAccount}
  /\ tabs \in [Tabs -> Tab]
  /\ tabRefs \subseteq Tabs
  /\ assetOpen \in [AgentAssets -> Nat]
  /\ delinquentTabs \in [AgentAssets -> Count]
  /\ auths \in [Tabs -> Authorisation]
  /\ firstDeliveryAt \in [Tabs -> Time]
  /\ settlements \in Seq(Settlement)
  /\ history \in [AgentAssets -> Seq(SettlementRecord)]
  /\ metered \in [Tabs -> Nat]
  /\ services \in [Services -> Service]
  /\ prices \in [Services \X Assets -> Nat]
  /\ free \in [Accounts \X Assets -> Nat]
  /\ now \in 1 .. MaxTime

Init ==
  /\ settlementSurface = NoAccount
  /\ tabs = [t \in Tabs |-> [open |-> 0, prepaid |-> 0, oldestUnsettledAt |-> 0,
                             lastDeliveryAt |-> 0, deliveryCount |-> 0,
                             delinquent |-> FALSE]]
  /\ tabRefs = {}
  /\ assetOpen = [x \in AgentAssets |-> 0]
  /\ delinquentTabs = [x \in AgentAssets |-> 0]
  /\ auths = [t \in Tabs |-> [exists |-> FALSE, maxCumulative |-> 0, spent |-> 0,
                              expiry |-> 0]]
  /\ firstDeliveryAt = [t \in Tabs |-> 0]
  /\ settlements = <<>>
  /\ history = [x \in AgentAssets |-> <<>>]
  /\ metered = [t \in Tabs |-> 0]
  /\ services \in [Services -> Service]
  /\ prices \in [Services \X Assets -> Prices]
  /\ free \in [Accounts \X Assets -> Stakes]
  /\ now = 1

-----------------------------------------------------------------------------
(* The Credit Limit as the contract computes it.                           *)

\* A witness is accepted when it has the length and folds to the root stored
\* for the account, which is when it is the history itself.
WitnessAccepted(x, witness) == witness = history[x]

IsCounterparty(t) ==
  \/ auths[t].exists
  \/ \E i \in DOMAIN history[Account(t)] :
       /\ history[Account(t)][i].serviceId = t[2]
       /\ history[Account(t)][i].asset = t[3]

\* _resolveBonds takes the entries: not too many, each of a registered Service,
\* and those in the Asset of the account only of counterparties of the Agent.
BondsResolve(x, cited) ==
  /\ Cardinality(cited) <= MaxCounterparties
  /\ \A e \in cited : services[e[1]].exists
  /\ \A e \in cited : e[2] = x[2] => IsCounterparty(<<x[1], e[1], x[2]>>)

ResolvedBonds(cited) ==
  {[serviceId |-> e[1], asset |-> e[2],
    amount |-> free[<<services[e[1]].bondAccount, e[2]>>]] : e \in cited}

Params(x) == [asset |-> x[2], baseline |-> Baseline,
              growthFactorBps |-> GrowthFactorBps, evaluatedAt |-> now]

\* _limitOf returns a number, rather than reverting.
HasLimit(x, witness, cited) ==
  /\ WitnessAccepted(x, witness)
  /\ \/ delinquentTabs[x] > 0
     \/ BondsResolve(x, cited) /\ Evaluates(witness, Params(x))

\* Mutant: a delinquent tab does not zero the limit of the account.
LimitOfIgnoringDelinquency(x, witness, cited) ==
  creditLimit(witness, ResolvedBonds(cited), Params(x))

LimitOf(x, witness, cited) ==
  IF delinquentTabs[x] > 0 THEN 0
  ELSE creditLimit(witness, ResolvedBonds(cited), Params(x))

\* _requireHeadroom lets toOpen more be owed.
HasHeadroom(x, toOpen, witness, cited) ==
  /\ HasLimit(x, witness, cited)
  /\ assetOpen[x] + toOpen <= LimitOf(x, witness, cited)

-----------------------------------------------------------------------------
SetSettlementSurface(caller, surface) ==
  /\ caller = WiringAuthority
  /\ settlementSurface = NoAccount
  /\ settlementSurface' = surface
  /\ UNCHANGED <<tabs, tabRefs, assetOpen, delinquentTabs, auths, firstDeliveryAt,
                 settlements, history, metered, envVars>>

\* A new authorisation replaces the old one, what was spent of it included.
Authorise(t, maxCumulative, expiry) ==
  /\ expiry > now
  /\ auths' = [auths EXCEPT ![t] = [exists |-> TRUE, maxCumulative |-> maxCumulative,
                                    spent |-> 0, expiry |-> expiry]]
  /\ UNCHANGED <<settlementSurface, tabs, tabRefs, assetOpen, delinquentTabs,
                 firstDeliveryAt, settlements, history, metered, envVars>>

\* Prepaid credit is spent first; what remains of the charge is open.
FromPrepaid(tab, charged) == IF tab.prepaid >= charged THEN charged ELSE tab.prepaid
ToOpen(tab, charged) == charged - FromPrepaid(tab, charged)

\* Mutant: the clock of the tab restarts at every delivery.
TabAfterDeliveryRestarting(tab, charged) ==
  [open |-> tab.open + ToOpen(tab, charged),
   prepaid |-> tab.prepaid - FromPrepaid(tab, charged),
   oldestUnsettledAt |-> now,
   lastDeliveryAt |-> now,
   deliveryCount |-> tab.deliveryCount + 1,
   delinquent |-> tab.delinquent]

\* Mutant: prepaid credit is left alone when it does not cover the charge.
TabAfterDeliverySkippingPrepaid(tab, charged) ==
  [tab EXCEPT !.open = @ + (IF tab.prepaid >= charged THEN 0 ELSE charged),
              !.prepaid = @ - (IF tab.prepaid >= charged THEN charged ELSE 0),
              !.lastDeliveryAt = now, !.deliveryCount = @ + 1]

TabAfterDelivery(tab, charged) ==
  [open |-> tab.open + ToOpen(tab, charged),
   prepaid |-> tab.prepaid - FromPrepaid(tab, charged),
   oldestUnsettledAt |-> IF ToOpen(tab, charged) > 0 /\ tab.oldestUnsettledAt = 0
                         THEN now ELSE tab.oldestUnsettledAt,
   lastDeliveryAt |-> now,
   deliveryCount |-> tab.deliveryCount + 1,
   delinquent |-> tab.delinquent]

\* _requireOperator and _requireNotDelinquent.
MayMeter(caller, t) ==
  /\ services[t[2]].exists /\ services[t[2]].operator = caller
  /\ ~tabs[t].delinquent

\* _charge: the price quoted to the Agent is the price on chain.
IsQuoted(t, units, expectedUnitPrice) ==
  LET price == prices[<<t[2], t[3]>>]
  IN  /\ units # 0
      /\ price # 0 /\ expectedUnitPrice = price
      /\ units * price <= MaxAmount

\* _consumeAuthorisation: the charge is within what the Agent allows.
IsAuthorised(t, charged) ==
  /\ auths[t].exists /\ auths[t].expiry >= now
  /\ auths[t].spent + charged <= auths[t].maxCumulative

\* Charge, consume the authorisation, test the limit, write the tab.
RecordDelivery(caller, t, units, expectedUnitPrice, witness, cited) ==
  LET x == Account(t)
      charged == units * prices[<<t[2], t[3]>>]
      toOpen == ToOpen(tabs[t], charged)
  IN  /\ MayMeter(caller, t)
      /\ IsQuoted(t, units, expectedUnitPrice)
      /\ IsAuthorised(t, charged)
      /\ HasHeadroom(x, toOpen, witness, cited)
      /\ tabs[t].open + toOpen <= MaxAmount
      /\ tabs[t].deliveryCount < MaxCount
      /\ auths' = [auths EXCEPT ![t].spent = @ + charged]
      /\ tabRefs' = tabRefs \cup {t}
      /\ tabs' = [tabs EXCEPT ![t] = TabAfterDelivery(tabs[t], charged)]
      /\ assetOpen' = [assetOpen EXCEPT ![x] = @ + toOpen]
      /\ firstDeliveryAt' = IF firstDeliveryAt[t] = 0
                            THEN [firstDeliveryAt EXCEPT ![t] = now]
                            ELSE firstDeliveryAt
      /\ metered' = [metered EXCEPT ![t] = @ + charged]
      /\ UNCHANGED <<settlementSurface, delinquentTabs, settlements, history, envVars>>

\* Mutant: the whole payment is taken from what is open.
AppliedUncapped(tab, amount) == amount

Applied(tab, amount) == IF amount < tab.open THEN amount ELSE tab.open

ClosesTab(tab, amount) == Applied(tab, amount) > 0 /\ tab.open = Applied(tab, amount)

\* Mutant: any settlement clears the delinquency, also one that leaves a rest.
SettlesDelinquencyAtOnce(tab, amount) == tab.delinquent

\* _clearDelinquencyIfSettled clears the flag of the tab.
SettlesDelinquency(tab, amount) == tab.delinquent /\ tab.open = Applied(tab, amount)

\* Mutant: the clock of the tab is not reset when nothing is open any more.
TabAfterSettlementKeepingClock(tab, amount) ==
  [tab EXCEPT !.open = @ - Applied(tab, amount),
              !.prepaid = @ + (amount - Applied(tab, amount)),
              !.delinquent = @ /\ ~SettlesDelinquency(tab, amount)]

\* Mutant: the whole amount is banked as prepaid credit.
TabAfterSettlementBankingAll(tab, amount) ==
  [tab EXCEPT !.open = @ - Applied(tab, amount),
              !.oldestUnsettledAt = IF ClosesTab(tab, amount) THEN 0 ELSE @,
              !.prepaid = @ + amount,
              !.delinquent = @ /\ ~SettlesDelinquency(tab, amount)]

TabAfterSettlement(tab, amount) ==
  [tab EXCEPT !.open = @ - Applied(tab, amount),
              !.oldestUnsettledAt = IF ClosesTab(tab, amount) THEN 0 ELSE @,
              !.prepaid = @ + (amount - Applied(tab, amount)),
              !.delinquent = @ /\ ~SettlesDelinquency(tab, amount)]

\* The record _extendHistory folds into the commitment: the tier and the Bond
\* of the Service are the ones it has now.
RecordOf(t, amount) ==
  [serviceId |-> t[2], asset |-> t[3], amount |-> amount, settledAt |-> now,
   firstDeliveryAt |-> firstDeliveryAt[t],
   curated |-> services[t[2]].tier = "Curated",
   bonded |-> free[<<services[t[2]].bondAccount, t[3]>>] > 0]

ApplySettlement(caller, t, amount) ==
  LET x == Account(t)
      applied == Applied(tabs[t], amount)
  IN  /\ caller = settlementSurface
      /\ amount # 0
      /\ applied <= assetOpen[x]  \* checked subtraction
      /\ tabs[t].prepaid + (amount - applied) <= MaxAmount
      /\ services[t[2]].exists
      /\ Len(history[x]) < MaxCount
      /\ tabRefs' = tabRefs \cup {t}
      /\ tabs' = [tabs EXCEPT ![t] = TabAfterSettlement(tabs[t], amount)]
      /\ assetOpen' = [assetOpen EXCEPT ![x] = @ - applied]
      /\ settlements' = Append(settlements,
                          [agent |-> t[1], serviceId |-> t[2], asset |-> t[3],
                           amount |-> amount, applied |-> applied, settledAt |-> now])
      /\ delinquentTabs' = IF SettlesDelinquency(tabs[t], amount) /\ delinquentTabs[x] > 0
                           THEN [delinquentTabs EXCEPT ![x] = @ - 1]
                           ELSE delinquentTabs
      /\ history' = [history EXCEPT ![x] = Append(@, RecordOf(t, amount))]
      /\ UNCHANGED <<settlementSurface, auths, firstDeliveryAt, metered, envVars>>

\* Mutant: a tab that is delinquent already is counted again.
CanMarkTwice(tab) == tab.open # 0 /\ tab.oldestUnsettledAt # 0

CanMark(tab) == ~tab.delinquent /\ tab.open # 0 /\ tab.oldestUnsettledAt # 0

\* Callable by anyone.
MarkDelinquent(t) ==
  /\ t \in tabRefs
  /\ CanMark(tabs[t])
  /\ services[t[2]].exists
  /\ now >= tabs[t].oldestUnsettledAt + services[t[2]].settlementWindow
  /\ delinquentTabs[Account(t)] < MaxCount
  /\ tabs' = [tabs EXCEPT ![t].delinquent = TRUE]
  /\ delinquentTabs' = [delinquentTabs EXCEPT ![Account(t)] = @ + 1]
  /\ UNCHANGED <<settlementSurface, tabRefs, assetOpen, auths, firstDeliveryAt,
                 settlements, history, metered, envVars>>

-----------------------------------------------------------------------------
(* What the rest of the chain may do between two calls.                    *)

\* A Service once registered keeps its operator and its bond account; its
\* prices may change with it.
RegistryStep ==
  \E s \in Services, r \in Service, price \in [Assets -> Prices] :
    /\ services[s].exists =>
         r.exists /\ r.operator = services[s].operator /\ r.bondAccount = services[s].bondAccount
    /\ services' = [services EXCEPT ![s] = r]
    /\ prices' = [k \in Services \X Assets |-> IF k[1] = s THEN price[k[2]] ELSE prices[k]]
    /\ UNCHANGED <<bookVars, free, now>>

BondStep ==
  \E k \in Accounts \X Assets, stake \in Stakes :
    /\ free' = [free EXCEPT ![k] = stake]
    /\ UNCHANGED <<bookVars, services, prices, now>>

Tick ==
  /\ now < MaxTime
  /\ now' = now + 1
  /\ UNCHANGED <<bookVars, services, prices, free>>

\* The calls of the Agents, the Services and anybody else.
BookCall ==
  \/ \E caller, surface \in Accounts : SetSettlementSurface(caller, surface)
  \/ \E t \in Tabs, m \in Ceilings, d \in Terms : Authorise(t, m, now + d)
  \/ \E caller \in Accounts, t \in Tabs, units \in Units, price \in Prices,
        witness \in {history[x] : x \in AgentAssets}, cited \in SUBSET (Services \X Assets) :
       RecordDelivery(caller, t, units, price, witness, cited)
  \/ \E t \in Tabs : MarkDelinquent(t)

BookStep ==
  \/ BookCall
  \/ \E caller \in Accounts, t \in Tabs, amount \in Amount : ApplySettlement(caller, t, amount)

Next == BookStep \/ RegistryStep \/ BondStep \/ Tick

Spec == Init /\ [][Next]_vars

-----------------------------------------------------------------------------
(* Properties.                                                             *)

Owed(x) == SumOf(TabsOf(x), [t \in Tabs |-> tabs[t].open])

SettlementsOf(t) ==
  {i \in DOMAIN settlements :
     <<settlements[i].agent, settlements[i].serviceId, settlements[i].asset>> = t}
Paid(t) == SumOf(SettlementsOf(t), [i \in DOMAIN settlements |-> settlements[i].amount])

\* _assetOpen, which the Credit Limit is compared with, is at all times what
\* the tabs of the Agent in the Asset have open, whatever the order in which
\* recordDelivery and applySettlement add to it and take from it.
AssetOpenIsSum == \A x \in AgentAssets : assetOpen[x] = Owed(x)

\* _delinquentTabs, which zeroes the Credit Limit, counts the delinquent tabs:
\* marking and clearing, far apart in time, never count a tab twice or lose one.
DelinquentTabs(x) == {t \in TabsOf(x) : tabs[t].delinquent}
DelinquentCounted ==
  \A x \in AgentAssets : delinquentTabs[x] = Cardinality(DelinquentTabs(x))

\* A tab with something open has a running clock and a reverse lookup, the two
\* things markDelinquent asks for: no debt escapes its Settlement Window.
OpenTabIsMarkable ==
  \A t \in Tabs : tabs[t].open > 0 =>
    /\ t \in tabRefs
    /\ tabs[t].oldestUnsettledAt \in 1 .. tabs[t].lastDeliveryAt
    /\ tabs[t].lastDeliveryAt <= now

\* A tab with nothing open is not delinquent and has no clock, so an Agent that
\* paid in full cannot be held delinquent, nor marked for the next delivery
\* with the clock of an earlier debt.
ClosedTabIsClean ==
  \A t \in Tabs : tabs[t].open = 0 =>
    ~tabs[t].delinquent /\ tabs[t].oldestUnsettledAt = 0

\* Nothing is owed while prepaid credit is left.
NoDebtBesideCredit == \A t \in Tabs : tabs[t].open = 0 \/ tabs[t].prepaid = 0

\* The fields of a tab agree after any order of deliveries, payments and marks:
\* what is owed can be marked, what is paid is clean, and credit is used first.
TabIsSound == OpenTabIsMarkable /\ ClosedTabIsClean /\ NoDebtBesideCredit

\* Every base unit metered is paid or open, and every base unit paid went to a
\* delivery or is prepaid credit.
MeteredIsPaidOrOpen ==
  \A t \in Tabs :
    metered[t] + tabs[t].prepaid = Paid(t) + tabs[t].open

\* While one tab of an account is delinquent no Service meters anything to the
\* account, not even against prepaid credit on another tab.
DelinquentAccountIsFrozen ==
  [][\A t \in Tabs : DelinquentTabs(Account(t)) # {} => metered'[t] = metered[t]]_vars

\* Only the settlement that closes a tab lifts its delinquency.
DelinquencyEndsInSettlement ==
  [][\A t \in Tabs : tabs[t].delinquent /\ ~tabs'[t].delinquent =>
       tabs'[t].open = 0 /\ Len(settlements') > Len(settlements)]_vars

\* The counterparties of an account whose Bonds can be cited: an Agent may also
\* authorise a Service that is not registered.
CitableServices(x) ==
  {s \in Services : services[s].exists /\ IsCounterparty(<<x[1], s, x[2]>>)}

\* The Bonds behind the counterparties of an account, one for each Service.
CounterpartyStake(x) ==
  BondSum(ResolvedBonds({<<s, x[2]>> : s \in CitableServices(x)}), x[2])

\* Credit is only extended below the Bonds of the counterparties: a delivery
\* never takes what is open in an Asset to their sum or above it.
CreditWithinStakes ==
  [][\A x \in AgentAssets :
       assetOpen'[x] > assetOpen[x] => assetOpen'[x] < CounterpartyStake(x)]_vars

\* The Services the Agent of x has paid at a time after one they delivered to it.
PaidAfterDelivery(x) ==
  {s \in Services :
     \E i \in SettlementsOf(<<x[1], s, x[2]>>) :
       firstDeliveryAt[<<x[1], s, x[2]>>] \in 1 .. (settlements[i].settledAt - 1)}

\* Credit beyond the baseline is borrowed only by an Agent that three Services
\* were paid by after delivering to it (R17.5), however the witnesses, the Bonds
\* cited and the settlements are chosen.
BorrowingIsEarned ==
  [][\A x \in AgentAssets :
       assetOpen'[x] > assetOpen[x] /\ assetOpen'[x] > Baseline =>
         Cardinality(PaidAfterDelivery(x)) >= 3]_vars

\* The accounts whose Bond backs a counterparty, each counted once.
CapitalAtRisk(x) ==
  BondSum({[serviceId |-> a, asset |-> x[2], amount |-> free[<<a, x[2]>>]] :
             a \in {services[s].bondAccount : s \in CitableServices(x)}}, x[2])

\* LimitLib.sol:19-21: "the Credit Limit is strictly below the capital the
\* counterparties have at risk for every input"; WHITEPAPER.md:453: "to unlock `X`
\* of credit a ring must lock strictly more than `X` in `Bond`".
CreditBelowCapitalAtRisk ==
  [][\A x \in AgentAssets :
       assetOpen'[x] > assetOpen[x] => assetOpen'[x] < CapitalAtRisk(x)]_vars

\* The ledger implements CreditLine: the balance of a tab is what is open less
\* what is prepaid, the allowance is the unspent rest of the authorisation, and
\* the frozen tabs are the delinquent ones.
Line == INSTANCE CreditLine WITH
  balance <- [t \in Tabs |-> tabs[t].open - tabs[t].prepaid],
  allowance <- [t \in Tabs |-> auths[t].maxCumulative - auths[t].spent],
  frozen <- {t \in Tabs : tabs[t].delinquent}

ImplementsCreditLine == Line!Spec
=============================================================================
