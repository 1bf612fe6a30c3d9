-------------------------------- MODULE Rail --------------------------------
(***************************************************************************)
(* The contracts together: TabBook reads ServiceRegistry and Bond, and     *)
(* TabSettlement pays where ServiceRegistry says.  What TabBook assumes of *)
(* the rest of the chain is here what the other contracts do.              *)
(***************************************************************************)
EXTENDS TabSettlement

CONSTANTS
  CurationAuthority, Timelock, MaxWindow, DefaultWindow, RawWindows, MaxChanges,
  Escrow, Amounts \* as in ServiceRegistry and in Bond

ASSUME RailAssumption ==
  /\ Windows = 0 .. MaxWindow /\ Stakes = Amount
  /\ Timelock \in Nat /\ MaxWindow \in 0 .. Timelock - 1
  /\ DefaultWindow \in 1 .. MaxWindow /\ RawWindows \subseteq Nat
  /\ IsFiniteSet(Accounts) /\ Escrow \notin Accounts \cup Agents
  /\ Amounts \subseteq Amount

VARIABLES
  pending, changeNonce, \* of ServiceRegistry
  staked, withdrawn,    \* of Bond
  dueAt \* for each tab with a running clock, the first time it may be marked by
        \* what was announced of its Service when the clock started

Registry == INSTANCE ServiceRegistry
Staking == INSTANCE Bond

registryOnly == <<pending, changeNonce>>
bondOnly == <<staked, withdrawn>>
allVars == <<railVars, registryOnly, bondOnly, dueAt>>

RailInit ==
  /\ Init
  /\ Registry!RegistryInit
  /\ staked = [k \in Staking!Parties |-> 0]
  /\ withdrawn = [k \in Staking!Parties |-> 0]
  /\ free = [k \in Staking!Parties |-> 0]
  /\ balances = [h \in (Agents \cup Accounts \cup {Escrow}) \X Assets |->
                   IF h[1] = Escrow THEN 0 ELSE Tokens]
  /\ signed = {} /\ usedNonces = {} /\ gasless = {} /\ batch = NoBatch
  /\ dueAt = [t \in Tabs |-> 0]

\* The windows an Agent knows of when its tab opens: the one in force, and those
\* a change announces.
KnownWindows(s) ==
  {services[s].settlementWindow} \cup
    {Registry!WindowOf(p.change.raw) :
       p \in {p \in pending : p.serviceId = s /\ p.change.kind = "SettlementWindow"}}

DueAt ==
  [t \in Tabs |-> IF /\ batch = NoBatch \* what a revert restores did not start now
                     /\ tabs[t].oldestUnsettledAt = 0 /\ tabs'[t].oldestUnsettledAt # 0
                  THEN now + Min(KnownWindows(t[2]))
                  ELSE dueAt[t]]

\* Calls of TabBook and TabSettlement, and the clock.
OnBook(Step) == Step /\ UNCHANGED <<registryOnly, bondOnly>> /\ dueAt' = DueAt

\* Calls of ServiceRegistry.
OnRegistry(Step) ==
  /\ batch = NoBatch
  /\ Step
  /\ UNCHANGED <<bookVars, free, balances, permitVars, batch, bondOnly, dueAt>>

\* Calls of Bond; TabBook reads what is free after them.
OnBond(Step) ==
  /\ batch = NoBatch
  /\ Step
  /\ free' = [k \in Staking!Parties |-> Staking!Free(k)']
  /\ UNCHANGED <<bookVars, services, prices, now, collections, permitVars, batch,
                 registryOnly, dueAt>>

RegistryCall ==
  \/ Registry!Register
  \/ \E caller \in Accounts, s \in Services, change \in Registry!Change :
       Registry!QueueChange(caller, s, change)
  \/ \E caller \in Accounts, p \in pending :
       Registry!ApplyChange(caller, p) \/ Registry!CancelChange(caller, p)

RailNext ==
  \/ OnBook(SettlementNext)
  \/ OnRegistry(RegistryCall)
  \/ OnBond(Staking!BondNext)

RailSpec == RailInit /\ [][RailNext]_allVars

-----------------------------------------------------------------------------

\* The other contracts keep what TabBook assumes of the chain, so whatever holds
\* of TabBook under its assumptions holds of the contracts together: a Service
\* once registered keeps its operator and bond account, whatever is queued.  Only
\* a batch that reverts takes the book back.
BookAssumptionsHold == Init /\ [][Next \/ BatchReverts]_vars

\* Bond.sol holds what it says is free, to the token: what TabBook counts as the
\* capital behind an account is in the escrow and could be withdrawn by every
\* party at the same time, whoever paid for it and in whatever portions.
StakesAreHeld ==
  /\ \A k \in Staking!Parties : free[k] >= 0
  /\ \A asset \in Assets :
       balances[<<Escrow, asset>>] =
         SumOf(Accounts, [a \in Accounts |-> free[<<a, asset>>]])

\* No debt can be run up that TabSettlement would refuse to settle: the Service
\* is known, its Collection address for the Asset is set, and the account has
\* at least that much to take the payment from.
DebtIsPayable ==
  \A t \in Tabs : tabs[t].open > 0 =>
    /\ services[t[2]].exists
    /\ collections[<<t[2], t[3]>>] # NoAccount
    /\ tabs[t].open <= assetOpen[Account(t)]

\* A Service cannot "mark one delinquent early" (threat-model.mdx:50): although
\* markDelinquent takes the window of the moment, no tab is marked before the
\* window its Agent knew of when the debt began has passed.  It rests on the
\* timelock being longer than the longest window.
NeverMarkedEarly ==
  [][\A t \in Tabs : tabs'[t].delinquent /\ ~tabs[t].delinquent => now >= dueAt[t]]_allVars
=============================================================================
