-------------------------- MODULE ServiceRegistry --------------------------
(***************************************************************************)
(* packages/contracts/src/ServiceRegistry.sol: who meters, at what price,  *)
(* where a Service is paid and how long an Agent has to settle.  Anyone may*)
(* register a Service; every later change waits behind a timelock.         *)
(*                                                                         *)
(* A Service has one tool, or none (its price is then 0, which priceOf     *)
(* refuses).  The arrays of registerService are the function they are read *)
(* into.  A change is the record its payload decodes to; a changeId is the *)
(* nonce that makes it unique.                                             *)
(***************************************************************************)
EXTENDS Integers

CONSTANTS
  Services, Assets, Accounts,
  NoAccount,         \* the zero address
  CurationAuthority, \* curationAuthority
  Timelock,          \* TIMELOCK
  MaxWindow,         \* MAX_SETTLEMENT_WINDOW
  DefaultWindow,     \* DEFAULT_SETTLEMENT_WINDOW
  Prices, RawWindows, \* what the operators choose from
  MaxChanges,        \* bound on the changes ever queued
  MaxTime            \* bound on the clock

ASSUME ServiceRegistryAssumption ==
  /\ NoAccount \notin Accounts /\ CurationAuthority \in Accounts
  /\ Timelock \in Nat \ {0} /\ MaxWindow \in Nat /\ MaxChanges \in Nat /\ MaxTime \in Nat
  /\ DefaultWindow \in 1 .. MaxWindow
  /\ Prices \subseteq Nat /\ RawWindows \subseteq Nat

VARIABLES
  services,    \* _services
  collections, \* _collections; NoAccount for an Asset that is not accepted
  prices,      \* _prices
  pending,     \* _changes, the open ones
  changeNonce, \* _changeNonce
  now          \* block.timestamp

termVars == <<services, collections, prices>>
registryVars == <<services, collections, prices, pending, changeNonce, now>>

Listings == Services \X Assets
Tiers == {"Permissionless", "Curated"}

\* What may be queued; a payload is what it decodes to.
Change ==
  [kind : {"Tier"}, to : Tiers]
    \cup [kind : {"Price"}, asset : Assets, baseUnits : Prices]
    \cup [kind : {"Collection", "AcceptedAsset"}, asset : Assets, to : Accounts \cup {NoAccount}]
    \cup [kind : {"SettlementWindow"}, raw : RawWindows]

Unregistered == [exists |-> FALSE, operator |-> NoAccount, bondAccount |-> NoAccount,
                 tier |-> "Permissionless", settlementWindow |-> 0]

RegistryInit ==
  /\ services = [s \in Services |-> Unregistered]
  /\ collections = [l \in Listings |-> NoAccount]
  /\ prices = [l \in Listings |-> 0]
  /\ pending = {}
  /\ changeNonce = 0
  /\ now = 1

-----------------------------------------------------------------------------

\* A window of zero stands for the default one.
WindowOf(raw) == IF raw = 0 THEN DefaultWindow ELSE raw

\* Mutant: a serviceId may be registered again, by anybody.
MayRegisterAgain(s) == TRUE

MayRegister(s) == ~services[s].exists

\* registerService lists the Assets in the domain of collectionOf, each with
\* its Collection address, and in each a price for the tool if there is one.
RegisterService(caller, s, collectionOf, hasTool, priceOf, raw) ==
  /\ MayRegister(s)
  /\ DOMAIN collectionOf # {}
  /\ WindowOf(raw) <= MaxWindow
  /\ \A a \in DOMAIN collectionOf : collectionOf[a] # NoAccount
  /\ hasTool => \A a \in DOMAIN collectionOf : priceOf[a] # 0
  /\ services' = [services EXCEPT ![s] =
       [exists |-> TRUE, operator |-> caller, bondAccount |-> caller,
        tier |-> "Permissionless", settlementWindow |-> WindowOf(raw)]]
  /\ collections' = [l \in Listings |->
       IF l[1] = s /\ l[2] \in DOMAIN collectionOf THEN collectionOf[l[2]] ELSE collections[l]]
  /\ prices' = [l \in Listings |->
       IF l[1] = s /\ l[2] \in DOMAIN collectionOf /\ hasTool THEN priceOf[l[2]] ELSE prices[l]]
  /\ UNCHANGED <<pending, changeNonce, now>>

\* _authoriseChange
MayChange(caller, s, change) ==
  /\ services[s].exists
  /\ caller = IF change.kind = "Tier" THEN CurationAuthority ELSE services[s].operator

\* Mutant: a Collection address may be moved to the zero address.
DecodesZeroMove(s, change) ==
  change.kind = "Collection" => collections[<<s, change.asset>>] # NoAccount

\* The decoders, which queueChange and applyChange both run.
Decodes(s, change) ==
  CASE change.kind = "Tier" -> TRUE
    [] change.kind = "Price" -> change.baseUnits # 0
    [] change.kind = "Collection" ->
         change.to # NoAccount /\ collections[<<s, change.asset>>] # NoAccount
    [] change.kind = "AcceptedAsset" ->
         change.to # NoAccount /\ collections[<<s, change.asset>>] = NoAccount
    [] change.kind = "SettlementWindow" -> WindowOf(change.raw) <= MaxWindow

\* _writeChange does not revert: _setToolPrice also wants the Asset accepted.
CanWrite(s, change) ==
  /\ Decodes(s, change)
  /\ change.kind = "Price" => collections[<<s, change.asset>>] # NoAccount

WriteChange(s, change) ==
  /\ CanWrite(s, change)
  /\ services' =
       CASE change.kind = "Tier" -> [services EXCEPT ![s].tier = change.to]
         [] change.kind = "SettlementWindow" ->
              [services EXCEPT ![s].settlementWindow = WindowOf(change.raw)]
         [] OTHER -> services
  /\ prices' = IF change.kind = "Price"
               THEN [prices EXCEPT ![<<s, change.asset>>] = change.baseUnits] ELSE prices
  /\ collections' = IF change.kind \in {"Collection", "AcceptedAsset"}
                    THEN [collections EXCEPT ![<<s, change.asset>>] = change.to]
                    ELSE collections

\* Mutant: the hold on a change of a price is left out.
EtaOfPriceAtOnce(change) == IF change.kind = "Price" THEN now ELSE now + Timelock

\* Mutant: the hold on a change of a Settlement Window is left out.
EtaOfWindowAtOnce(change) ==
  IF change.kind = "SettlementWindow" THEN now ELSE now + Timelock

Eta(change) == now + Timelock

QueueChange(caller, s, change) ==
  /\ changeNonce < MaxChanges
  /\ MayChange(caller, s, change)
  /\ Decodes(s, change)
  /\ pending' = pending \cup
       {[id |-> changeNonce, serviceId |-> s, change |-> change, eta |-> Eta(change)]}
  /\ changeNonce' = changeNonce + 1
  /\ UNCHANGED <<termVars, now>>

\* Who may queue a change may apply it, when its time has come.
ApplyChange(caller, p) ==
  /\ p \in pending
  /\ now >= p.eta
  /\ MayChange(caller, p.serviceId, p.change)
  /\ pending' = pending \ {p}
  /\ WriteChange(p.serviceId, p.change)
  /\ UNCHANGED <<changeNonce, now>>

CancelChange(caller, p) ==
  /\ p \in pending
  /\ MayChange(caller, p.serviceId, p.change)
  /\ pending' = pending \ {p}
  /\ UNCHANGED <<termVars, changeNonce, now>>

-----------------------------------------------------------------------------

RegistryTick ==
  /\ now < MaxTime
  /\ now' = now + 1
  /\ UNCHANGED <<termVars, pending, changeNonce>>

Register ==
  \E caller \in Accounts, s \in Services, A \in SUBSET Assets, hasTool \in BOOLEAN,
     raw \in RawWindows :
    \E collectionOf \in [A -> Accounts \cup {NoAccount}], priceOf \in [A -> Prices] :
      RegisterService(caller, s, collectionOf, hasTool, priceOf, raw)

RegistryNext ==
  \/ Register
  \/ \E caller \in Accounts, s \in Services, change \in Change : QueueChange(caller, s, change)
  \/ \E caller \in Accounts, p \in pending : ApplyChange(caller, p)
  \/ \E caller \in Accounts, p \in pending : CancelChange(caller, p)
  \/ RegistryTick
=============================================================================
