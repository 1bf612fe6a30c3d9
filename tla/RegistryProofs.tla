--------------------------- MODULE RegistryProofs ---------------------------
(***************************************************************************)
(* What TLAPS proves of the registry, of the multisig that curates it and  *)
(* of the index that is kept of it: for any owners, threshold and calls,   *)
(* what is made had its quorum; for any Services, Assets and timelock, an  *)
(* Agent that read the terms of a Service has the timelock before one that *)
(* was not announced moves; a tier takes both; and what was indexed of a   *)
(* block that nothing replaced stays, for any window and reorganisations.  *)
(***************************************************************************)
EXTENDS Curation, RegistryNotice, Indexer, FiniteSetTheorems, SequenceTheorems, TLAPS

-----------------------------------------------------------------------------
(* The multisig.                                                           *)

\* The inductive invariant.  That no call is made without a quorum needs the
\* counter of the proposal to be the number of its confirmers.
MultisigInv ==
  /\ MultisigTypeOK
  /\ ConfirmationsCounted
  /\ ExecutedHasQuorum

LEMMA ConfirmersFinite ==
  ASSUME NEW c \in Calls
  PROVE  IsFiniteSet(Confirmers(c)) /\ Confirmers(c) \subseteq Owners
<1>1. Confirmers(c) \subseteq Owners
  BY DEF Confirmers
<1> QED BY <1>1, FS_Subset, MultisigAssumption

LEMMA MultisigInitInv == MultisigInit => MultisigInv
<1> SUFFICES ASSUME MultisigInit PROVE MultisigInv
  OBVIOUS
<1>1. MultisigTypeOK
  BY MultisigAssumption DEF MultisigInit, MultisigTypeOK, Proposal
<1>2. \A c \in Calls : Confirmers(c) = {}
  BY DEF MultisigInit, Confirmers
<1>3. ConfirmationsCounted
  BY <1>2, FS_EmptySet DEF MultisigInit, ConfirmationsCounted
<1>4. ExecutedHasQuorum
  BY DEF MultisigInit, ExecutedHasQuorum
<1> QED BY <1>1, <1>3, <1>4 DEF MultisigInv

\* A confirmation adds its owner and one to the count.
LEMMA ConfirmInv ==
  ASSUME MultisigInv, NEW owner \in Owners, NEW c \in Calls,
         Propose(owner, c) \/ Confirm(owner, c)
  PROVE  MultisigInv'
<1>1. /\ MultisigTypeOK /\ proposals[c] \in Proposal
      /\ ~proposals[c].executed /\ <<c, owner>> \notin hasConfirmed
      /\ proposals[c].confirmations < MaxConfirmations
      /\ hasConfirmed' = hasConfirmed \cup {<<c, owner>>}
  BY DEF MultisigInv, MultisigTypeOK, Propose, Confirm, MayConfirm
<1>2. /\ DOMAIN proposals' = Calls
      /\ proposals'[c].confirmations = proposals[c].confirmations + 1
      /\ proposals'[c].executed = FALSE
      /\ proposals'[c] \in Proposal
  BY <1>1, MultisigAssumption
     DEF MultisigTypeOK, Propose, Confirm, Proposal
<1>3. \A d \in Calls : d # c => proposals'[d] = proposals[d]
  BY <1>1 DEF MultisigTypeOK, Propose, Confirm
<1>4. MultisigTypeOK'
  <2>1. proposals' \in [Calls -> Proposal]
    BY <1>1, <1>2, <1>3 DEF MultisigTypeOK, Propose, Confirm
  <2> QED BY <1>1, <2>1 DEF MultisigTypeOK
<1>5. Confirmers(c)' = Confirmers(c) \cup {owner} /\ owner \notin Confirmers(c)
  BY <1>1 DEF Confirmers
<1>6. \A d \in Calls : d # c => Confirmers(d)' = Confirmers(d)
  BY <1>1 DEF Confirmers
<1>7. Cardinality(Confirmers(c)') = Cardinality(Confirmers(c)) + 1
  BY <1>5, ConfirmersFinite, FS_AddElement
<1>8. ConfirmationsCounted'
  BY <1>2, <1>3, <1>6, <1>7 DEF MultisigInv, ConfirmationsCounted
<1>9. ExecutedHasQuorum'
  BY <1>2, <1>3, <1>6 DEF MultisigInv, ExecutedHasQuorum
<1> QED BY <1>4, <1>8, <1>9 DEF MultisigInv

\* A withdrawal takes its owner and one from the count, of a call not made yet.
LEMMA RevokeInv ==
  ASSUME MultisigInv, NEW owner \in Owners, NEW c \in Calls, Revoke(owner, c)
  PROVE  MultisigInv'
<1>1. /\ MultisigTypeOK /\ proposals[c] \in Proposal
      /\ ~proposals[c].executed /\ <<c, owner>> \in hasConfirmed
      /\ hasConfirmed' = hasConfirmed \ {<<c, owner>>}
  BY DEF MultisigInv, MultisigTypeOK, Revoke, MayRevoke
<1>2. Confirmers(c)' = Confirmers(c) \ {owner} /\ owner \in Confirmers(c)
  BY <1>1 DEF Confirmers
<1>3. \A d \in Calls : d # c => Confirmers(d)' = Confirmers(d)
  BY <1>1 DEF Confirmers
<1>4. /\ Cardinality(Confirmers(c)') = Cardinality(Confirmers(c)) - 1
      /\ Cardinality(Confirmers(c)') \in Nat
  <2>1. IsFiniteSet(Confirmers(c)) /\ IsFiniteSet(Confirmers(c) \ {owner})
    BY ConfirmersFinite, FS_RemoveElement
  <2> QED BY <1>2, <2>1, FS_RemoveElement, FS_CardinalityType
<1>5. proposals[c].confirmations = Cardinality(Confirmers(c))
  BY DEF MultisigInv, ConfirmationsCounted
<1>6. /\ proposals'[c].confirmations = proposals[c].confirmations - 1
      /\ proposals'[c].executed = FALSE
      /\ proposals'[c] \in Proposal
  BY <1>1, <1>4, <1>5, MultisigAssumption DEF MultisigTypeOK, Revoke, Proposal
<1>7. \A d \in Calls : d # c => proposals'[d] = proposals[d]
  BY <1>1 DEF MultisigTypeOK, Revoke
<1>8. MultisigTypeOK'
  <2>1. proposals' \in [Calls -> Proposal]
    BY <1>1, <1>6, <1>7 DEF MultisigTypeOK, Revoke
  <2> QED BY <1>1, <2>1 DEF MultisigTypeOK
<1>9. ConfirmationsCounted'
  BY <1>3, <1>4, <1>5, <1>6, <1>7 DEF MultisigInv, ConfirmationsCounted
<1>10. ExecutedHasQuorum'
  BY <1>3, <1>6, <1>7 DEF MultisigInv, ExecutedHasQuorum
<1> QED BY <1>8, <1>9, <1>10 DEF MultisigInv

LEMMA ExecuteInv ==
  ASSUME MultisigInv, NEW c \in Calls, Execute(c)
  PROVE  MultisigInv'
<1>1. /\ MultisigTypeOK /\ proposals[c] \in Proposal /\ hasConfirmed' = hasConfirmed
      /\ proposals' = [proposals EXCEPT ![c].executed = TRUE]
      /\ proposals[c].confirmations >= Threshold
  BY DEF MultisigInv, MultisigTypeOK, Execute
<1>2. MultisigTypeOK'
  BY <1>1 DEF MultisigTypeOK, Proposal
<1>3. \A d \in Calls : Confirmers(d)' = Confirmers(d)
  BY <1>1 DEF Confirmers
<1>4. \A d \in Calls : proposals'[d].confirmations = proposals[d].confirmations
  BY <1>1 DEF MultisigTypeOK, Proposal
<1>5. \A d \in Calls : d # c => proposals'[d] = proposals[d]
  BY <1>1 DEF MultisigTypeOK
<1>6. ConfirmationsCounted'
  BY <1>3, <1>4 DEF MultisigInv, ConfirmationsCounted
<1>7. ExecutedHasQuorum'
  BY <1>1, <1>3, <1>5 DEF MultisigInv, ConfirmationsCounted, ExecutedHasQuorum
<1> QED BY <1>2, <1>6, <1>7 DEF MultisigInv

LEMMA MultisigStepInv == MultisigInv /\ [MultisigNext]_multisigVars => MultisigInv'
<1> SUFFICES ASSUME MultisigInv, [MultisigNext]_multisigVars PROVE MultisigInv'
  OBVIOUS
<1>1. CASE OwnerStep
  BY <1>1, ConfirmInv, RevokeInv DEF OwnerStep
<1>2. CASE \E c \in Calls : Execute(c)
  BY <1>2, ExecuteInv
<1>3. CASE UNCHANGED multisigVars
  BY <1>3 DEF multisigVars, MultisigInv, MultisigTypeOK, ConfirmationsCounted,
              ExecutedHasQuorum, Confirmers
<1> QED BY <1>1, <1>2, <1>3 DEF MultisigNext

\* The counter that execute compares with the threshold is at all times the
\* number of distinct owners behind the call, and every call that was made has
\* at least the threshold of them on record.
THEOREM QuorumStands ==
  MultisigSpec => [](MultisigTypeOK /\ ConfirmationsCounted /\ ExecutedHasQuorum)
<1>1. MultisigInv => MultisigTypeOK /\ ConfirmationsCounted /\ ExecutedHasQuorum
  BY DEF MultisigInv
<1> QED BY MultisigInitInv, MultisigStepInv, <1>1, PTL DEF MultisigSpec

-----------------------------------------------------------------------------
(* The registry.                                                           *)

Pending == [id : Nat, serviceId : Services, change : Change, eta : Nat]

RegistryTypes ==
  /\ services \in [Services -> [exists : BOOLEAN, operator : Accounts \cup {NoAccount},
                                bondAccount : Accounts \cup {NoAccount}, tier : Tiers,
                                settlementWindow : Nat]]
  /\ DOMAIN collections = Listings /\ DOMAIN prices = Listings
  /\ pending \subseteq Pending
  /\ changeNonce \in Nat /\ now \in Nat

LEMMA InitTypes == RegistryInit => RegistryTypes
  BY DEF RegistryInit, RegistryTypes, Unregistered, Tiers

\* A registration is of a Service that was not there, and touches no other.
LEMMA RegisterSound ==
  ASSUME RegistryTypes, Register
  PROVE  \E s \in Services :
           /\ ~services[s].exists
           /\ RegistryTypes'
           /\ UNCHANGED <<pending, changeNonce, now>>
           /\ \A t \in Services \ {s} : services'[t] = services[t]
           /\ \A l \in Listings : l[1] # s =>
                collections'[l] = collections[l] /\ prices'[l] = prices[l]
           /\ services'[s].exists /\ services'[s].tier = "Permissionless"
<1>1. PICK caller \in Accounts, s \in Services, A \in SUBSET Assets, hasTool \in BOOLEAN,
           raw \in RawWindows :
        \E collectionOf \in [A -> Accounts \cup {NoAccount}], priceOf \in [A -> Prices] :
          RegisterService(caller, s, collectionOf, hasTool, priceOf, raw)
  BY DEF Register
<1>2. PICK collectionOf, priceOf : RegisterService(caller, s, collectionOf, hasTool, priceOf, raw)
  BY <1>1
<1>3. WindowOf(raw) \in Nat
  BY ServiceRegistryAssumption DEF WindowOf
<1> DEFINE row == [exists |-> TRUE, operator |-> caller, bondAccount |-> caller,
                   tier |-> "Permissionless", settlementWindow |-> WindowOf(raw)]
<1>4. services' = [services EXCEPT ![s] = row] /\ ~services[s].exists
      /\ UNCHANGED <<pending, changeNonce, now>>
  BY <1>2 DEF RegisterService, MayRegister
<1>5. row \in [exists : BOOLEAN, operator : Accounts \cup {NoAccount},
               bondAccount : Accounts \cup {NoAccount}, tier : Tiers, settlementWindow : Nat]
  BY <1>3 DEF Tiers
<1>6. /\ services'[s] = row /\ row.exists /\ row.tier = "Permissionless"
      /\ \A t \in Services \ {s} : services'[t] = services[t]
  BY <1>4 DEF RegistryTypes
<1>7. /\ DOMAIN collections' = Listings /\ DOMAIN prices' = Listings
      /\ \A l \in Listings : l[1] # s =>
           collections'[l] = collections[l] /\ prices'[l] = prices[l]
  BY <1>2 DEF RegisterService
<1>8. RegistryTypes'
  BY <1>4, <1>5, <1>7 DEF RegistryTypes
<1> QED BY <1>4, <1>6, <1>7, <1>8

\* What a change writes is what it says, of the Service it is about.
LEMMA WriteSound ==
  ASSUME RegistryTypes, NEW s \in Services, NEW change \in Change, WriteChange(s, change),
         pending' \subseteq pending, UNCHANGED <<changeNonce, now>>
  PROVE  /\ RegistryTypes'
         /\ \A t \in Services :
              /\ services'[t].exists = services[t].exists
              /\ services'[t].tier # services[t].tier =>
                   t = s /\ change.kind = "Tier" /\ services'[t].tier = change.to
              /\ services'[t].settlementWindow # services[t].settlementWindow =>
                   /\ t = s /\ change.kind = "SettlementWindow"
                   /\ services'[t].settlementWindow = WindowOf(change.raw)
         /\ \A l \in Listings :
              /\ prices'[l] # prices[l] =>
                   /\ l[1] = s /\ change.kind = "Price" /\ change.asset = l[2]
                   /\ prices'[l] = change.baseUnits
              /\ collections'[l] # collections[l] =>
                   /\ l[1] = s /\ change.kind \in {"Collection", "AcceptedAsset"}
                   /\ change.asset = l[2] /\ collections'[l] = change.to
<1>1. CASE change.kind = "Tier"
  <2>1. services' = [services EXCEPT ![s].tier = change.to] /\ UNCHANGED <<prices, collections>>
    BY <1>1 DEF WriteChange
  <2>2. change.to \in Tiers
    BY <1>1 DEF Change
  <2>3. RegistryTypes'
    BY <2>1, <2>2 DEF RegistryTypes
  <2> QED BY <1>1, <2>1, <2>3 DEF RegistryTypes
<1>2. CASE change.kind = "SettlementWindow"
  <2>1. services' = [services EXCEPT ![s].settlementWindow = WindowOf(change.raw)]
        /\ UNCHANGED <<prices, collections>>
    BY <1>2 DEF WriteChange
  <2>2. WindowOf(change.raw) \in Nat
    <3>1. change.raw \in RawWindows
      BY <1>2 DEF Change
    <3>2. \A raw \in RawWindows : WindowOf(raw) \in Nat
      BY ServiceRegistryAssumption DEF WindowOf
    <3> QED BY <3>1, <3>2
  <2>3. RegistryTypes'
    BY <2>1, <2>2 DEF RegistryTypes
  <2> QED BY <1>2, <2>1, <2>3 DEF RegistryTypes
<1>3. CASE change.kind = "Price"
  <2>1. prices' = [prices EXCEPT ![<<s, change.asset>>] = change.baseUnits]
        /\ UNCHANGED <<services, collections>>
    BY <1>3 DEF WriteChange
  <2>2. RegistryTypes'
    BY <2>1 DEF RegistryTypes
  <2>3. \A l \in Listings : l = <<l[1], l[2]>>
    BY DEF Listings
  <2> QED BY <1>3, <2>1, <2>2, <2>3 DEF RegistryTypes
<1>4. CASE change.kind \in {"Collection", "AcceptedAsset"}
  <2>1. collections' = [collections EXCEPT ![<<s, change.asset>>] = change.to]
        /\ UNCHANGED <<services, prices>>
    BY <1>4 DEF WriteChange
  <2>2. RegistryTypes'
    BY <2>1 DEF RegistryTypes
  <2>3. \A l \in Listings : l = <<l[1], l[2]>>
    BY DEF Listings
  <2> QED BY <1>4, <2>1, <2>2, <2>3 DEF RegistryTypes
<1> QED BY <1>1, <1>2, <1>3, <1>4 DEF Change

\* A change is queued with the timelock before it.
LEMMA QueueSound ==
  ASSUME RegistryTypes, NEW caller, NEW s \in Services, NEW change \in Change,
         QueueChange(caller, s, change)
  PROVE  /\ RegistryTypes'
         /\ UNCHANGED <<termVars, now>>
         /\ changeNonce' = changeNonce + 1
         /\ pending' = pending \cup {[id |-> changeNonce, serviceId |-> s, change |-> change,
                                      eta |-> now + Timelock]}
<1>1. now + Timelock \in Nat /\ changeNonce + 1 \in Nat
  BY ServiceRegistryAssumption DEF RegistryTypes
<1> QED BY <1>1 DEF QueueChange, Eta, RegistryTypes, termVars, Pending

-----------------------------------------------------------------------------
(* The Agent that read the terms.                                          *)

\* For the length of the timelock, what may be applied was announced when the
\* Agent looked, and no Service it saw is registered a second time.
NothingNewRipens ==
  /\ seen.at \in Nat /\ seen.at <= now
  /\ now < seen.at + Timelock =>
       /\ \A p \in pending : p \in seen.pending \/ p.eta >= seen.at + Timelock
       /\ \A s \in Services : seen.services[s].exists => services[s].exists

NoticeInv ==
  /\ RegistryTypes
  /\ seen # Unseen => NothingNewRipens
  /\ TermsAreNoticed

LEMMA LookInv == ASSUME NoticeInv, Look PROVE NoticeInv'
<1>1. /\ seen' = [at |-> now, services |-> services, collections |-> collections,
                  prices |-> prices, pending |-> pending]
      /\ UNCHANGED <<services, collections, prices, pending, changeNonce, now>>
  BY DEF Look, registryVars
<1>2. RegistryTypes'
  BY <1>1 DEF NoticeInv, RegistryTypes
<1>3. NothingNewRipens'
  BY <1>1, <1>2 DEF NothingNewRipens, RegistryTypes
<1>4. TermsAreNoticed'
  BY <1>1 DEF TermsAreNoticed, TierNoticed, WindowNoticed, PriceNoticed, CollectionNoticed
<1> QED BY <1>2, <1>3, <1>4 DEF NoticeInv

\* The Agent's view stands when every term either stays or moves as something
\* announced has it move.
LEMMA NoticeKept ==
  ASSUME NoticeInv, RegistryTypes', UNCHANGED seen, seen # Unseen, now < seen.at + Timelock,
         NothingNewRipens, now' = now,
         \A s \in Services : seen.services[s].exists =>
           /\ services'[s].tier = services[s].tier \/ TierNoticed(s)'
           /\ services'[s].settlementWindow = services[s].settlementWindow \/ WindowNoticed(s)',
         \A l \in Listings : seen.services[l[1]].exists =>
           /\ prices'[l] = prices[l] \/ PriceNoticed(l)'
           /\ collections'[l] = collections[l] \/ CollectionNoticed(l)'
  PROVE  TermsAreNoticed'
<1>1. \A s : Announced(s)' = Announced(s)
  BY DEF Announced
<1>2. \A s \in Services : seen.services[s].exists => TierNoticed(s) /\ WindowNoticed(s)
  BY DEF NoticeInv, TermsAreNoticed
<1>3. \A l \in Listings : seen.services[l[1]].exists => PriceNoticed(l) /\ CollectionNoticed(l)
  BY DEF NoticeInv, TermsAreNoticed
<1>4. \A s \in Services : seen.services[s].exists => TierNoticed(s)' /\ WindowNoticed(s)'
  BY <1>1, <1>2 DEF TierNoticed, WindowNoticed
<1>5. \A l \in Listings : seen.services[l[1]].exists => PriceNoticed(l)' /\ CollectionNoticed(l)'
  BY <1>1, <1>3 DEF PriceNoticed, CollectionNoticed
<1> QED BY <1>4, <1>5 DEF TermsAreNoticed

LEMMA RegistryStepInv ==
  ASSUME NoticeInv, RegistryNext, UNCHANGED seen
  PROVE  NoticeInv'
<1>1. RegistryTypes
  BY DEF NoticeInv
<1>2. ASSUME seen # Unseen, now < seen.at + Timelock
      PROVE  /\ NothingNewRipens
             /\ \A p \in pending : p \in seen.pending \/ p.eta >= seen.at + Timelock
             /\ \A s \in Services : seen.services[s].exists => services[s].exists
  BY <1>2 DEF NoticeInv, NothingNewRipens
<1>3. ASSUME RegistryTypes', now' = now,
             seen # Unseen /\ now < seen.at + Timelock =>
               /\ \A p \in pending' : p \in seen.pending \/ p.eta >= seen.at + Timelock
               /\ \A s \in Services : seen.services[s].exists => services'[s].exists
               /\ TermsAreNoticed'
      PROVE  NoticeInv'
  <2>1. seen # Unseen => NothingNewRipens'
    BY <1>3 DEF NoticeInv, NothingNewRipens
  <2>2. TermsAreNoticed'
    BY <1>3 DEF TermsAreNoticed
  <2> QED BY <1>3, <2>1, <2>2 DEF NoticeInv
<1>4. CASE Register
  <2>1. PICK s \in Services :
           /\ ~services[s].exists
           /\ RegistryTypes'
           /\ UNCHANGED <<pending, changeNonce, now>>
           /\ \A t \in Services \ {s} : services'[t] = services[t]
           /\ \A l \in Listings : l[1] # s =>
                collections'[l] = collections[l] /\ prices'[l] = prices[l]
           /\ services'[s].exists
    BY <1>1, <1>4, RegisterSound
  <2>2. ASSUME seen # Unseen, now < seen.at + Timelock
        PROVE  /\ \A p \in pending' : p \in seen.pending \/ p.eta >= seen.at + Timelock
               /\ \A t \in Services : seen.services[t].exists => services'[t].exists
               /\ TermsAreNoticed'
    <3>1. ~seen.services[s].exists
      BY <1>2, <2>1, <2>2
    <3>2. TermsAreNoticed'
      BY <1>2, <2>1, <2>2, <3>1, NoticeKept
    <3> QED BY <1>2, <2>1, <2>2, <3>2
  <2> QED BY <1>3, <2>1, <2>2
<1>5. ASSUME NEW caller \in Accounts, NEW s \in Services, NEW change \in Change,
             QueueChange(caller, s, change)
      PROVE  NoticeInv'
  <2> DEFINE q == [id |-> changeNonce, serviceId |-> s, change |-> change, eta |-> now + Timelock]
  <2>1. /\ RegistryTypes' /\ UNCHANGED <<services, collections, prices, now>>
        /\ pending' = pending \cup {q}
    BY <1>1, <1>5, QueueSound DEF termVars
  <2>2. ASSUME seen # Unseen, now < seen.at + Timelock
        PROVE  /\ \A p \in pending' : p \in seen.pending \/ p.eta >= seen.at + Timelock
               /\ \A t \in Services : seen.services[t].exists => services'[t].exists
               /\ TermsAreNoticed'
    <3>1. q.eta >= seen.at + Timelock
      BY <1>1, <1>2, <2>2, ServiceRegistryAssumption DEF NothingNewRipens, RegistryTypes
    <3>2. TermsAreNoticed'
      BY <1>2, <2>1, <2>2, NoticeKept
    <3> QED BY <1>2, <2>1, <2>2, <3>1, <3>2
  <2> QED BY <1>3, <2>1, <2>2
<1>6. ASSUME NEW caller \in Accounts, NEW p \in pending, CancelChange(caller, p)
      PROVE  NoticeInv'
  <2>1. UNCHANGED <<services, collections, prices, changeNonce, now>> /\ pending' \subseteq pending
    BY <1>6 DEF CancelChange, termVars
  <2>2. RegistryTypes'
    BY <1>1, <2>1 DEF RegistryTypes
  <2>3. ASSUME seen # Unseen, now < seen.at + Timelock
        PROVE  TermsAreNoticed'
    BY <1>2, <2>1, <2>2, <2>3, NoticeKept
  <2> QED BY <1>2, <1>3, <2>1, <2>2, <2>3
<1>7. ASSUME NEW caller \in Accounts, NEW p \in pending, ApplyChange(caller, p)
      PROVE  NoticeInv'
  <2> DEFINE s == p.serviceId
             change == p.change
  <2>1. /\ s \in Services /\ change \in Change /\ p.eta \in Nat
        /\ now >= p.eta /\ WriteChange(s, change)
        /\ pending' \subseteq pending /\ UNCHANGED <<changeNonce, now>>
    BY <1>1, <1>7 DEF ApplyChange, RegistryTypes, Pending
  <2> HIDE DEF s, change
  <2>2. /\ RegistryTypes'
        /\ \A t \in Services :
             /\ services'[t].exists = services[t].exists
             /\ services'[t].tier # services[t].tier =>
                  t = s /\ change.kind = "Tier" /\ services'[t].tier = change.to
             /\ services'[t].settlementWindow # services[t].settlementWindow =>
                  /\ t = s /\ change.kind = "SettlementWindow"
                  /\ services'[t].settlementWindow = WindowOf(change.raw)
        /\ \A l \in Listings :
             /\ prices'[l] # prices[l] =>
                  /\ l[1] = s /\ change.kind = "Price" /\ change.asset = l[2]
                  /\ prices'[l] = change.baseUnits
             /\ collections'[l] # collections[l] =>
                  /\ l[1] = s /\ change.kind \in {"Collection", "AcceptedAsset"}
                  /\ change.asset = l[2] /\ collections'[l] = change.to
    BY <1>1, <2>1, WriteSound
  <2>3. ASSUME seen # Unseen, now < seen.at + Timelock
        PROVE  TermsAreNoticed'
    <3>1. p \in seen.pending
      BY <1>1, <1>2, <2>1, <2>3, ServiceRegistryAssumption DEF RegistryTypes, NothingNewRipens
    <3>2. change \in Announced(s)'
      BY <3>1 DEF Announced, s, change
    <3>3. \A t \in Services :
            /\ services'[t].tier = services[t].tier \/ TierNoticed(t)'
            /\ services'[t].settlementWindow = services[t].settlementWindow \/ WindowNoticed(t)'
      BY <2>2, <3>2 DEF TierNoticed, WindowNoticed
    <3>4. \A l \in Listings :
            /\ prices'[l] = prices[l] \/ PriceNoticed(l)'
            /\ collections'[l] = collections[l] \/ CollectionNoticed(l)'
      BY <2>2, <3>2 DEF PriceNoticed, CollectionNoticed
    <3> QED BY <1>2, <2>1, <2>2, <2>3, <3>3, <3>4, NoticeKept
  <2> QED BY <1>2, <1>3, <2>1, <2>2, <2>3
<1>8. CASE RegistryTick
  <2>1. now' = now + 1 /\ UNCHANGED <<services, collections, prices, pending, changeNonce>>
    BY <1>8 DEF RegistryTick, termVars
  <2>2. RegistryTypes' /\ now \in Nat
    BY <1>1, <2>1 DEF RegistryTypes
  <2>3. seen # Unseen => NothingNewRipens'
    BY <1>1, <2>1, <2>2, ServiceRegistryAssumption DEF NoticeInv, NothingNewRipens
  <2>4. ASSUME seen # Unseen, now' < seen.at + Timelock
        PROVE  TermsAreNoticed'
    <3>1. now < seen.at + Timelock
      BY <2>1, <2>2, <2>4, ServiceRegistryAssumption DEF NoticeInv, NothingNewRipens
    <3>2. /\ \A s \in Services : seen.services[s].exists => TierNoticed(s)' /\ WindowNoticed(s)'
          /\ \A l \in Listings :
               seen.services[l[1]].exists => PriceNoticed(l)' /\ CollectionNoticed(l)'
      BY <2>1, <2>4, <3>1 DEF NoticeInv, TermsAreNoticed, TierNoticed, WindowNoticed,
                              PriceNoticed, CollectionNoticed, Announced
    <3> QED BY <3>2 DEF TermsAreNoticed
  <2>5. TermsAreNoticed'
    BY <2>4 DEF TermsAreNoticed
  <2> QED BY <2>2, <2>3, <2>5 DEF NoticeInv
<1> QED BY <1>4, <1>5, <1>6, <1>7, <1>8 DEF RegistryNext

LEMMA NoticeStepInv == NoticeInv /\ [NoticeNext]_noticeVars => NoticeInv'
<1> SUFFICES ASSUME NoticeInv, [NoticeNext]_noticeVars PROVE NoticeInv'
  OBVIOUS
<1>1. CASE UNCHANGED noticeVars
  BY <1>1 DEF noticeVars, registryVars, NoticeInv, RegistryTypes, NothingNewRipens,
              TermsAreNoticed, TierNoticed, WindowNoticed, PriceNoticed, CollectionNoticed,
              Announced
<1> QED BY <1>1, LookInv, RegistryStepInv DEF NoticeNext

\* What ServiceRegistry.sol:110-112 promises an Agent, for any registry.
THEOREM NoticeIsGiven == NoticeSpec => []TermsAreNoticed
<1>1. NoticeInit => NoticeInv
  BY InitTypes DEF NoticeInit, NoticeInv, TermsAreNoticed
<1>2. NoticeInv => TermsAreNoticed
  BY DEF NoticeInv
<1> QED BY <1>1, <1>2, NoticeStepInv, PTL DEF NoticeSpec

-----------------------------------------------------------------------------
(* The owners and the registry.                                            *)

\* A call that was made has the quorum it needed on record.
MadeInOrder ==
  /\ made \in Seq([call : Calls, at : Nat, id : Nat])
  /\ \A i \in DOMAIN made : proposals[made[i].call].executed

\* A change of a tier that waits was queued by a call of the owners, and its
\* time runs from then.
QueuedBy(p, i) ==
  /\ made[i].call = [fn |-> "queueChange", serviceId |-> p.serviceId, tier |-> p.change.to]
  /\ made[i].id = p.id
  /\ p.eta = made[i].at + Timelock

CurationInv ==
  /\ RegistryTypes /\ MultisigInv /\ MadeInOrder
  /\ \A p \in pending : p.change.kind = "Tier" => \E i \in DOMAIN made : QueuedBy(p, i)

LEMMA MadeTyped ==
  ASSUME CurationInv, NEW i \in DOMAIN made
  PROVE  /\ made[i].call \in Calls /\ made[i].at \in Nat
         /\ proposals[made[i].call].executed
<1> DEFINE Made == [call : Calls, at : Nat, id : Nat]
<1>1. made \in Seq(Made) /\ proposals[made[i].call].executed
  BY DEF CurationInv, MadeInOrder
<1> HIDE DEF Made
<1>2. made[i] \in Made
  BY <1>1
<1> QED BY <1>1, <1>2 DEF Made

LEMMA CurationInitInv == CurationInit => CurationInv
<1> SUFFICES ASSUME CurationInit PROVE CurationInv
  OBVIOUS
<1>1. RegistryTypes /\ MultisigInv
  BY InitTypes, MultisigInitInv DEF CurationInit
<1>2. made = <<>> /\ pending = {}
  BY DEF CurationInit, RegistryInit
<1> QED BY <1>1, <1>2 DEF CurationInv, MadeInOrder

\* Who queues a change of a tier has the curation role.
LEMMA TierIsTheCurators ==
  ASSUME NEW caller, NEW s, NEW change, MayChange(caller, s, change), change.kind = "Tier"
  PROVE  caller = CurationAuthority
  BY DEF MayChange

\* What the calls of the others do to the changes of tiers that wait, and to
\* the tiers: nothing, but for registering a Service.
LEMMA OthersSound ==
  ASSUME CurationInv, OthersStep
  PROVE  /\ RegistryTypes'
         /\ \A p \in pending' : p.change.kind = "Tier" => p \in pending
         /\ \A s \in Services : services'[s].tier # services[s].tier => ~services[s].exists
<1>1. RegistryTypes
  BY DEF CurationInv
<1>2. CASE Register
  BY <1>1, <1>2, RegisterSound
<1>3. ASSUME NEW caller \in Accounts \ {CurationAuthority}, NEW s \in Services,
             NEW change \in Change, QueueChange(caller, s, change)
      PROVE  /\ RegistryTypes' /\ UNCHANGED services
             /\ \A p \in pending' : p.change.kind = "Tier" => p \in pending
  <2>1. change.kind # "Tier"
    BY <1>3, TierIsTheCurators DEF QueueChange
  <2> QED BY <1>1, <1>3, <2>1, QueueSound DEF termVars
<1>4. ASSUME NEW caller \in Accounts \ {CurationAuthority}, NEW p \in pending,
             ApplyChange(caller, p)
      PROVE  /\ RegistryTypes'
             /\ \A q \in pending' : q \in pending
             /\ \A s \in Services : services'[s].tier = services[s].tier
  <2>1. /\ p.serviceId \in Services /\ p.change \in Change
        /\ WriteChange(p.serviceId, p.change)
        /\ pending' \subseteq pending /\ UNCHANGED <<changeNonce, now>>
    BY <1>1, <1>4 DEF ApplyChange, RegistryTypes, Pending
  <2>2. p.change.kind # "Tier"
    BY <1>4, TierIsTheCurators DEF ApplyChange
  <2>3. RegistryTypes' /\ \A s \in Services :
          services'[s].tier # services[s].tier => p.change.kind = "Tier"
    BY <1>1, <2>1, WriteSound
  <2> QED BY <2>1, <2>2, <2>3
<1>5. ASSUME NEW caller \in Accounts \ {CurationAuthority}, NEW p \in pending,
             CancelChange(caller, p)
      PROVE  RegistryTypes' /\ UNCHANGED services /\ pending' \subseteq pending
  BY <1>1, <1>5 DEF CancelChange, termVars, RegistryTypes
<1>6. CASE RegistryTick
  BY <1>1, <1>6 DEF RegistryTick, termVars, RegistryTypes
<1> QED BY <1>2, <1>3, <1>4, <1>5, <1>6 DEF OthersStep

LEMMA OthersKeepInv ==
  ASSUME CurationInv, OthersStep
  PROVE  CurationInv'
<1>1. UNCHANGED <<proposals, hasConfirmed, made>>
  BY DEF OthersStep, multisigVars
<1>2. MultisigInv' /\ MadeInOrder'
  BY <1>1, MultisigStepInv DEF CurationInv, MadeInOrder, multisigVars
<1>3. \A p, i : QueuedBy(p, i)' <=> QueuedBy(p, i)
  BY <1>1 DEF QueuedBy
<1> QED BY <1>1, <1>2, <1>3, OthersSound DEF CurationInv

\* What a call of the multisig does.
LEMMA CallSound ==
  ASSUME CurationInv, NEW c \in Calls, MakeCall(c)
  PROVE  /\ RegistryTypes'
         /\ UNCHANGED now
         /\ c.fn \in {"queueChange", "applyChange", "cancelChange"}
         /\ c.fn = "queueChange" =>
              /\ UNCHANGED services
              /\ c = [fn |-> "queueChange", serviceId |-> c.serviceId, tier |-> c.tier]
              /\ pending' = pending \cup
                   {[id |-> changeNonce, serviceId |-> c.serviceId,
                     change |-> TierChange(c.tier), eta |-> now + Timelock]}
         /\ c.fn # "queueChange" => pending' \subseteq pending
         /\ \A s \in Services : services'[s].tier # services[s].tier =>
              \E p \in pending :
                /\ p.serviceId = s /\ p.change.kind = "Tier" /\ p.change.to = services'[s].tier
                /\ c = [fn |-> "applyChange", id |-> p.id] /\ now >= p.eta
<1>1. RegistryTypes /\ c \in CurationCalls
  BY CurationAssumption DEF CurationInv
<1>2. CASE c.fn = "queueChange"
  <2>1. c \in [fn : {"queueChange"}, serviceId : Services, tier : Tiers]
    BY <1>1, <1>2 DEF CurationCalls
  <2>2. QueueChange(CurationAuthority, c.serviceId, TierChange(c.tier))
    BY <1>2 DEF MakeCall
  <2>3. c.serviceId \in Services /\ TierChange(c.tier) \in Change
    BY <2>1 DEF TierChange, Change
  <2>4. /\ RegistryTypes' /\ UNCHANGED <<termVars, now>>
        /\ pending' = pending \cup
             {[id |-> changeNonce, serviceId |-> c.serviceId,
               change |-> TierChange(c.tier), eta |-> now + Timelock]}
    BY <1>1, <2>2, <2>3, QueueSound
  <2> QED BY <1>2, <2>1, <2>4 DEF termVars
<1>3. CASE c.fn = "applyChange"
  <2>1. c \in [fn : {"applyChange"}, id : 0 .. MaxChanges - 1]
    BY <1>1, <1>3 DEF CurationCalls
  <2>2. PICK p \in pending : p.id = c.id /\ ApplyChange(CurationAuthority, p)
    BY <1>3 DEF MakeCall
  <2>3. /\ p.serviceId \in Services /\ p.change \in Change
        /\ WriteChange(p.serviceId, p.change) /\ now >= p.eta
        /\ pending' \subseteq pending /\ UNCHANGED <<changeNonce, now>>
    BY <1>1, <2>2 DEF ApplyChange, RegistryTypes, Pending
  <2>4. RegistryTypes' /\ \A s \in Services :
          services'[s].tier # services[s].tier =>
            p.serviceId = s /\ p.change.kind = "Tier" /\ services'[s].tier = p.change.to
    BY <1>1, <2>3, WriteSound
  <2> QED BY <1>3, <2>1, <2>2, <2>3, <2>4
<1>4. CASE c.fn = "cancelChange"
  <2>1. PICK p \in pending : CancelChange(CurationAuthority, p)
    BY <1>4 DEF MakeCall
  <2> QED BY <1>1, <1>4, <2>1 DEF CancelChange, termVars, RegistryTypes
<1> QED BY <1>1, <1>2, <1>3, <1>4 DEF CurationCalls

LEMMA CallKeepsInv ==
  ASSUME CurationInv, NEW c \in Calls, MakeCall(c)
  PROVE  /\ CurationInv'
         /\ made' = Append(made, [call |-> c, at |-> now, id |-> changeNonce])
         /\ \A d \in Calls : Confirmers(d)' = Confirmers(d)
<1> DEFINE last == [call |-> c, at |-> now, id |-> changeNonce]
<1>1. /\ made \in Seq([call : Calls, at : Nat, id : Nat])
      /\ last \in [call : Calls, at : Nat, id : Nat]
  BY DEF CurationInv, MadeInOrder, RegistryTypes
<1>2. Execute(c) /\ made' = Append(made, last) /\ MultisigInv'
  BY ExecuteInv DEF MakeCall, CurationInv
<1>3. /\ made' \in Seq([call : Calls, at : Nat, id : Nat])
      /\ DOMAIN made' = 1 .. Len(made) + 1 /\ Len(made) \in Nat
      /\ made'[Len(made) + 1] = last
      /\ \A i \in DOMAIN made : i \in DOMAIN made' /\ made'[i] = made[i] /\ i \in 1 .. Len(made)
  BY <1>1, <1>2
<1>4. proposals'[c].executed /\ \A d \in Calls : proposals[d].executed => proposals'[d].executed
  BY <1>2 DEF Execute, CurationInv, MultisigInv, MultisigTypeOK, Proposal
<1>5. MadeInOrder'
  <2> SUFFICES ASSUME NEW i \in DOMAIN made' PROVE proposals'[made'[i].call].executed
    BY <1>3 DEF MadeInOrder
  <2>1. CASE i = Len(made) + 1
    BY <1>3, <1>4, <2>1
  <2>2. CASE i \in DOMAIN made
    <3>1. made'[i] = made[i] /\ made[i].call \in Calls /\ proposals[made[i].call].executed
      BY <1>3, <2>2, MadeTyped
    <3> QED BY <1>4, <3>1
  <2> QED BY <1>1, <1>3, <2>1, <2>2
<1>6. \A p, i : i \in DOMAIN made /\ QueuedBy(p, i) => i \in DOMAIN made' /\ QueuedBy(p, i)'
  BY <1>3 DEF QueuedBy
<1>7. ASSUME NEW p \in pending', p.change.kind = "Tier"
      PROVE  \E i \in DOMAIN made' : QueuedBy(p, i)'
  <2>1. CASE p \in pending
    BY <1>6, <1>7, <2>1 DEF CurationInv
  <2>2. CASE p \notin pending
    <3>1. /\ c = [fn |-> "queueChange", serviceId |-> c.serviceId, tier |-> c.tier]
          /\ p = [id |-> changeNonce, serviceId |-> c.serviceId,
                  change |-> TierChange(c.tier), eta |-> now + Timelock]
      BY <2>2, CallSound
    <3>2. p.change.to = c.tier
      BY <3>1 DEF TierChange
    <3>3. PICK n \in DOMAIN made' : made'[n] = last
      BY <1>3
    <3>4. QueuedBy(p, n)'
      BY <3>1, <3>2, <3>3 DEF QueuedBy
    <3> QED BY <3>4
  <2> QED BY <2>1, <2>2
<1>8. \A d \in Calls : Confirmers(d)' = Confirmers(d)
  BY <1>2 DEF Execute, Confirmers
<1> QED BY <1>2, <1>5, <1>7, <1>8, CallSound DEF CurationInv

LEMMA CurationStepInv == CurationInv /\ [CurationNext]_curationVars => CurationInv'
<1> SUFFICES ASSUME CurationInv, [CurationNext]_curationVars PROVE CurationInv'
  OBVIOUS
<1>1. CASE OwnersStep
  <2>1. /\ UNCHANGED <<services, collections, prices, pending, changeNonce, now, made>>
        /\ OwnerStep
    BY <1>1 DEF OwnersStep, registryVars
  <2>2. MultisigInv'
    BY <2>1, MultisigStepInv DEF CurationInv, MultisigNext
  <2>3. \A d \in Calls : proposals[d].executed => proposals'[d].executed
    BY <2>1 DEF OwnerStep, Propose, Confirm, Revoke, MayConfirm, MayRevoke, CurationInv,
                MultisigInv, MultisigTypeOK, Proposal
  <2>4. MadeInOrder'
    <3>1. \A i \in DOMAIN made : made[i].call \in Calls
      BY MadeTyped
    <3> QED BY <2>1, <2>3, <3>1 DEF CurationInv, MadeInOrder
  <2> QED BY <2>1, <2>2, <2>4 DEF CurationInv, RegistryTypes, QueuedBy
<1>2. CASE UNCHANGED curationVars
  <2>1. UNCHANGED <<services, collections, prices, pending, changeNonce, now, made,
                    proposals, hasConfirmed>>
    BY <1>2 DEF curationVars, registryVars, multisigVars
  <2>2. MultisigInv'
    BY <2>1, MultisigStepInv DEF CurationInv, multisigVars
  <2> QED BY <2>1, <2>2 DEF CurationInv, RegistryTypes, QueuedBy, MadeInOrder
<1> QED BY <1>1, <1>2, CallKeepsInv, OthersKeepInv DEF CurationNext

LEMMA TierDecided ==
  ASSUME CurationInv, CurationNext
  PROVE  TierIsDecided
<1> SUFFICES ASSUME NEW s \in Services, services'[s].tier # services[s].tier, services[s].exists
             PROVE  \E i \in DOMAIN made :
                      LET queue == made[i]
                          apply == made'[Len(made')]
                      IN  /\ queue.call = [fn |-> "queueChange", serviceId |-> s,
                                           tier |-> services'[s].tier]
                          /\ apply.call = [fn |-> "applyChange", id |-> queue.id]
                          /\ now >= queue.at + Timelock
                          /\ Cardinality(Confirmers(queue.call)) >= Threshold
                          /\ Cardinality(Confirmers(apply.call)) >= Threshold
  BY DEF TierIsDecided
<1>1. PICK c \in Calls : MakeCall(c)
  <2>1. ~OwnersStep
    BY DEF OwnersStep, registryVars
  <2>2. ~OthersStep
    BY OthersSound
  <2> QED BY <2>1, <2>2 DEF CurationNext
<1>2. PICK p \in pending :
        /\ p.serviceId = s /\ p.change.kind = "Tier" /\ p.change.to = services'[s].tier
        /\ c = [fn |-> "applyChange", id |-> p.id] /\ now >= p.eta
  BY <1>1, CallSound
<1>3. PICK i \in DOMAIN made : QueuedBy(p, i)
  BY <1>2 DEF CurationInv
<1>4. /\ made[i].call = [fn |-> "queueChange", serviceId |-> s, tier |-> services'[s].tier]
      /\ c = [fn |-> "applyChange", id |-> made[i].id]
      /\ now >= made[i].at + Timelock
      /\ made[i].call \in Calls /\ proposals[made[i].call].executed
  BY <1>2, <1>3, MadeTyped DEF QueuedBy
<1>5. /\ CurationInv' /\ made' = Append(made, [call |-> c, at |-> now, id |-> changeNonce])
      /\ \A d \in Calls : Confirmers(d)' = Confirmers(d)
  BY <1>1, CallKeepsInv
<1>6. made'[Len(made')].call = c
  BY <1>5 DEF CurationInv, MadeInOrder
<1>7. Cardinality(Confirmers(made[i].call)) >= Threshold
  BY <1>4 DEF CurationInv, MultisigInv, ExecutedHasQuorum
<1>8. Cardinality(Confirmers(c)) >= Threshold
  <2>1. proposals[c].confirmations >= Threshold
    BY <1>1 DEF MakeCall, Execute
  <2> QED BY <2>1 DEF CurationInv, MultisigInv, ConfirmationsCounted
<1> QED BY <1>4, <1>6, <1>7, <1>8

\* Whether the settlements of a Service earn credit is for a quorum of owners to
\* say twice, with the timelock in between.
THEOREM TierIsNotRushed == CurationSpec => TierTakesQuorumAndNotice
<1>1. CurationInv /\ [CurationNext]_curationVars => [TierIsDecided]_curationVars
  BY TierDecided
<1> QED BY <1>1, CurationInitInv, CurationStepInv, PTL
        DEF CurationSpec, TierTakesQuorumAndNotice

-----------------------------------------------------------------------------
(* The index of the registry's events.                                     *)

\* A block that no reorganisation replaced is on the branch it began on.
Untouched(n) == chain[n].branch = 0

At(n, records) == {r \in records : r.number = n}

ChainOK ==
  /\ chain \in Seq(Block)
  /\ reorgs \in 0 .. MaxReorgs
  /\ cursor \in 0 .. Len(chain) /\ head \in 0 .. Len(chain)

\* The range of a tick begins no later than where the last one ended.
TickOK ==
  /\ at \in {"idle", "anchors", "batch"}
  /\ at # "idle" => from \in 1 .. cursor + 1
  /\ at = "anchors" => \A a \in anchors : a.number \in 1 .. cursor
  /\ at = "batch" =>
       /\ to \in from .. Len(chain)
       /\ \A r \in batch : r.number \in from .. to

\* The inductive invariant: what stands in the batch that a tick is about to
\* write is as good as what stands in the tables.
IndexerInv ==
  /\ ChainOK /\ TickOK
  /\ \A r \in rows : r.number \in Nat \ {0}
  /\ at = "batch" => \A n \in from .. to : Untouched(n) => At(n, batch) = Logs(n, n)
  /\ UntouchedRowsStand

-----------------------------------------------------------------------------

\* What is read of a range is, of each block in it, what there is to read.
LEMMA LogsOfRange ==
  ASSUME NEW first \in Int, NEW last \in Int
  PROVE  /\ \A r \in Logs(first, last) : r.number \in first .. last
         /\ \A n \in first .. last : At(n, Logs(first, last)) = Logs(n, n)
<1> DEFINE Row1(n) == [number |-> n, branch |-> chain[n].branch]
<1>1. \A n \in Int : Logs(n, n) = IF n \in DOMAIN chain /\ chain[n].logged THEN {Row1(n)} ELSE {}
  BY DEF Logs
<1>2. \A r : r \in Logs(first, last) <=>
        \E n \in first .. last : n \in DOMAIN chain /\ chain[n].logged /\ r = Row1(n)
  BY DEF Logs
<1>3. \A n \in first .. last : At(n, Logs(first, last)) = Logs(n, n)
  BY <1>1, <1>2 DEF At
<1> QED BY <1>2, <1>3

LEMMA LogsOfBlock ==
  ASSUME NEW n \in Int, n \in DOMAIN chain, n \in DOMAIN chain', chain'[n] = chain[n]
  PROVE  Logs(n, n)' = Logs(n, n)
  BY DEF Logs

\* The chain never forgets a block it does not replace, and gives none of those
\* it replaces back its first branch.
LEMMA ChainMoves ==
  ASSUME ChainOK, Mine \/ Reorganise
  PROVE  /\ chain' \in Seq(Block) /\ reorgs' \in 0 .. MaxReorgs
         /\ Len(chain) <= Len(chain')
         /\ \A n \in 1 .. Len(chain) : Untouched(n)' => chain'[n] = chain[n]
<1>1. Len(chain) \in Nat /\ MaxReorgs \in Nat
  BY IndexerAssumption DEF ChainOK
<1>2. CASE Mine
  <2>1. PICK logged \in BOOLEAN : chain' = Append(chain, [branch |-> reorgs, logged |-> logged])
    BY <1>2 DEF Mine
  <2>2. [branch |-> reorgs, logged |-> logged] \in Block
    BY DEF Block, ChainOK
  <2> QED BY <1>1, <1>2, <2>1, <2>2 DEF Mine, ChainOK
<1>3. CASE Reorganise
  <2>1. \E fork \in 0 .. Len(chain) - 1 : \E logged \in SUBSET (fork + 1 .. Len(chain)) :
           chain' = [n \in DOMAIN chain |->
                      IF n <= fork THEN chain[n]
                      ELSE [branch |-> reorgs + 1, logged |-> n \in logged]]
    BY <1>3 DEF Reorganise
  <2>2. reorgs' = reorgs + 1 /\ reorgs + 1 \in 1 .. MaxReorgs
    BY <1>1, <1>3 DEF Reorganise, ChainOK
  <2>3. DOMAIN chain = 1 .. Len(chain) /\ \A n \in 1 .. Len(chain) : chain[n] \in Block
    BY DEF ChainOK
  <2>4. \A n \in 1 .. Len(chain) : chain'[n] \in Block
    BY <2>1, <2>2, <2>3 DEF Block
  <2>5. chain' = [n \in 1 .. Len(chain) |-> chain'[n]]
    BY <2>1, <2>3
  <2>6. chain' \in Seq(Block) /\ Len(chain') = Len(chain)
    BY <1>1, <2>4, <2>5, IsASeq
  <2>7. ASSUME NEW n \in 1 .. Len(chain), chain'[n].branch = 0
        PROVE  chain'[n] = chain[n]
    BY <2>1, <2>2, <2>3, <2>7
  <2> QED BY <1>1, <2>2, <2>6, <2>7 DEF Untouched
<1> QED BY <1>2, <1>3

-----------------------------------------------------------------------------
(* The steps.                                                              *)

LEMMA IndexerInitInv == IndexerInit => IndexerInv
<1> SUFFICES ASSUME IndexerInit PROVE IndexerInv
  OBVIOUS
<1>1. chain = <<>> /\ Len(chain) = 0 /\ chain \in Seq(Block)
  BY DEF IndexerInit
<1> QED BY <1>1, IndexerAssumption
        DEF IndexerInit, IndexerInv, ChainOK, TickOK, UntouchedRowsStand

\* What the chain does under a tick.
LEMMA ChainStepInv ==
  ASSUME IndexerInv, Mine \/ Reorganise
  PROVE  IndexerInv'
<1>1. /\ UNCHANGED <<rows, cursor, at, head, from, anchors, batch, to>>
      /\ ChainOK /\ TickOK /\ Len(chain) \in Nat
  BY DEF Mine, Reorganise, tables, tick, IndexerInv, ChainOK
<1>2. /\ chain' \in Seq(Block) /\ reorgs' \in 0 .. MaxReorgs
      /\ Len(chain) <= Len(chain') /\ Len(chain') \in Nat
      /\ \A n \in 1 .. Len(chain) : Untouched(n)' => chain'[n] = chain[n]
  BY <1>1, ChainMoves
<1>3. ChainOK' /\ TickOK'
  BY <1>1, <1>2 DEF ChainOK, TickOK
<1>4. ASSUME NEW n \in 1 .. Len(chain), Untouched(n)'
      PROVE  Untouched(n) /\ Logs(n, n)' = Logs(n, n)
  <2>1. chain'[n] = chain[n] /\ n \in DOMAIN chain /\ n \in DOMAIN chain'
    BY <1>1, <1>2, <1>4 DEF ChainOK
  <2> QED BY <1>4, <2>1, LogsOfBlock DEF Untouched
<1>5. ASSUME at = "batch", NEW n \in from .. to, Untouched(n)'
      PROVE  At(n, batch) = Logs(n, n)'
  <2>1. n \in 1 .. Len(chain)
    BY <1>1, <1>5 DEF TickOK, ChainOK
  <2> QED BY <1>4, <1>5, <2>1 DEF IndexerInv
<1>6. ASSUME NEW n \in 1 .. cursor, Untouched(n)'
      PROVE  At(n, rows) = Logs(n, n)'
  <2>1. n \in 1 .. Len(chain)
    BY <1>1, <1>6 DEF ChainOK
  <2> QED BY <1>4, <1>6, <2>1 DEF IndexerInv, UntouchedRowsStand, Untouched, At
<1>7. UntouchedRowsStand'
  BY <1>1, <1>6 DEF UntouchedRowsStand, Untouched, At
<1> QED BY <1>1, <1>3, <1>5, <1>7 DEF IndexerInv, At

\* A range ends at a block there is.
LEMMA RangeEnds ==
  ASSUME IndexerInv, at = "anchors", NEW chunk \in ChunkSizes
  PROVE  ToBlock(chunk) \in Int /\ ToBlock(chunk) <= head
<1>1. {Chunk, FastChunk, LiveWindow} \subseteq Int /\ head \in Int /\ from \in Int
  BY IndexerAssumption DEF IndexerInv, ChainOK, TickOK
<1>2. chunk \in Int
  BY <1>1 DEF ChunkSizes, Least
<1> QED BY <1>1, <1>2 DEF ToBlock, Least

LEMMA BatchInv ==
  ASSUME IndexerInv, ApplyBatch
  PROVE  IndexerInv'
<1>1. /\ UNCHANGED <<chain, reorgs>>
      /\ rows' = {r \in rows : r.number < from \/ to < r.number} \cup batch
      /\ cursor' = to /\ at' = "idle" /\ head' = 0 /\ at = "batch"
  BY DEF ApplyBatch, chainVars
<1>2. /\ from \in 1 .. cursor + 1 /\ cursor \in 0 .. Len(chain) /\ Len(chain) \in Nat
      /\ to \in from .. Len(chain)
      /\ \A r \in batch : r.number \in from .. to
      /\ \A r \in rows : r.number \in Nat \ {0}
  BY <1>1 DEF IndexerInv, ChainOK, TickOK
<1>3. ChainOK' /\ TickOK' /\ \A r \in rows' : r.number \in Nat \ {0}
  BY <1>1, <1>2 DEF IndexerInv, ChainOK, TickOK
<1>4. ASSUME NEW n \in 1 .. to, Untouched(n)
      PROVE  At(n, rows') = Logs(n, n)
  <2>1. CASE n < from
    <3>1. At(n, rows') = At(n, rows)
      BY <1>1, <1>2, <2>1 DEF At
    <3>2. n \in 1 .. cursor
      BY <1>2, <2>1
    <3> QED BY <1>4, <3>1, <3>2 DEF IndexerInv, UntouchedRowsStand, Untouched, At
  <2>2. CASE ~(n < from)
    <3>1. n \in from .. to
      BY <1>2, <2>2
    <3>2. At(n, rows') = At(n, batch)
      BY <1>1, <1>2, <3>1 DEF At
    <3> QED BY <1>1, <1>4, <3>1, <3>2 DEF IndexerInv
  <2> QED BY <2>1, <2>2
<1>5. UntouchedRowsStand'
  BY <1>1, <1>4 DEF UntouchedRowsStand, Untouched, At, Logs
<1> QED BY <1>1, <1>3, <1>5 DEF IndexerInv

LEMMA TickStepInv ==
  ASSUME IndexerInv, Tick \/ TickFails
  PROVE  IndexerInv'
<1>1. ChainOK /\ TickOK /\ Window \in Nat /\ Len(chain) \in Nat
  BY IndexerAssumption DEF IndexerInv, ChainOK
<1>2. ASSUME UNCHANGED <<chain, reorgs, rows, cursor>>, head' \in 0 .. Len(chain), TickOK',
             at' = "batch" => \A n \in from' .. to' : Untouched(n) => At(n, batch') = Logs(n, n)
      PROVE  IndexerInv'
  <2>1. ChainOK' /\ UntouchedRowsStand' /\ \A r \in rows' : r.number \in Nat \ {0}
    BY <1>2 DEF IndexerInv, ChainOK, UntouchedRowsStand, Logs
  <2> QED BY <1>2, <2>1 DEF IndexerInv, Untouched, Logs
<1>3. CASE TickBegins
  <2>1. /\ UNCHANGED <<chain, reorgs, rows, cursor>> /\ head' = Len(chain)
        /\ at' = "anchors" /\ from' = WindowFrom /\ anchors' = Recent(WindowFrom)
    BY <1>3 DEF TickBegins, chainVars, tables
  <2>2. WindowFrom \in 1 .. cursor + 1
    BY <1>1 DEF WindowFrom, ChainOK
  <2>3. \A a \in Recent(WindowFrom) : a.number \in Nat \ {0} /\ a.number < WindowFrom
    BY DEF Recent, IndexerInv
  <2>4. \A a \in Recent(WindowFrom) : a.number \in 1 .. cursor
    BY <1>1, <2>2, <2>3 DEF ChainOK
  <2>5. TickOK'
    BY <2>1, <2>2, <2>4 DEF TickOK
  <2> QED BY <1>1, <1>2, <2>1, <2>5
<1>4. CASE AnchorStands
  <2>1. UNCHANGED <<chain, reorgs, rows, cursor, head, at, from>> /\ anchors' = {} /\ at = "anchors"
    BY <1>4 DEF AnchorStands, chainVars, tables
  <2>2. TickOK'
    BY <1>1, <2>1 DEF TickOK
  <2> QED BY <1>1, <1>2, <2>1, <2>2 DEF ChainOK
<1>5. CASE AnchorDiverges
  <2>1. PICK a \in anchors : from' = a.number /\ anchors' = anchors \ {a}
    BY <1>5 DEF AnchorDiverges
  <2>2. UNCHANGED <<chain, reorgs, rows, cursor, head, at>> /\ at = "anchors"
    BY <1>5 DEF AnchorDiverges, chainVars, tables
  <2>3. a.number \in 1 .. cursor + 1
    BY <1>1, <2>2 DEF TickOK, ChainOK
  <2>4. TickOK'
    BY <1>1, <2>1, <2>2, <2>3 DEF TickOK
  <2> QED BY <1>1, <1>2, <2>2, <2>4 DEF ChainOK
<1>6. CASE NothingToRead
  <2>1. UNCHANGED <<chain, reorgs, rows, cursor>> /\ head' = 0 /\ at' = "idle"
    BY <1>6 DEF NothingToRead, chainVars, tables
  <2> QED BY <1>1, <1>2, <2>1 DEF TickOK
<1>7. CASE ReadLogs
  <2>1. UNCHANGED <<chain, reorgs, rows, cursor, head, from>> /\ at = "anchors" /\ at' = "batch"
    BY <1>7 DEF ReadLogs, chainVars, tables
  <2>2. PICK chunk \in ChunkSizes :
           ToBlock(chunk) >= from /\ to' = ToBlock(chunk) /\ batch' = Logs(from, ToBlock(chunk))
    BY <1>7 DEF ReadLogs
  <2>3. ToBlock(chunk) \in Int /\ ToBlock(chunk) <= head
    BY <2>1, RangeEnds
  <2>4. /\ from \in 1 .. cursor + 1 /\ to' \in from .. Len(chain) /\ to' \in Int
        /\ batch' = Logs(from, to')
    BY <1>1, <2>1, <2>2, <2>3 DEF TickOK, ChainOK
  <2>5. /\ \A r \in batch' : r.number \in from .. to'
        /\ \A n \in from .. to' : At(n, batch') = Logs(n, n)
    BY <2>4, LogsOfRange
  <2>6. TickOK'
    BY <2>1, <2>4, <2>5 DEF TickOK
  <2> QED BY <1>1, <1>2, <2>1, <2>5, <2>6 DEF ChainOK
<1>8. CASE TickFails
  <2>1. UNCHANGED <<chain, reorgs, rows, cursor>> /\ head' = 0 /\ at' = "idle"
    BY <1>8 DEF TickFails, chainVars, tables
  <2> QED BY <1>1, <1>2, <2>1 DEF TickOK
<1> QED BY <1>3, <1>4, <1>5, <1>6, <1>7, <1>8, BatchInv DEF Tick

LEMMA IndexerStepInv == IndexerInv /\ [IndexerNext]_indexerVars => IndexerInv'
<1> SUFFICES ASSUME IndexerInv, [IndexerNext]_indexerVars PROVE IndexerInv'
  OBVIOUS
<1>1. CASE UNCHANGED indexerVars
  BY <1>1 DEF indexerVars, chainVars, tables, tick, IndexerInv, ChainOK, TickOK, Untouched,
              At, Logs, UntouchedRowsStand
<1> QED BY <1>1, ChainStepInv, TickStepInv DEF IndexerNext

\* The rows of a block that no reorganisation replaced are its logs at every
\* moment, whatever the ticks rewrite and whichever of them fail.
THEOREM RowsStand == IndexerSpec => []UntouchedRowsStand
<1>1. IndexerInv => UntouchedRowsStand
  BY DEF IndexerInv
<1> QED BY <1>1, IndexerInitInv, IndexerStepInv, PTL DEF IndexerSpec
=============================================================================
