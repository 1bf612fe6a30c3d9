------------------------------ MODULE Curation ------------------------------
(***************************************************************************)
(* CurationMultisig holding the curation role of ServiceRegistry.  The     *)
(* owners propose calls of the registry; executing one makes it, with the  *)
(* multisig as the caller.                                                 *)
(***************************************************************************)
EXTENDS ServiceRegistry, CurationMultisig, Sequences

VARIABLE made \* the calls that were made, in their order, with their time

curationVars == <<registryVars, multisigVars, made>>

TierChange(tier) == [kind |-> "Tier", to |-> tier]

\* The calls of the registry that the curation role is for.  A changeId is known
\* to the owners as soon as somebody can compute it, so it may be confirmed early.
CurationCalls ==
  [fn : {"queueChange"}, serviceId : Services, tier : Tiers]
    \cup [fn : {"applyChange", "cancelChange"}, id : 0 .. MaxChanges - 1]

ASSUME CurationAssumption == Calls \subseteq CurationCalls

CurationInit == RegistryInit /\ MultisigInit /\ made = <<>>

OwnersStep == OwnerStep /\ UNCHANGED <<registryVars, made>>

\* execute: the call is made in the same transaction, and undone with it.
MakeCall(c) ==
  /\ Execute(c)
  /\ CASE c.fn = "queueChange" -> QueueChange(CurationAuthority, c.serviceId, TierChange(c.tier))
       [] c.fn = "applyChange" ->
            \E p \in pending : p.id = c.id /\ ApplyChange(CurationAuthority, p)
       [] c.fn = "cancelChange" ->
            \E p \in pending : p.id = c.id /\ CancelChange(CurationAuthority, p)
  /\ made' = Append(made, [call |-> c, at |-> now, id |-> changeNonce])

\* The registry as the others use it: every caller but the multisig.
OthersStep ==
  /\ \/ Register
     \/ \E caller \in Accounts \ {CurationAuthority}, s \in Services, change \in Change :
          QueueChange(caller, s, change)
     \/ \E caller \in Accounts \ {CurationAuthority}, p \in pending :
          ApplyChange(caller, p) \/ CancelChange(caller, p)
     \/ RegistryTick
  /\ UNCHANGED <<multisigVars, made>>

CurationNext == OwnersStep \/ (\E c \in Calls : MakeCall(c)) \/ OthersStep

CurationSpec == CurationInit /\ [][CurationNext]_curationVars

-----------------------------------------------------------------------------

\* In this step a tier changes only by registration, or as a quorum of owners
\* applies a change that a quorum queued at least the timelock before.
TierIsDecided ==
  \A s \in Services :
    services'[s].tier # services[s].tier =>
      \/ ~services[s].exists
      \/ \E i \in DOMAIN made :
           LET queue == made[i]
               apply == made'[Len(made')]
           IN  /\ queue.call = [fn |-> "queueChange", serviceId |-> s,
                                tier |-> services'[s].tier]
               /\ apply.call = [fn |-> "applyChange", id |-> queue.id]
               /\ now >= queue.at + Timelock
               /\ Cardinality(Confirmers(queue.call)) >= Threshold
               /\ Cardinality(Confirmers(apply.call)) >= Threshold

\* The tier of a Service, which decides whether its settlements earn credit,
\* takes two quorums of owners and the timelock between them
\* (CurationMultisig holding the curation role).
TierTakesQuorumAndNotice == [][TierIsDecided]_curationVars
=============================================================================
