----------------------------- MODULE MCCuration -----------------------------
(***************************************************************************)
(* The registry on a small instance, its curation role the multisig's.     *)
(* op1 registers its Service, to be paid at its own address.  A behaviour  *)
(* is one of three:                                                        *)
(*   "operator"   the Service changes its terms in every way it can, and   *)
(*                an Agent looks at the registry once;                     *)
(*   "promotion"  the owners promote the Service, and an Agent looks once; *)
(*   "owners"     they do, and withdraw what they queued or confirmed.     *)
(* Beside the owners the Service moves its Settlement Window.              *)
(***************************************************************************)
EXTENDS Curation, RegistryNotice, TLC

CONSTANTS curator, op1, s1, usdc, ausd, o1, o2, o3

VARIABLE followed

allVars == <<curationVars, seen, followed>>

\* The calls it takes to promote a Service.
Promotions == {c \in CurationCalls : c.fn = "queueChange" => c.tier = "Curated"}

\* Bound on the clock while the owners act.
OwnersMaxTime == 3

RegisterOwn ==
  \E s \in Services, A \in SUBSET Assets, hasTool \in BOOLEAN, raw \in RawWindows,
     price \in Prices :
    RegisterService(op1, s, [a \in A |-> op1], hasTool, [a \in A |-> price], raw)

ChangeOwn ==
  \/ \E s \in Services, change \in Change : QueueChange(op1, s, change)
  \/ \E p \in pending : ApplyChange(op1, p) \/ CancelChange(op1, p)

OperatorNext == RegisterOwn \/ ChangeOwn \/ RegistryTick

BesideOwners ==
  \/ \E s \in Services : RegisterService(op1, s, [a \in Assets |-> op1], FALSE, <<>>, 0)
  \/ \E s \in Services : QueueChange(op1, s, [kind |-> "SettlementWindow", raw |-> 0])
  \/ now < OwnersMaxTime /\ RegistryTick

OwnersNext ==
  \/ OwnersStep
  \/ \E c \in Calls : MakeCall(c)
  \/ BesideOwners /\ UNCHANGED <<multisigVars, made>>

\* A promotion without detours, for the Agent to look at.
PromotionNext ==
  \/ /\ \E c \in Calls, owner \in Owners : c.fn # "cancelChange" /\ Propose(owner, c)
     /\ UNCHANGED <<registryVars, made>>
  \/ \E c \in Calls : MakeCall(c)
  \/ BesideOwners /\ UNCHANGED <<multisigVars, made>>

MCInit ==
  CurationInit /\ seen = Unseen /\ followed \in {"operator", "promotion", "owners"}

MCNext ==
  /\ \/ followed = "operator" /\ OperatorNext /\ UNCHANGED <<multisigVars, made, seen>>
     \/ followed = "promotion" /\ PromotionNext /\ UNCHANGED seen
     \/ followed = "owners" /\ OwnersNext /\ UNCHANGED seen
     \/ followed # "owners" /\ Look /\ UNCHANGED <<multisigVars, made>>
  /\ UNCHANGED followed

MCSpec == MCInit /\ [][MCNext]_allVars

Symmetry == Permutations(Owners) \cup Permutations(Assets)
=============================================================================
