-------------------------- MODULE CurationMultisig --------------------------
(***************************************************************************)
(* packages/contracts/src/CurationMultisig.sol: m of n owners confirm a    *)
(* call before it is made.  A proposal is identified with its call, as the *)
(* proposalId is the hash of the target and the calldata.  What the call   *)
(* does is the business of the module that composes this one with its      *)
(* target; a call that reverts undoes its execution, which is no step.     *)
(***************************************************************************)
EXTENDS Integers, FiniteSets

CONSTANTS
  Owners,           \* _owners
  Threshold,        \* THRESHOLD
  Calls,            \* the calls that may be proposed
  MaxConfirmations  \* type(uint8).max

ASSUME MultisigAssumption ==
  /\ IsFiniteSet(Owners) /\ Threshold \in 1 .. Cardinality(Owners)
  /\ MaxConfirmations \in Nat

VARIABLES
  proposals,    \* _proposals
  hasConfirmed  \* the pairs of a call and an owner for which hasConfirmed is true

multisigVars == <<proposals, hasConfirmed>>

Proposal == [exists : BOOLEAN, executed : BOOLEAN, confirmations : 0 .. MaxConfirmations]

Confirmers(c) == {o \in Owners : <<c, o>> \in hasConfirmed}

MultisigTypeOK ==
  /\ proposals \in [Calls -> Proposal]
  /\ hasConfirmed \subseteq Calls \X Owners

MultisigInit ==
  /\ proposals = [c \in Calls |-> [exists |-> FALSE, executed |-> FALSE, confirmations |-> 0]]
  /\ hasConfirmed = {}

\* Mutant: an owner may confirm more than once.
MayConfirmAgain(c, owner) ==
  ~proposals[c].executed /\ proposals[c].confirmations < MaxConfirmations

\* An owner confirms a call once, and none that was made.
MayConfirm(c, owner) ==
  /\ ~proposals[c].executed
  /\ <<c, owner>> \notin hasConfirmed
  /\ proposals[c].confirmations < MaxConfirmations

\* propose creates the proposal if there is none, and confirms it.
Propose(owner, c) ==
  /\ MayConfirm(c, owner)
  /\ proposals' = [proposals EXCEPT ![c].exists = TRUE, ![c].confirmations = @ + 1]
  /\ hasConfirmed' = hasConfirmed \cup {<<c, owner>>}

Confirm(owner, c) ==
  /\ proposals[c].exists
  /\ MayConfirm(c, owner)
  /\ proposals' = [proposals EXCEPT ![c].confirmations = @ + 1]
  /\ hasConfirmed' = hasConfirmed \cup {<<c, owner>>}

\* Mutant: a confirmation may be withdrawn after the call was made.
MayRevokeLate(c, owner) == proposals[c].exists /\ <<c, owner>> \in hasConfirmed

MayRevoke(c, owner) ==
  proposals[c].exists /\ ~proposals[c].executed /\ <<c, owner>> \in hasConfirmed

Revoke(owner, c) ==
  /\ MayRevoke(c, owner)
  /\ proposals' = [proposals EXCEPT ![c].confirmations = @ - 1]
  /\ hasConfirmed' = hasConfirmed \ {<<c, owner>>}

\* Callable by anyone.
Execute(c) ==
  /\ proposals[c].exists
  /\ ~proposals[c].executed
  /\ proposals[c].confirmations >= Threshold
  /\ proposals' = [proposals EXCEPT ![c].executed = TRUE]
  /\ UNCHANGED hasConfirmed

OwnerStep ==
  \E owner \in Owners, c \in Calls : Propose(owner, c) \/ Confirm(owner, c) \/ Revoke(owner, c)

MultisigNext == OwnerStep \/ \E c \in Calls : Execute(c)

MultisigSpec == MultisigInit /\ [][MultisigNext]_multisigVars

-----------------------------------------------------------------------------

\* The counter of a proposal, which execute compares with the threshold, is the
\* number of owners who stand behind it, however they propose, confirm and
\* revoke in turns.
ConfirmationsCounted ==
  \A c \in Calls : proposals[c].confirmations = Cardinality(Confirmers(c))

\* A call that was made has its quorum on record from then on.
ExecutedHasQuorum ==
  \A c \in Calls : proposals[c].executed => Cardinality(Confirmers(c)) >= Threshold
=============================================================================
