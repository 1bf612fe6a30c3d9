------------------------------ MODULE Gateway ------------------------------
(***************************************************************************)
(* The gateway's three writers over the one key they send with: metering,  *)
(* the settlement relay and the feedback writer each submit to the queue   *)
(* of SerialSender and read their answers from it, and the chain mines     *)
(* what the node took in the order of its nonces.                          *)
(*                                                                         *)
(* A restart is one step of all of them: what is in memory is gone.        *)
(***************************************************************************)
EXTENDS Delegates, Relay, Feedback

CONSTANTS
  Loads,        \* what comes to the gateway: its calls, posts and settlements,
                \* the deliveries of other Services, whether the rest that a
                \* settlement needs comes and goes, and whether a delegate
                \* signs the calls
  MaxRestarts   \* bound on the restarts

ASSUME GatewayAssumption ==
  /\ Loads \subseteq [calls : SUBSET Calls, posts : Posts \cup {0},
                   settlements : 0 .. MaxPaid,
                   others : 0 .. MaxOthers, lapses : BOOLEAN, delegated : BOOLEAN]
  /\ MaxRestarts \in Nat
  /\ \A c \in Calls :
       /\ \A k \in Posts : c # Post(k)
       /\ \A s \in 1 .. MaxPaid, n \in 1 .. MaxWrites : c # Entry(s, n)

VARIABLES
  load,         \* what comes to this gateway; without settlements, or without
                \* the option, the feedback writer does not run
  restarts

gatewayVars ==
  <<senderVars, meteringVars, delegateVars, relayVars, feedbackVars, load, restarts>>

GatewayInit ==
  /\ SenderInit /\ MeteringInit /\ DelegatesInit /\ RelayInit /\ FeedbackInit
  /\ load \in Loads
  /\ load.settlements = 0 => ~identity
  /\ restarts = 0

\* Steps that leave the sender, and the node and the chain under it, alone.
Local(step_) == step_ /\ UNCHANGED senderVars

\* A submission changes the queue and nothing else of the sender.
Submission == UNCHANGED <<nodeVars, next, again, reply>>

\* The Agent's own signature lets a call in at once.
MeteringStep(c) ==
  /\ \/ Local((~load.delegated /\ Admit(c)) \/ CallStep(c)) /\ UNCHANGED delegateVars
     \/ Send(c) /\ Submission /\ UNCHANGED delegateVars
     \/ load.delegated /\ Local(DelegateCheck(c))
  /\ UNCHANGED <<relayVars, feedbackVars, load, restarts>>

RelayStep ==
  /\ \/ Local(PostExpired \/ SimulationOfSpent \/ SimulationFails)
     \/ Local(NotSubmitted \/ RelayReceipt \/ RelayUnconfirmed)
     \/ Relays /\ Submission
  /\ UNCHANGED <<meteringVars, delegateVars, feedbackVars, load, restarts>>

FeedbackStep ==
  /\ load.settlements > 0
  /\ \/ Local(FeedbackTick \/ NoIdentity \/ WriteInFlight \/ CountEntries)
     \/ Local(NotWritten \/ WrittenMined \/ WrittenUnconfirmed)
     \/ SubmitEntry /\ Submission
  /\ UNCHANGED <<meteringVars, delegateVars, relayVars, load, restarts>>

SendingStep ==
  /\ SenderStep
  /\ UNCHANGED <<meteringVars, delegateVars, relayVars, feedbackVars, load, restarts>>

\* What is mined is whoever's it is.
MineStep ==
  /\ Len(receipts) < Len(txs)
  /\ \/ /\ NextMined = Elsewhere
        /\ MineNext(TRUE)
        /\ UNCHANGED <<meteringVars, relayVars, feedbackVars>>
     \/ /\ \E c \in Calls : NextMined = c /\ DeliveryMined(c)
        /\ UNCHANGED <<relayVars, feedbackVars>>
     \/ /\ \E k \in Posts : NextMined = Post(k) /\ SettlementMined
        /\ UNCHANGED <<meteringVars, feedbackVars>>
     \/ /\ \E s \in 1 .. MaxPaid, n \in 1 .. MaxWrites :
             NextMined = Entry(s, n) /\ EntryMined(s)
        /\ UNCHANGED <<meteringVars, relayVars>>
  /\ UNCHANGED <<delegateVars, load, restarts>>

\* What the world does: calls and posts come in, the Agent settles, uses
\* other Services, cancels, spends what a settlement needs and takes an
\* identity, the registry catches up.
CallerStep ==
  \/ /\ \/ \E c \in Calls \cap load.calls : AgentSettles \/ Arrive(c)
        \/ others < load.others /\ OthersDeliver
     /\ UNCHANGED <<senderVars, delegateVars, relayVars, feedbackVars, load, restarts>>
  \/ /\ load.posts > 0
     /\ \/ post < load.posts /\ Posted
        \/ SubmittedBeside \/ Cancelled \/ Expires
        \/ load.lapses /\ RestChanges
     /\ UNCHANGED <<senderVars, meteringVars, delegateVars, feedbackVars, load, restarts>>
  \/ /\ load.settlements > 0
     /\ (settlements < load.settlements /\ Settled) \/ Indexed \/ TakesIdentity
     /\ UNCHANGED <<senderVars, meteringVars, delegateVars, relayVars, load, restarts>>

\* The Agent makes and revokes delegates, and time passes.
DelegationStep ==
  /\ load.delegated
  /\ SetDelegate \/ Revoke \/ DelegatesTick
  /\ UNCHANGED <<senderVars, meteringVars, relayVars, feedbackVars, load, restarts>>

NodeStep ==
  /\ Arrives \/ Outside
  /\ UNCHANGED <<meteringVars, delegateVars, relayVars, feedbackVars, load, restarts>>

ReadFails ==
  /\ FeedbackReadFails
  /\ UNCHANGED <<meteringVars, delegateVars, relayVars, load, restarts>>

Restart ==
  /\ restarts < MaxRestarts
  /\ restarts' = restarts + 1
  /\ SenderRestarts /\ CallsBreak /\ ReaderRestarts /\ RelayBreaks /\ FeedbackRestarts
  /\ UNCHANGED load

GatewayNext ==
  \/ \E c \in Calls : MeteringStep(c)
  \/ RelayStep \/ FeedbackStep \/ SendingStep \/ MineStep
  \/ CallerStep \/ DelegationStep \/ NodeStep \/ ReadFails \/ Restart

GatewaySpec == GatewayInit /\ [][GatewayNext]_gatewayVars

\* The process goes on with whatever it can go on with, each call for
\* itself; the chain mines what is in the pool and the registry catches up.
\* Nothing is asked of the callers.
FairGatewaySpec ==
  /\ GatewaySpec
  /\ \A c \in Calls : WF_gatewayVars(MeteringStep(c))
  /\ WF_gatewayVars(RelayStep)
  /\ WF_gatewayVars(FeedbackStep)
  /\ WF_gatewayVars(SendingStep)
  /\ WF_gatewayVars(MineStep)
  /\ WF_gatewayVars(Indexed /\ UNCHANGED <<senderVars, meteringVars, delegateVars, relayVars,
                                        load, restarts>>)

-----------------------------------------------------------------------------
\* Everyone who waits for the one queue is served: a call and a post that
\* came in are answered, and once the settlements end every one of them has
\* its entry.
EveryoneIsServed ==
  /\ \A c \in Calls : stage[c] # "idle" ~> stage[c] = "over"
  /\ at # "idle" ~> at = "idle"
  /\ <>[](identity => Len(entries) >= settlements)
=============================================================================
