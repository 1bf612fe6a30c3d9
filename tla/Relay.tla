------------------------------- MODULE Relay -------------------------------
(***************************************************************************)
(* apps/gateway/src/relay.ts: an Agent's signed settlement, simulated,     *)
(* sent with the operator's key and waited for.  What a post is told to be *)
(* retryable its client posts again, with the same signature; anyone may   *)
(* submit the signature besides, the Agent may cancel it, its deadline     *)
(* passes at some time, and the rest that the settlement needs comes and   *)
(* goes.                                                                   *)
(***************************************************************************)
EXTENDS SerialSender

CONSTANT Posts   \* the posts of the signature, 1 .. their bound

\* The request of the sender a post makes.
Post(k) == <<"post", k>>

ASSUME RelayAssumption ==
  /\ Posts \subseteq Nat
  /\ \A k \in Posts : Post(k) \in Requests

VARIABLES
  spent,     \* whether the nonce of the signature is spent
  settled,   \* how often it settled
  expired,   \* whether its deadline has passed
  payable,   \* whether the rest it needs holds: the Agent's balance and its approval
             \* of Permit2, what the Service accepts and collects to, the gas stated
  lapsed,    \* whether that ended since a post last found it so
  post,      \* the post that is being served, the last one, or 0
  at,        \* where it is
  answer     \* what it was answered

restVars == <<payable, lapsed>>
permitVars == <<spent, settled, expired, restVars>>
postVars == <<post, at, answer>>
relayVars == <<permitVars, postVars>>

RelayInit ==
  /\ spent = FALSE /\ settled = 0 /\ expired = FALSE
  /\ payable = TRUE /\ lapsed = FALSE
  /\ post = 0 /\ at = "idle" /\ answer = "none"

\* What relay answers with retryable, and the client takes as such.
Retryable == {"none", "not submitted", "unconfirmed"}

Posted ==
  /\ at = "idle" /\ answer \in Retryable
  /\ post + 1 \in Posts
  /\ post' = post + 1
  /\ at' = "posted"
  /\ UNCHANGED <<permitVars, answer>>

Told(what) == at' = "idle" /\ answer' = what /\ UNCHANGED <<permitVars, post>>

\* The deadline is compared before anything is asked of the chain.
PostExpired ==
  /\ at = "posted" /\ expired
  /\ Told("expired")

\* Permit2 refuses a spent nonce.
SimulationOfSpent ==
  /\ at = "posted" /\ spent
  /\ Told("nonce used")

\* Any other failure of the simulation is final too.
SimulationFails ==
  /\ at = "posted"
  /\ Told("would not succeed")

\* The signature settles while its nonce is unspent, its deadline ahead and
\* the rest as it should be.
Settles == ~spent /\ ~expired /\ payable

\* A simulation that passes, and what is sent on the strength of it.
Relays ==
  /\ at = "posted" /\ Settles
  /\ Submit(Post(post))
  /\ at' = "sent"
  /\ lapsed' = FALSE
  /\ UNCHANGED <<spent, settled, expired, payable, post, answer>>

NotSubmitted ==
  /\ at = "sent" /\ reply[Post(post)] = Failed
  /\ Told("not submitted")

\* Mutant: a transaction that is mined is taken to have settled.
OutcomeOfAny(status) == "settled"

Outcome(status) == IF status THEN "settled" ELSE "reverted"

RelayReceipt ==
  /\ at = "sent" /\ Mined(Post(post))
  /\ Told(Outcome(receipts[reply[Post(post)]]))

RelayUnconfirmed ==
  /\ at = "sent" /\ reply[Post(post)] \in Nat
  /\ Told("unconfirmed")

PostStep ==
  \/ PostExpired \/ SimulationOfSpent \/ SimulationFails \/ Relays
  \/ NotSubmitted \/ RelayReceipt \/ RelayUnconfirmed

-----------------------------------------------------------------------------
(* The chain.                                                              *)

SettlementMined ==
  /\ MineNext(Settles)
  /\ spent' = (spent \/ Settles)
  /\ settled' = IF Settles THEN settled + 1 ELSE settled
  /\ UNCHANGED <<expired, restVars, postVars>>

\* Somebody else submits the signature.
SubmittedBeside ==
  /\ Settles
  /\ spent' = TRUE /\ settled' = settled + 1
  /\ UNCHANGED <<expired, restVars, postVars>>

\* The Agent cancels its nonce with Permit2.
Cancelled ==
  /\ ~spent
  /\ spent' = TRUE
  /\ UNCHANGED <<settled, expired, restVars, postVars>>

Expires ==
  /\ ~expired
  /\ expired' = TRUE
  /\ UNCHANGED <<spent, settled, restVars, postVars>>

\* The Agent spends its money or its approval, or gets them back; the
\* Service's Assets and Collection change; the gas stated falls short.
RestChanges ==
  /\ payable' = ~payable
  /\ lapsed' = (lapsed \/ payable)
  /\ UNCHANGED <<spent, settled, expired, postVars>>

RelayBreaks ==
  /\ IF at = "idle" THEN UNCHANGED <<at, answer>> ELSE at' = "idle" /\ answer' = "unconfirmed"
  /\ UNCHANGED <<permitVars, post>>

-----------------------------------------------------------------------------
\* What the client of a signature is told for good is so, however often it
\* posts it and whoever else submits it: settled when it settled, and once;
\* used when its nonce is spent; reverted only when something of what the
\* simulation found has ended since.
RelayTellsTheTruth ==
  /\ answer = "settled" => settled = 1
  /\ answer = "nonce used" => spent
  /\ answer = "reverted" => spent \/ expired \/ lapsed
=============================================================================
