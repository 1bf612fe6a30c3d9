------------------------------ MODULE Metering ------------------------------
(***************************************************************************)
(* A metered call: the client of client-402.ts that repeats a 402 once,    *)
(* the plugin of post-paid.ts that holds the response until the delivery   *)
(* is recorded, and recordDelivery of tab-book.ts, which simulates, sends  *)
(* and waits for the receipt.  The calls are one Agent's, concurrent, and  *)
(* beside them the Agent settles.                                          *)
(*                                                                         *)
(* Of the book the module keeps what a call can tell: the open deliveries, *)
(* the headroom, and the length of the settlement history, which is what a *)
(* witness has to match.                                                   *)
(***************************************************************************)
EXTENDS SerialSender

CONSTANTS
  Calls,       \* the calls, which are requests of the sender
  Headroom,    \* the Credit Limit, in deliveries
  MaxSettles,  \* bound on the Agent's settlements
  MaxOthers    \* bound on the deliveries other Services record

ASSUME MeteringAssumption ==
  /\ Calls \subseteq Requests
  /\ {Headroom, MaxSettles, MaxOthers} \subseteq Nat

VARIABLES
  open,      \* the deliveries that are open, here and with other Services
  others,    \* the deliveries other Services recorded
  paid,      \* the length of the settlement history
  charges,   \* how often each call was recorded
  stage,     \* where each call is
  attempt,   \* which attempt of its client it is
  witness,   \* the length of the history its witness was built from
  figure,    \* the open tab its simulation answered with
  told       \* what its client was told

bookVars == <<open, others, paid, charges>>
callVars == <<stage, attempt, witness, figure, told>>
meteringVars == <<bookVars, callVars>>

MeteringInit ==
  /\ open = 0 /\ others = 0 /\ paid = 0 /\ charges = [c \in Calls |-> 0]
  /\ stage \in [Calls -> {"idle"}]
  /\ attempt = [c \in Calls |-> 1]
  /\ witness = [c \in Calls |-> 0] /\ figure = [c \in Calls |-> 0]
  /\ told = [c \in Calls |-> "nothing"]

Move(c, to) == stage' = [stage EXCEPT ![c] = to]

\* The response goes out: with a charge block, as a 402, or with neither, as
\* the handler made it.
Respond(c, answer) ==
  /\ Move(c, "over")
  /\ told' = [told EXCEPT ![c] = answer]

\* The client repeats a 402 once; a second one stands.  A refusal with
\* another status, of a missing authorisation say, is not repeated.
Refuse(c) ==
  IF attempt[c] = 1
    THEN /\ Move(c, "arrived") /\ attempt' = [attempt EXCEPT ![c] = 2]
         /\ UNCHANGED told
    ELSE Respond(c, "refused") /\ UNCHANGED attempt

Arrive(c) ==
  /\ stage[c] = "idle"
  /\ Move(c, "arrived")
  /\ UNCHANGED <<bookVars, attempt, witness, figure, told>>

\* authenticate: the claim is the operator's, the Agent's or a delegate's.
Admit(c) ==
  /\ stage[c] = "arrived"
  /\ Move(c, "called")
  /\ UNCHANGED <<bookVars, attempt, witness, figure, told>>

TurnAway(c) ==
  /\ stage[c] = "arrived"
  /\ Respond(c, "neither")
  /\ UNCHANGED <<bookVars, attempt, witness, figure>>

-----------------------------------------------------------------------------
(* recordDelivery.                                                         *)

\* What the contract answers to a delivery with a witness of this length.
Accepts(length) == length = paid /\ open < Headroom

\* encode, for the simulation and then for the transaction: the witness is
\* that of the moment it is built.
BuildWitness(c) ==
  /\ stage[c] \in {"called", "simulated"}
  /\ witness' = [witness EXCEPT ![c] = paid]
  /\ Move(c, IF stage[c] = "called" THEN "simulating" ELSE "sending")
  /\ UNCHANGED <<bookVars, attempt, figure, told>>

SimulationPasses(c) ==
  /\ stage[c] = "simulating"
  /\ Accepts(witness[c])
  /\ figure' = [figure EXCEPT ![c] = open + 1]
  /\ Move(c, "simulated")
  /\ UNCHANGED <<bookVars, attempt, witness, told>>

\* The contract compares the commitment before the headroom, so only an
\* up-to-date witness is told LimitExceeded, and only that refuses.
SimulationRefuses(c) ==
  /\ stage[c] = "simulating"
  /\ witness[c] = paid /\ ~Accepts(witness[c])
  /\ Refuse(c)
  /\ UNCHANGED <<bookVars, witness, figure>>

\* A witness that cannot be built, a simulation that cannot be read, and a
\* history that moved: delivered anyway, and not metered.
Unmetered(c) ==
  /\ \/ stage[c] \in {"called", "simulated"}
     \/ stage[c] = "simulating" /\ witness[c] # paid
  /\ Respond(c, "neither")
  /\ UNCHANGED <<bookVars, attempt, witness, figure>>

Send(c) ==
  /\ stage[c] = "sending"
  /\ Submit(c)
  /\ Move(c, "sent")
  /\ UNCHANGED <<bookVars, attempt, witness, figure, told>>

\* Mutant: a delivery that could not be sent is refused like one the
\* contract refuses.
NotSentRefusing(c) ==
  /\ stage[c] = "sent" /\ reply[c] = Failed
  /\ Respond(c, "refused")
  /\ UNCHANGED <<bookVars, attempt, witness, figure>>

NotSent(c) ==
  /\ stage[c] = "sent" /\ reply[c] = Failed
  /\ Respond(c, "neither")
  /\ UNCHANGED <<bookVars, attempt, witness, figure>>

\* The receipt says how it went; a revert is not a refusal.
Receipt(c) ==
  /\ stage[c] = "sent" /\ Mined(c)
  /\ Respond(c, IF receipts[reply[c]] THEN "charged" ELSE "neither")
  /\ UNCHANGED <<bookVars, attempt, witness, figure>>

\* No receipt in receiptWaitMs, or the wait fails.
Unconfirmed(c) ==
  /\ stage[c] = "sent" /\ reply[c] \in Nat
  /\ Respond(c, "neither")
  /\ UNCHANGED <<bookVars, attempt, witness, figure>>

CallStep(c) ==
  \/ BuildWitness(c) \/ SimulationPasses(c) \/ SimulationRefuses(c) \/ Unmetered(c)
  \/ NotSent(c) \/ Receipt(c) \/ Unconfirmed(c)

-----------------------------------------------------------------------------
(* The chain.                                                              *)

\* The status of a mined delivery.
Recorded(c) == Accepts(witness[c])

DeliveryMined(c) ==
  /\ MineNext(Recorded(c))
  /\ open' = IF Recorded(c) THEN open + 1 ELSE open
  /\ charges' = IF Recorded(c) THEN [charges EXCEPT ![c] = @ + 1] ELSE charges
  /\ UNCHANGED <<others, paid, callVars>>

\* The Agent settles what is open, from its own key.
AgentSettles ==
  /\ open > 0 /\ paid < MaxSettles
  /\ open' = 0
  /\ paid' = paid + 1
  /\ UNCHANGED <<others, charges, callVars>>

\* The Credit Limit is one for all Services of the Agent.
OthersDeliver ==
  /\ open < Headroom /\ others < MaxOthers
  /\ open' = open + 1
  /\ others' = others + 1
  /\ UNCHANGED <<paid, charges, callVars>>

\* The connection of every call in progress breaks; no client repeats it.
CallsBreak ==
  /\ stage' = [c \in Calls |-> IF stage[c] \in {"idle", "over"} THEN stage[c] ELSE "over"]
  /\ told' = [c \in Calls |-> IF stage[c] \in {"idle", "over"} THEN told[c] ELSE "neither"]
  /\ UNCHANGED <<bookVars, attempt, witness, figure>>

-----------------------------------------------------------------------------
Promise == INSTANCE MeteredCall

\* Whatever is lost, late or concurrent, a call is charged at most once, an
\* answer with a charge is true, and a refused call is never charged.
ImplementsMeteredCall == Promise!Spec
=============================================================================
