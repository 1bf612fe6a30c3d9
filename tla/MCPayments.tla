----------------------------- MODULE MCPayments -----------------------------
(***************************************************************************)
(* The paying side on a small instance: the Services are registered,       *)
(* priced and bonded, and each has a Collection address of its own.  Either *)
(* two calls run beside each other on one tab, beside deliveries of the    *)
(* Service that no call of these asks for; or none does, and the Agent     *)
(* settles itself: directly, in batches and by signature.                  *)
(***************************************************************************)
EXTENDS Payments

CONSTANTS CollectionOf, a1, s1, s2, op1, op2, usdc, n1, j1, j2

VARIABLE calls \* which of the two

OwnCollections == [k \in Services \X Assets |-> IF k[1] = s1 THEN op1 ELSE op2]
OneTab == [j \in Jobs |-> <<a1, s1, usdc>>]
AttemptsAndOne == Attempts \cup {n1}

MCInit ==
  /\ services = [s \in Services |->
       [exists |-> TRUE, operator |-> CollectionOf[<<s, usdc>>],
        bondAccount |-> CollectionOf[<<s, usdc>>],
        tier |-> "Curated", settlementWindow |-> CHOOSE w \in Windows : TRUE]]
  /\ prices = [k \in Services \X Assets |-> CHOOSE price \in Prices : price > 0]
  /\ free = [k \in Accounts \X Assets |-> CHOOSE stake \in Stakes : TRUE]
  /\ collections = CollectionOf
  /\ PaymentsInit
  /\ calls \in BOOLEAN

UsedTabs == {TabOf[j] : j \in Jobs}

NoOther == UNCHANGED <<balances, collections, permitVars, batch>>

\* The Agent allows its ceiling and each tab sees one delivery that no call asks for.
Deliveries ==
  /\ \/ SetSettlementSurface(WiringAuthority, Surface)
     \/ \E t \in Tabs, m \in Ceilings, d \in Terms :
          now = 1 /\ ~auths[t].exists /\ t \in UsedTabs /\ Authorise(t, m, now + d)
     \/ \E caller \in Accounts, t \in Tabs, units \in Units, price \in Prices :
          /\ tabs[t].deliveryCount < (IF calls THEN 3 ELSE 1)
          /\ RecordDelivery(caller, t, units, price, history[Account(t)], Cited(t))
  /\ batch = NoBatch
  /\ NoOther

\* The Agent signs payloads that are good until the next moment, of which anybody
\* submits what Permit2 takes, and settles three times.
Quietly ==
  /\ Len(settlements) < 3
  /\ \/ \E t \in Tabs, amount \in Payments : Settle(t, amount)
     \/ \E p \in Permit :
          Cardinality(signed) < 2 /\ p.nonce = n1 /\ p.deadline = now /\ Sign(p)
     \/ \E p \in Permit : p.nonce = n1 /\ SettleWithPermit2(p)
     \/ \E agent \in Agents, instructions \in [1 .. MaxBatch -> Instructions] :
          BatchBegins(agent, instructions)
     \/ BatchPays

Ends == BatchEnds \/ BatchReverts \/ (Tick /\ batch = NoBatch /\ NoOther)

MCStep ==
  \/ /\ settlementSurface = Surface
     /\ calls
     /\ \E j \in Jobs : CallStarts(j)
  \/ \E j \in Jobs : JobStep(j) \/ LosesReceipt(j)
  \/ Mine
  \/ External
  \/ Dealing(Deliveries)
  \/ ~calls /\ Dealing(Quietly \/ Ends)

MCNext == MCStep /\ UNCHANGED calls

MCSpec == MCInit /\ [][MCNext]_<<payVars, calls>> /\ PaymentsFairness
=============================================================================
