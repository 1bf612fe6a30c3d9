----------------------------- MODULE MCTabBook -----------------------------
(***************************************************************************)
(* TabBook on small instances: every Service is registered at the start,   *)
(* by the operator that OperatorOf gives it, and every Bond is funded.     *)
(***************************************************************************)
EXTENDS TabBook, TLC

CONSTANTS OperatorOf, InitialStake, InitialTier, a1, s1, s2, s3, op1, op2, usdc

OwnOperators == [s \in Services |-> IF s = s1 THEN op1 ELSE op2]
OneOperator == [s \in Services |-> op1]

MCInit ==
  /\ services = [s \in Services |->
       [exists |-> TRUE, operator |-> OperatorOf[s], bondAccount |-> OperatorOf[s],
        tier |-> InitialTier, settlementWindow |-> CHOOSE w \in Windows : TRUE]]
  /\ prices = [k \in Services \X Assets |-> CHOOSE price \in Prices : price > 0]
  /\ free = [k \in Accounts \X Assets |-> InitialStake]
  /\ Init

\* The Agent allows every Service its ceiling once and settles one unit at a
\* time; the Services cite all the Bonds they may.
EarningStep ==
  \/ SetSettlementSurface(WiringAuthority, WiringAuthority)
  \/ \E t \in Tabs, m \in Ceilings, d \in Terms :
       ~auths[t].exists /\ Authorise(t, m, now + d)
  \/ \E caller \in Accounts, t \in Tabs, units \in Units, price \in Prices :
       RecordDelivery(caller, t, units, price, history[Account(t)],
                      {k \in Services \X Assets : IsCounterparty(<<t[1], k[1], k[2]>>)})
  \/ \E t \in Tabs, price \in Prices : ApplySettlement(WiringAuthority, t, price)
  \/ Tick

EarningSpec == MCInit /\ [][EarningStep]_vars

Symmetry == Permutations(Services)
=============================================================================
