----------------------------- MODULE MCLimitLib -----------------------------
(***************************************************************************)
(* creditLimit over growing histories.  A step settles with a Service, as  *)
(* TabBook._extendHistory appends it (the record settles now, and its      *)
(* first delivery was at some earlier time, now, or never), or lets half a *)
(* ramp go by.  What every Service holds in Bonds is chosen at the start.  *)
(*                                                                         *)
(* A behaviour is of a history, or of contributions handed to the cap of   *)
(* MCConcentration, which reach further than short histories do.           *)
(***************************************************************************)
EXTENDS MCConcentration

CONSTANTS Services, Amounts, Stakes, Baseline, GrowthFactorBps,
          MaxRecords,   \* bound on the length of the history
          MaxTime       \* bound on the clock

ASSUME GrowthAssumption ==
  /\ Amounts \subseteq Nat /\ \E a \in Amounts : \A b \in Amounts : b <= a
  /\ Stakes \subseteq Nat /\ Baseline \in Nat /\ GrowthFactorBps \in Nat
  /\ IsFiniteSet(Services) /\ MaxTime \in Nat

VARIABLES subject, history, evaluatedAt, stake

historyVars == <<history, evaluatedAt, stake>>
vars == <<subject, historyVars, capVars>>

AssetA == "assetA"
AssetB == "assetB"

Params(at) == [asset |-> AssetA, baseline |-> Baseline, growthFactorBps |-> GrowthFactorBps,
               evaluatedAt |-> at]

\* Every Service cited, and Bonds in another Asset that must not count.
bonds == {[serviceId |-> s, asset |-> AssetA, amount |-> stake] : s \in Services}
           \cup {[serviceId |-> s, asset |-> AssetB, amount |-> 50] : s \in Services}

LimitOn(records, at) == creditLimit(records, bonds, Params(at))

Record(s, amount, asset, first, curated, bonded) ==
  [serviceId |-> s, asset |-> asset, amount |-> amount, settledAt |-> evaluatedAt,
   firstDeliveryAt |-> first, curated |-> curated, bonded |-> bonded]

Init ==
  /\ history = <<>> /\ evaluatedAt = 1
  /\ \/ subject = "history" /\ stake \in Stakes /\ c = <<>> /\ baseline = Baseline
     \/ subject = "contributions" /\ stake = 0 /\ CapInit

\* A settlement that passes every filter of creditLimit once it has weight.
SettleEligible ==
  /\ evaluatedAt > 1
  /\ \E s \in Services, amount \in Amounts :
       history' = Append(history, Record(s, amount, AssetA, 1, TRUE, TRUE))

\* A settlement that some filter refuses.
SettleIneligible ==
  \E s \in Services :
    LET amount == CHOOSE a \in Amounts : \A b \in Amounts : b <= a
    IN  \E r \in {Record(s, amount, AssetA, 0, TRUE, TRUE),
                  Record(s, amount, AssetA, evaluatedAt, TRUE, TRUE),
                  Record(s, amount, AssetA, 1, FALSE, TRUE),
                  Record(s, amount, AssetA, 1, TRUE, FALSE),
                  Record(s, amount, AssetB, 1, TRUE, TRUE)} :
          history' = Append(history, r)

Settle ==
  /\ Len(history) < MaxRecords
  /\ SettleEligible \/ SettleIneligible
  /\ UNCHANGED <<evaluatedAt, stake>>

Age ==
  /\ evaluatedAt + 15 * Day <= MaxTime
  /\ evaluatedAt' = evaluatedAt + 15 * Day
  /\ UNCHANGED <<history, stake>>

Next ==
  \/ subject = "history" /\ (Settle \/ Age) /\ UNCHANGED <<subject, capVars>>
  \/ subject = "contributions" /\ CapNext /\ UNCHANGED <<subject, historyVars>>

Spec == Init /\ [][Next]_vars

Symmetry == Permutations(Services)

-----------------------------------------------------------------------------

\* Rounding never pays: paying one amount as two settlements instead of one
\* never gives a higher limit.
SplittingNeverRaises ==
  \A i \in DOMAIN history :
    \A part \in 1 .. (history[i].amount - 1) :
      LET first == [history EXCEPT ![i].amount = part]
          rest == [history[i] EXCEPT !.amount = @ - part]
      IN  LimitOn(Append(first, rest), evaluatedAt) <= LimitOn(history, evaluatedAt)

\* R13.8: a record appended to the history never lowers the limit, and neither
\* does the age the records gain while time goes by (R13.4).  The step of it
\* the source argues for: a contribution that is raised or added never lowers
\* the concentration-capped value.
LimitNeverFalls ==
  [][/\ LimitOn(history', evaluatedAt') >= LimitOn(history, evaluatedAt)
     /\ _concentrationCapped(c', baseline') >= _concentrationCapped(c, baseline)]_vars
=============================================================================
