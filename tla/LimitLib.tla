------------------------------ MODULE LimitLib ------------------------------
(***************************************************************************)
(* The pure credit arithmetic of packages/contracts/src/LimitLib.sol: the  *)
(* Credit Limit an Agent has earned in one Asset, as a function of its     *)
(* settlement history, the Bonds cited with it and an evaluation time.     *)
(*                                                                         *)
(* A history is a sequence of records                                      *)
(*   [serviceId, asset, amount, settledAt, firstDeliveryAt, curated,       *)
(*    bonded]                                                              *)
(* the cited Bonds are a set of records [serviceId, asset, amount] (the    *)
(* caller, TabBook, refuses two entries with one serviceId and asset), and *)
(* p is [asset, baseline, growthFactorBps, evaluatedAt].  Every division   *)
(* truncates, in the order the source fixes.  No operator is RECURSIVE, so *)
(* that modules with proofs may use this one.                              *)
(***************************************************************************)
EXTENDS Integers, Sequences, FiniteSets, FiniteSetsExt, SequencesExt, TLC

CONSTANTS
  Day,               \* `1 days`, in the units of the clock of the model
  MaxCounterparties, \* MAX_COUNTERPARTIES (32 in the source)
  MaxHistory         \* MAX_HISTORY (512 in the source)

ASSUME LimitLibAssumption ==
  Day \in Nat \ {0} /\ MaxCounterparties \in Nat /\ MaxHistory \in Nat

BPS == 10000
BondCapBps == 9500
ConcentrationDivisor == 4
MinWeightBps == 2500
RampSpanBps == 7500
RampDays == 30
\* Mutant: a pair of Services is enough to grow.
MinCounterpartiesOfPair == 2

MinCounterparties == 3

-----------------------------------------------------------------------------
(* Step 1: which records count, and what each one weighs.                  *)

\* Mutant: the ramp starts again after 30 days.
AgeWeightRestarts(settledAt, evaluatedAt) ==
  MinWeightBps + (RampSpanBps * (((evaluatedAt - settledAt) \div Day) % RampDays)) \div RampDays

ageWeightBps(settledAt, evaluatedAt) ==
  LET ageDays == (evaluatedAt - settledAt) \div Day
  IN  IF evaluatedAt <= settledAt THEN MinWeightBps
      ELSE IF ageDays >= RampDays THEN BPS
      ELSE MinWeightBps + (RampSpanBps * ageDays) \div RampDays

\* Mutant: a settlement of a little value is rounded up instead of down.
WeightedRoundedUp(r, p) ==
  (r.amount * ageWeightBps(r.settledAt, p.evaluatedAt) + BPS - 1) \div BPS

Weighted(r, p) == (r.amount * ageWeightBps(r.settledAt, p.evaluatedAt)) \div BPS

\* The filters of the loop of creditLimit: asset, tier, Bond, a delivery
\* strictly before the settlement, and a weight that is not zero.
Counts(r, p) ==
  /\ r.asset = p.asset
  /\ r.curated
  /\ r.bonded
  /\ r.firstDeliveryAt # 0
  /\ r.firstDeliveryAt < r.settledAt
  /\ Weighted(r, p) # 0

Counting(history, p) == {i \in DOMAIN history : Counts(history[i], p)}

Counterparties(history, p) == {history[i].serviceId : i \in Counting(history, p)}

Bucket(history, p, s) ==
  MapThenSumSet(LAMBDA i : Weighted(history[i], p),
                {i \in Counting(history, p) : history[i].serviceId = s})

-----------------------------------------------------------------------------
(* Step 2: the ceiling the cited Bonds in the Asset place on every limit.  *)

BondSum(bonds, asset) ==
  MapThenSumSet(LAMBDA b : b.amount, {b \in bonds : b.asset = asset})

bondCap(bonds, asset) == (BondSum(bonds, asset) * BondCapBps) \div BPS

-----------------------------------------------------------------------------
(* Steps 4 and 5: growth contributions and the concentration cap.          *)

\* The counterparties, each with what its records add up to.
Buckets(history, p) ==
  {[serviceId |-> s, sum |-> Bucket(history, p, s)] : s \in Counterparties(history, p)}

Contribution(bucket, p) == (bucket.sum * p.growthFactorBps) \div BPS

\* Where the insertion sort leaves the j-th contribution: after the larger ones,
\* and after the equal ones that came before it.
Rank(s, j) == Cardinality({i \in DOMAIN s : s[i] > s[j] \/ (s[i] = s[j] /\ i <= j)})

Descending(s) == [k \in DOMAIN s |-> s[CHOOSE j \in DOMAIN s : Rank(s, j) = k]]

Contributions(history, p) ==
  LET buckets == SetToSeq(Buckets(history, p))
  IN  Descending([j \in DOMAIN buckets |-> Contribution(buckets[j], p)])

SumSeq(c) == FoldLeft(+, 0, c)

\* The part of the contributions ranked below k.
Tail_(c, k) == SumSeq(SubSeq(c, k + 1, Len(c)))

\* The value of the limit if exactly the k largest contributions are capped.
Candidate(c, baseline, k) ==
  (ConcentrationDivisor * (baseline + Tail_(c, k))) \div (ConcentrationDivisor - k)

\* Mutant: only the entries at the cap are looked at, not the ones below it.
FeasibleTopOnly(c, baseline, k) ==
  k = 0 \/ c[k] * ConcentrationDivisor >= Candidate(c, baseline, k)

\* The k largest are at the cap or above it, the next one at it or below.
Feasible(c, baseline, k) ==
  LET candidate == Candidate(c, baseline, k)
  IN  /\ k = 0 \/ c[k] * ConcentrationDivisor >= candidate
      /\ k = Len(c) \/ c[k + 1] * ConcentrationDivisor <= candidate

Ks(c) == {k \in 0 .. (ConcentrationDivisor - 1) : k <= Len(c)}

\* The first feasible candidate, or the smallest one if none is feasible.
_concentrationCapped(c, baseline) ==
  LET feasible == {k \in Ks(c) : Feasible(c, baseline, k)}
  IN  IF feasible # {} THEN Candidate(c, baseline, Min(feasible))
      ELSE Min({Candidate(c, baseline, k) : k \in Ks(c)})

-----------------------------------------------------------------------------
(* The whole computation.  It reverts when the history is too long or has  *)
(* too many contributing counterparties, and returns a limit otherwise.    *)

Evaluates(history, p) ==
  /\ Len(history) <= MaxHistory
  /\ Cardinality(Counterparties(history, p)) <= MaxCounterparties

Least(a, b) == IF a < b THEN a ELSE b

\* Mutant: the Bond cap left out on the path without growth.
LimitBaselineUncapped(history, bonds, p) ==
  IF Cardinality(Counterparties(history, p)) < MinCounterparties THEN p.baseline
  ELSE LET c == Contributions(history, p)
       IN  Least(Least(p.baseline + SumSeq(c), _concentrationCapped(c, p.baseline)),
                 bondCap(bonds, p.asset))

creditLimit(history, bonds, p) ==
  LET c == Contributions(history, p)
      cap == bondCap(bonds, p.asset)
  IN  IF Cardinality(Counterparties(history, p)) < MinCounterparties
      THEN Least(p.baseline, cap)
      ELSE Least(Least(p.baseline + SumSeq(c), _concentrationCapped(c, p.baseline)), cap)
=============================================================================
