-------------------------- MODULE MCConcentration --------------------------
(***************************************************************************)
(* The concentration cap alone, over every descending sequence of at most  *)
(* MaxN contributions up to MaxC.  A step is one of the two things that an *)
(* appended record can do to the contributions: raise one of them, or add  *)
(* one for a new counterparty.  MCLimitLib puts this beside whole          *)
(* histories.                                                              *)
(***************************************************************************)
EXTENDS LimitLib, TLC

CONSTANTS MaxN, MaxC, Baselines

ASSUME CapAssumption == MaxN \in Nat /\ MaxC \in Nat /\ Baselines \subseteq Nat

VARIABLES c, baseline

capVars == <<c, baseline>>

CapInit == c = <<>> /\ baseline \in Baselines

NewCounterparty ==
  /\ Len(c) < MaxN
  /\ \E v \in 0 .. MaxC : c' = Descending(Append(c, v))
  /\ UNCHANGED baseline

Raise ==
  /\ \E j \in DOMAIN c, v \in 1 .. MaxC :
       v > c[j] /\ c' = Descending([c EXCEPT ![j] = v])
  /\ UNCHANGED baseline

CapNext == NewCounterparty \/ Raise

-----------------------------------------------------------------------------

\* L is within what the rule of R13.6 allows: no counterparty counts for more
\* than a quarter of L, and the baseline and what counts add up to L at least.
Allowed(L) ==
  ConcentrationDivisor * L <=
    ConcentrationDivisor * baseline
      + SumSeq([j \in DOMAIN c |-> Least(ConcentrationDivisor * c[j], L)])

\* The closed form of _concentrationCapped is the solution of the equation it
\* is derived from: the greatest integer limit at which every counterparty is
\* counted for at most a quarter of that limit.  Integer flooring never leaves
\* the scan without a feasible candidate, so its fallback is never taken.
ConcentrationIsGreatestAllowed ==
  LET L == _concentrationCapped(c, baseline)
  IN  /\ \E k \in Ks(c) : Feasible(c, baseline, k)
      /\ Allowed(L) /\ \A more \in 1 .. (MaxC + 1) : ~Allowed(L + more)
=============================================================================
