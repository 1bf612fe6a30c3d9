---------------------------- MODULE GrowthProofs ----------------------------
(***************************************************************************)
(* The promises of the credit arithmetic over every growing history and    *)
(* every growing sequence of contributions, whatever the constants.        *)
(***************************************************************************)
EXTENDS MCLimitLib, LimitProofs

Records ==
  [serviceId : Services, asset : {AssetA, AssetB}, amount : Nat, settledAt : Nat,
   firstDeliveryAt : Nat, curated : BOOLEAN, bonded : BOOLEAN]

IInv ==
  /\ history \in Seq(Records) /\ evaluatedAt \in Nat \ {0} /\ stake \in Nat
  /\ c \in Seq(Nat) /\ IsDescending(c) /\ baseline \in Nat

LEMMA BondsOK ==
  ASSUME IInv
  PROVE  IsFiniteSet(bonds) /\ \A b \in bonds : b.amount \in Nat
<1> DEFINE A == {[serviceId |-> s, asset |-> AssetA, amount |-> stake] : s \in Services}
           B == {[serviceId |-> s, asset |-> AssetB, amount |-> 50] : s \in Services}
           a == [s \in Services |-> [serviceId |-> s, asset |-> AssetA, amount |-> stake]]
           b == [s \in Services |-> [serviceId |-> s, asset |-> AssetB, amount |-> 50]]
<1>1. a \in Surjection(Services, A) /\ b \in Surjection(Services, B)
  BY DEF Surjection
<1>2. IsFiniteSet(Services)
  BY GrowthAssumption
<1>3. bonds = A \cup B
  BY DEF bonds
<1>4. (\A x \in A : x.amount \in Nat) /\ (\A x \in B : x.amount \in Nat)
  BY DEF IInv
<1> HIDE DEF A, B, a, b
<1>5. IsFiniteSet(A) /\ IsFiniteSet(B)
  BY <1>1, <1>2, FS_Surjection
<1>6. IsFiniteSet(A \cup B)
  BY <1>5, FS_Union
<1> QED BY <1>3, <1>4, <1>6

LEMMA RecordsOK ==
  ASSUME NEW h \in Seq(Records)
  PROVE  /\ IsHistory(h) /\ Len(h) \in Nat /\ DOMAIN h = 1 .. Len(h)
         /\ \A i \in DOMAIN h : h[i] \in Records
<1>1. Len(h) \in Nat /\ DOMAIN h = 1 .. Len(h) /\ \A i \in DOMAIN h : h[i] \in Records
  OBVIOUS
<1>2. \A r \in Records : r.amount \in Nat /\ r.settledAt \in Int
  BY DEF Records
<1> QED BY <1>1, <1>2 DEF IsHistory

LEMMA ParamsOK ==
  ASSUME NEW at \in Nat
  PROVE  /\ IsParams(Params(at)) /\ Params(at).evaluatedAt = at
         /\ Params(at).baseline = Baseline /\ Params(at).asset = AssetA
         /\ Params(at).growthFactorBps = GrowthFactorBps
BY GrowthAssumption DEF IsParams, Params

\* The sort changes neither the contributions nor what they are counted for.
LEMMA DescendingCounts ==
  ASSUME NEW s \in Seq(Nat), NEW X \in Nat
  PROVE  /\ Descending(s) \in Seq(Nat) /\ IsDescending(Descending(s))
         /\ SumOf(DOMAIN Descending(s), Counted(Descending(s), X)) = SumOf(DOMAIN s, Counted(s, X))
<1> DEFINE n == Len(s)
           d == Descending(s)
           N == 1 .. n
<1>1. n \in Nat /\ s \in [1 .. n -> Nat] /\ DOMAIN s = N
  OBVIOUS
<1> HIDE DEF n
<1>2. PICK f \in Bijection(1 .. n, 1 .. n) :
        /\ DOMAIN d = 1 .. n
        /\ \A k \in 1 .. n : d[k] = s[f[k]]
        /\ \A i, j \in 1 .. n : i <= j => s[f[i]] >= s[f[j]]
  <2> HIDE DEF d
  <2> QED BY <1>1, DescendingOK DEF d
<1>3. \A k \in N : f[k] \in N /\ s[f[k]] \in Nat /\ d[k] = s[f[k]] /\ d[k] \in Nat
  <2>1. \A k \in N : f[k] \in N
    BY <1>2 DEF Bijection, Injection
  <2> HIDE DEF d, N
  <2> QED BY <1>1, <1>2, <2>1 DEF N
<1>4. d \in Seq(Nat)
  <2>1. d = [k \in 1 .. n |-> d[k]]
    BY <1>2 DEF Descending
  <2> HIDE DEF d
  <2>2. d \in [1 .. n -> Nat]
    BY <1>3, <2>1
  <2> QED BY <1>1, <2>2
<1> HIDE DEF d, N
<1>5. IsDescending(d)
  BY <1>2, <1>3 DEF IsDescending, N
<1>6. SumOf(DOMAIN d, Counted(d, X)) = SumOf(DOMAIN s, Counted(s, X))
  <2> DEFINE v == Counted(d, X)
             w == Counted(s, X)
  <2>1. f \in Bijection(N, N) /\ IsFiniteSet(N) /\ DOMAIN d = N
    BY <1>1, <1>2, CountedType DEF N
  <2>2. (\A k \in N : v[k] = w[f[k]]) /\ \A k \in N : v[k] \in Nat
    <3>1. \A k \in N : v[k] \in Nat
      BY <1>4, <2>1, CountedType
    <3>2. \A k \in N : v[k] = w[f[k]]
      BY <1>1, <1>3, <2>1 DEF Counted
    <3> QED BY <3>1, <3>2
  <2> HIDE DEF v, w
  <2>3. SumOf(N, v) = SumOf(N, w)
    BY ONLY <2>1, <2>2, SumReordered
  <2> QED BY <1>1, <2>1, <2>3 DEF v, w
<1> QED BY <1>4, <1>5, <1>6 DEF d

\* What a step makes of the contributions is counted for no less.
LEMMA CapGrows ==
  ASSUME IInv, CapNext
  PROVE  /\ c' \in Seq(Nat) /\ IsDescending(c') /\ baseline' = baseline
         /\ \A X \in Nat : SumOf(DOMAIN c, Counted(c, X)) <= SumOf(DOMAIN c', Counted(c', X))
<1>1. PICK s \in Seq(Nat) :
        /\ c' = Descending(s) /\ DOMAIN c \subseteq DOMAIN s
        /\ \A i \in DOMAIN c : c[i] <= s[i]
  <2>1. CASE NewCounterparty
    <3>1. PICK v \in 0 .. MaxC : c' = Descending(Append(c, v))
      BY <2>1 DEF NewCounterparty
    <3>2. v \in Nat
      BY CapAssumption
    <3>3. /\ Append(c, v) \in Seq(Nat) /\ DOMAIN c \subseteq DOMAIN Append(c, v)
          /\ \A i \in DOMAIN c : c[i] <= Append(c, v)[i]
      BY <3>2 DEF IInv
    <3> QED BY <3>1, <3>3
  <2>2. CASE Raise
    <3>1. PICK j \in DOMAIN c, v \in 1 .. MaxC :
            v > c[j] /\ c' = Descending([c EXCEPT ![j] = v])
      BY <2>2 DEF Raise
    <3>2. v \in Nat
      BY CapAssumption
    <3> DEFINE s == [c EXCEPT ![j] = v]
    <3>3. s \in Seq(Nat) /\ DOMAIN c \subseteq DOMAIN s
      BY <3>2 DEF IInv
    <3>4. \A i \in DOMAIN c : c[i] <= s[i]
      BY <3>1, <3>2 DEF IInv
    <3> QED BY <3>1, <3>3, <3>4
  <2> QED BY <2>1, <2>2 DEF CapNext
<1>2. c' \in Seq(Nat) /\ IsDescending(c')
  BY <1>1, DescendingCounts, 0 \in Nat
<1>3. baseline' = baseline
  BY DEF CapNext, NewCounterparty, Raise
<1>4. ASSUME NEW X \in Nat
      PROVE  SumOf(DOMAIN c, Counted(c, X)) <= SumOf(DOMAIN c', Counted(c', X))
  <2>1. SumOf(DOMAIN c', Counted(c', X)) = SumOf(DOMAIN s, Counted(s, X))
    BY <1>1, DescendingCounts
  <2> DEFINE C == DOMAIN c
             S == DOMAIN s
             v == Counted(c, X)
             w == Counted(s, X)
  <2>2. IsFiniteSet(S) /\ (\A i \in S : w[i] \in Nat) /\ \A i \in C : v[i] \in Nat
    BY CountedType DEF IInv
  <2>3. C \subseteq S /\ \A i \in C : v[i] <= w[i]
    <3>1. \A i \in C : c[i] \in Nat /\ s[i] \in Nat /\ i \in S
      BY <1>1 DEF IInv
    <3> QED BY <1>1, <3>1 DEF Counted, Least, ConcentrationDivisor
  <2> HIDE DEF C, S, v, w
  <2>4. SumOf(C, v) <= SumOf(S, w)
    <3>1. \A i \in C : v[i] \in Int /\ v[i] <= w[i]
      BY <2>2, <2>3
    <3> QED BY <2>2, <2>3, <3>1, SumMonotone
  <2> QED BY <2>1, <2>4 DEF C, S, v, w
<1> QED BY <1>2, <1>3, <1>4

-----------------------------------------------------------------------------
LEMMA SettlesOK ==
  ASSUME IInv, Settle
  PROVE  /\ history' \in Seq(Records) /\ UNCHANGED <<evaluatedAt, stake>>
         /\ \A i \in DOMAIN history : i \in DOMAIN history' /\ history'[i] = history[i]
<1>1. PICK r \in Records : history' = Append(history, r)
  <2>1. CASE SettleEligible
    <3>1. PICK s \in Services, amount \in Amounts :
            history' = Append(history, Record(s, amount, AssetA, 1, TRUE, TRUE))
      BY <2>1 DEF SettleEligible
    <3>2. Record(s, amount, AssetA, 1, TRUE, TRUE) \in Records
      BY GrowthAssumption DEF IInv, Record, Records
    <3> QED BY <3>1, <3>2
  <2>2. CASE SettleIneligible
    <3> DEFINE amount == CHOOSE a \in Amounts : \A b \in Amounts : b <= a
    <3>1. amount \in Nat
      BY GrowthAssumption
    <3> HIDE DEF amount
    <3>2. PICK s \in Services :
            \E r \in {Record(s, amount, AssetA, 0, TRUE, TRUE),
                     Record(s, amount, AssetA, evaluatedAt, TRUE, TRUE),
                     Record(s, amount, AssetA, 1, FALSE, TRUE),
                     Record(s, amount, AssetA, 1, TRUE, FALSE),
                     Record(s, amount, AssetB, 1, TRUE, TRUE)} :
              history' = Append(history, r)
      BY <2>2 DEF SettleIneligible, amount
    <3>3. \A asset \in {AssetA, AssetB}, first \in Nat, curated, bonded \in BOOLEAN :
            Record(s, amount, asset, first, curated, bonded) \in Records
      BY <3>1 DEF IInv, Record, Records
    <3>4. evaluatedAt \in Nat
      BY DEF IInv
    <3> QED BY <3>2, <3>3, <3>4
  <2> QED BY <2>1, <2>2 DEF Settle
<1>2. history \in Seq(Records)
  BY DEF IInv
<1>3. UNCHANGED <<evaluatedAt, stake>>
  BY DEF Settle
<1>4. /\ Append(history, r) \in Seq(Records)
      /\ \A i \in DOMAIN history :
           i \in DOMAIN Append(history, r) /\ Append(history, r)[i] = history[i]
  BY <1>2
<1> QED BY <1>1, <1>3, <1>4

LEMMA InvariantSteps ==
  ASSUME IInv, [Next]_vars
  PROVE  IInv'
<1>1. CASE Settle /\ UNCHANGED <<subject, capVars>>
  BY <1>1, SettlesOK DEF IInv, capVars
<1>2. CASE Age /\ UNCHANGED <<subject, capVars>>
  <2>1. evaluatedAt' \in Nat \ {0}
    <3>1. evaluatedAt' = evaluatedAt + 15 * Day /\ evaluatedAt \in Nat \ {0} /\ Day \in Nat
      BY <1>2, LimitLibAssumption DEF Age, IInv
    <3> QED BY <3>1
  <2> QED BY <1>2, <2>1 DEF IInv, Age, capVars
<1>3. CASE CapNext /\ UNCHANGED <<subject, historyVars>>
  BY <1>3, CapGrows DEF IInv, historyVars
<1>4. CASE UNCHANGED vars
  BY <1>4 DEF IInv, vars, historyVars, capVars
<1> QED BY <1>1, <1>2, <1>3, <1>4 DEF Next

THEOREM Invariant == Spec => []IInv
<1>1. Init => IInv
  <2> SUFFICES ASSUME Init PROVE IInv
    OBVIOUS
  <2>1. history \in Seq(Records) /\ evaluatedAt \in Nat \ {0}
    BY DEF Init
  <2>2. c = <<>> /\ baseline \in Nat /\ stake \in Nat
    <3>1. CASE stake \in Stakes /\ c = <<>> /\ baseline = Baseline
      BY <3>1, GrowthAssumption
    <3>2. CASE stake = 0 /\ CapInit
      BY <3>2, CapAssumption DEF CapInit
    <3> QED BY <3>1, <3>2 DEF Init
  <2> QED BY <2>1, <2>2 DEF IInv, IsDescending
<1>2. IInv /\ [Next]_vars => IInv'
  BY InvariantSteps
<1> QED BY <1>1, <1>2, PTL DEF Spec

-----------------------------------------------------------------------------
LEMMA AllowedIs ==
  ASSUME IInv, NEW L \in Nat
  PROVE  Allowed(L) <=> AllowedBy(c, baseline, L)
<1>1. SumSeq(Counted(c, L)) = SumOf(1 .. Len(c), Counted(c, L))
  <2>1. Len(c) \in Nat /\ DOMAIN c = 1 .. Len(c) /\ DOMAIN Counted(c, L) = DOMAIN c
    BY DEF IInv, Counted
  <2>2. \A i \in 1 .. Len(c) : Counted(c, L)[i] \in Nat
    BY <2>1, CountedType DEF IInv
  <2> QED BY <2>1, <2>2, SumSeqIs
<1>2. DOMAIN c = 1 .. Len(c)
  BY DEF IInv
<1> QED BY <1>1, <1>2 DEF Allowed, AllowedBy, Counted

\* R13.6: the closed form of _concentrationCapped is the greatest limit at which
\* every counterparty is counted for at most a quarter of it, and its scan never
\* falls through, for every descending sequence of contributions.
THEOREM GreatestAllowed == Spec => []ConcentrationIsGreatestAllowed
<1>1. IInv => ConcentrationIsGreatestAllowed
  <2> SUFFICES ASSUME IInv PROVE ConcentrationIsGreatestAllowed
    OBVIOUS
  <2> DEFINE L == _concentrationCapped(c, baseline)
  <2>1. c \in Seq(Nat) /\ IsDescending(c) /\ baseline \in Nat
    BY DEF IInv
  <2>2. Solves(c, baseline, L)
    BY <2>1, CappedSolves
  <2>3. \E k \in Ks(c) : Feasible(c, baseline, k)
    BY <2>1, ScanFinds
  <2> HIDE DEF L
  <2>4. L \in Nat /\ Allowed(L)
    BY <2>2, AllowedIs DEF Solves
  <2>5. ASSUME NEW more \in 1 .. (MaxC + 1) PROVE ~Allowed(L + more)
    <3>1. L + more \in Nat /\ L + more > L
      BY <2>4, CapAssumption
    <3>2. ~AllowedBy(c, baseline, L + more)
      BY <2>2, <3>1 DEF Solves
    <3> QED BY <3>1, <3>2, AllowedIs
  <2> QED BY <2>3, <2>4, <2>5 DEF ConcentrationIsGreatestAllowed, L
<1> QED BY <1>1, Invariant, PTL

\* R13.5: truncation never makes it worth while to split a payment in two.
THEOREM SplittingPaysNothing == Spec => []SplittingNeverRaises
<1>1. IInv => SplittingNeverRaises
  <2> SUFFICES ASSUME IInv, NEW i \in DOMAIN history, NEW part \in 1 .. (history[i].amount - 1)
               PROVE  LET first == [history EXCEPT ![i].amount = part]
                          rest == [history[i] EXCEPT !.amount = @ - part]
                      IN  LimitOn(Append(first, rest), evaluatedAt) <= LimitOn(history, evaluatedAt)
    BY DEF SplittingNeverRaises
  <2> DEFINE first == [history EXCEPT ![i].amount = part]
             rest == [history[i] EXCEPT !.amount = @ - part]
             g == Append(first, rest)
             n == Len(history)
  <2>1. /\ history \in Seq(Records) /\ evaluatedAt \in Nat /\ n \in Nat
        /\ DOMAIN history = 1 .. n /\ history[i] \in Records
    BY RecordsOK DEF IInv
  <2>2. /\ part \in Nat /\ history[i].amount \in Nat /\ history[i].amount - part \in Nat
        /\ history[i].amount = part + (history[i].amount - part)
    BY <2>1 DEF Records
  <2> DEFINE less == [history[i] EXCEPT !.amount = part]
  <2>3. less \in Records /\ rest \in Records
    BY <2>1, <2>2 DEF Records
  <2>4. first = [history EXCEPT ![i] = less]
    OBVIOUS
  <2>5. /\ g \in Seq(Records) /\ Len(g) = n + 1
        /\ \A j \in DOMAIN history \ {i} : g[j] = history[j]
        /\ g[i] = less /\ g[Len(g)] = rest
    <3> HIDE DEF less, rest
    <3>1. first \in Seq(Records) /\ Len(first) = n
      BY <2>1, <2>3, <2>4
    <3>2. /\ first[i] = less
          /\ \A j \in DOMAIN history \ {i} : first[j] = history[j]
      BY <2>1, <2>4
    <3> HIDE DEF first
    <3> QED BY <2>1, <2>3, <3>1, <3>2
  <2>6. \A r \in {less, rest} :
          /\ r.serviceId = history[i].serviceId /\ r.asset = history[i].asset
          /\ r.curated = history[i].curated /\ r.bonded = history[i].bonded
          /\ r.settledAt = history[i].settledAt
          /\ r.firstDeliveryAt = history[i].firstDeliveryAt
    BY <2>1 DEF Records
  <2>7. less.amount = part /\ rest.amount = history[i].amount - part
    BY <2>1 DEF Records
  <2>8. IsHistory(history) /\ IsHistory(g) /\ IsParams(Params(evaluatedAt))
    <3> HIDE DEF g
    <3> QED BY <2>1, <2>5, RecordsOK, ParamsOK
  <2>9. IsFiniteSet(bonds) /\ \A b \in bonds : b.amount \in Nat
    BY BondsOK
  <2> HIDE DEF g, less, rest, first, n
  <2>10. /\ Len(g) = Len(history) + 1
         /\ \A j \in {i, Len(g)} :
              /\ g[j].serviceId = history[i].serviceId /\ g[j].asset = history[i].asset
              /\ g[j].curated = history[i].curated /\ g[j].bonded = history[i].bonded
              /\ g[j].settledAt = history[i].settledAt
              /\ g[j].firstDeliveryAt = history[i].firstDeliveryAt
         /\ history[i].amount = g[i].amount + g[Len(g)].amount
    BY <2>2, <2>5, <2>6, <2>7 DEF n
  <2>11. creditLimit(g, bonds, Params(evaluatedAt))
           <= creditLimit(history, bonds, Params(evaluatedAt))
    BY <2>5, <2>8, <2>9, <2>10, SplitsShrink
  <2> QED BY <2>11 DEF LimitOn, g, first, rest
<1> QED BY <1>1, Invariant, PTL

\* R13.8 and R13.4: no settlement and no passing of time lowers the limit, and no
\* contribution that is raised or added lowers what the concentration cap gives.
THEOREM NeverFalls == Spec => LimitNeverFalls
<1>1. IInv /\ [Next]_vars =>
        [/\ LimitOn(history', evaluatedAt') >= LimitOn(history, evaluatedAt)
         /\ _concentrationCapped(c', baseline') >= _concentrationCapped(c, baseline)]_vars
  <2> SUFFICES ASSUME IInv, Next
               PROVE  /\ LimitOn(history', evaluatedAt') >= LimitOn(history, evaluatedAt)
                      /\ _concentrationCapped(c', baseline') >= _concentrationCapped(c, baseline)
    OBVIOUS
  <2>1. IInv'
    BY InvariantSteps
  <2> DEFINE p == Params(evaluatedAt)
             q == Params(evaluatedAt')
  <2>2. /\ IsHistory(history) /\ IsHistory(history') /\ IsParams(p) /\ IsParams(q)
        /\ p.baseline = q.baseline /\ p.asset = q.asset
        /\ p.growthFactorBps = q.growthFactorBps
        /\ p.evaluatedAt = evaluatedAt /\ q.evaluatedAt = evaluatedAt'
        /\ evaluatedAt \in Nat /\ evaluatedAt' \in Nat
    BY <2>1, RecordsOK, ParamsOK DEF IInv
  <2>3. IsFiniteSet(bonds) /\ \A b \in bonds : b.amount \in Nat
    BY BondsOK
  <2>4. /\ \A i \in DOMAIN history : i \in DOMAIN history' /\ history'[i] = history[i]
        /\ evaluatedAt <= evaluatedAt' /\ stake' = stake
    <3>1. CASE Settle
      BY <2>2, <3>1, SettlesOK
    <3>2. CASE Age
      <4>1. 15 * Day \in Nat
        BY LimitLibAssumption
      <4> QED BY <2>2, <3>2, <4>1 DEF Age
    <3>3. CASE UNCHANGED historyVars
      BY <2>2, <3>3 DEF historyVars
    <3> QED BY <3>1, <3>2, <3>3 DEF Next
  <2>5. /\ LimitOn(history, evaluatedAt) \in Nat /\ LimitOn(history', evaluatedAt') \in Nat
        /\ LimitOn(history, evaluatedAt) <= LimitOn(history', evaluatedAt')
    <3>1. bonds' = bonds
      BY <2>4 DEF bonds
    <3> HIDE DEF p, q
    <3>2. p.evaluatedAt <= q.evaluatedAt
      BY <2>2, <2>4
    <3>3. creditLimit(history, bonds, p) <= creditLimit(history', bonds, q)
      BY <2>2, <2>3, <2>4, <3>2, HistoryGrows
    <3>4. creditLimit(history, bonds, p) \in Nat /\ creditLimit(history', bonds, q) \in Nat
      BY <2>2, <2>3, LimitType
    <3> QED BY <3>1, <3>3, <3>4 DEF LimitOn, p, q
  <2>6. /\ _concentrationCapped(c, baseline) \in Nat
        /\ _concentrationCapped(c', baseline') \in Nat
        /\ _concentrationCapped(c, baseline) <= _concentrationCapped(c', baseline')
    <3>1. c \in Seq(Nat) /\ IsDescending(c) /\ baseline \in Nat
      BY DEF IInv
    <3>2. CASE CapNext
      <4>1. /\ c' \in Seq(Nat) /\ IsDescending(c') /\ baseline' = baseline
            /\ \A X \in Nat : SumOf(DOMAIN c, Counted(c, X)) <= SumOf(DOMAIN c', Counted(c', X))
        BY <3>2, CapGrows
      <4>2. _concentrationCapped(c, baseline) <= _concentrationCapped(c', baseline)
        BY <3>1, <4>1, CappedGrows
      <4>3. /\ _concentrationCapped(c, baseline) \in Nat
            /\ _concentrationCapped(c', baseline) \in Nat
        BY <3>1, <4>1, CappedAbove
      <4> QED BY <4>1, <4>2, <4>3
    <3>3. CASE UNCHANGED capVars
      <4>1. _concentrationCapped(c, baseline) \in Nat
        BY <3>1, CappedAbove
      <4>2. c' = c /\ baseline' = baseline
        BY <3>3 DEF capVars
      <4> QED BY <4>1, <4>2
    <3> QED BY <3>2, <3>3 DEF Next
  <2> QED BY <2>5, <2>6
<1> QED BY <1>1, Invariant, PTL DEF LimitNeverFalls, Spec
=============================================================================
