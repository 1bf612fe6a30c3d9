---------------------------- MODULE LimitProofs ----------------------------
(***************************************************************************)
(* What TLAPS proves of LimitLib, for every history, every set of Bonds    *)
(* and every parameter: the facts that the proofs about TabBook and about  *)
(* growing histories rest on.                                              *)
(***************************************************************************)
EXTENDS LimitLib, UnitSums, FiniteSetTheorems, SequenceTheorems, WellFoundedInduction, TLAPS

-----------------------------------------------------------------------------
(* How the sums of UnitSums change with the amounts they add up.           *)

\* A column has as many elements as it has numbers.
LEMMA Column ==
  ASSUME NEW s, NEW I, IsFiniteSet(I)
  PROVE  IsFiniteSet({s} \X I) /\ Cardinality({s} \X I) = Cardinality(I)
<1>1. IsFiniteSet({s}) /\ Cardinality({s}) = 1
  BY FS_Singleton
<1>2. IsFiniteSet({s} \X I) /\ Cardinality({s} \X I) = Cardinality({s}) * Cardinality(I)
  BY <1>1, FS_Product
<1>3. Cardinality(I) \in Nat
  BY FS_CardinalityType
<1> QED BY <1>1, <1>2, <1>3

\* There are n numbers from m + 1 to m + n.
LEMMA Interval ==
  ASSUME NEW m \in Nat, NEW k \in Nat, m <= k
  PROVE  IsFiniteSet((m + 1) .. k) /\ Cardinality((m + 1) .. k) = k - m
<1>1. m + 1 \in Int /\ k \in Int
  OBVIOUS
<1>2. /\ IsFiniteSet((m + 1) .. k)
      /\ Cardinality((m + 1) .. k) = IF m + 1 > k THEN 0 ELSE k - (m + 1) + 1
  BY <1>1, FS_Interval
<1> QED BY <1>2

\* The numbers of elements of disjoint finite sets add up.
LEMMA DisjointUnion ==
  ASSUME NEW A, IsFiniteSet(A), NEW B, IsFiniteSet(B), A \cap B = {}
  PROVE  Cardinality(A \cup B) = Cardinality(A) + Cardinality(B)
<1>1. Cardinality(A) \in Nat /\ Cardinality(B) \in Nat
  BY FS_CardinalityType
<1>2. Cardinality(A \cup B) = Cardinality(A) + Cardinality(B) - Cardinality(A \cap B)
  BY FS_Union
<1>3. Cardinality(A \cap B) = 0
  BY FS_EmptySet
<1> QED BY <1>1, <1>2, <1>3

\* The units of finitely many natural amounts are finitely many.
LEMMA UnitsFinite ==
  ASSUME NEW S, IsFiniteSet(S), NEW f, \A s \in S : f[s] \in Nat
  PROVE  IsFiniteSet(UnitsIn(S, f)) /\ SumOf(S, f) \in Nat
<1> DEFINE Cols == {{s} \X (1 .. f[s]) : s \in S}
<1>1. \A T \in Cols : IsFiniteSet(T)
  <2>1. SUFFICES ASSUME NEW s \in S PROVE IsFiniteSet({s} \X (1 .. f[s]))
    OBVIOUS
  <2>2. f[s] \in Int /\ 1 \in Int
    OBVIOUS
  <2>3. IsFiniteSet(1 .. f[s])
    BY <2>2, FS_Interval
  <2>4. IsFiniteSet({s})
    BY FS_Singleton
  <2> QED BY <2>3, <2>4, FS_Product
<1>2. IsFiniteSet(Cols)
  <2>1. [s \in S |-> {s} \X (1 .. f[s])] \in Surjection(S, Cols)
    BY DEF Surjection
  <2> QED BY <2>1, FS_Surjection
<1> QED BY <1>1, <1>2, FS_UNION, FS_CardinalityType DEF UnitsIn, SumOf

\* Raising one amount raises the sum by as much.
LEMMA SumGrows ==
  ASSUME NEW S, IsFiniteSet(S), NEW f, NEW g, \A u \in S : f[u] \in Nat,
         NEW s \in S, g[s] \in Nat, f[s] <= g[s], \A u \in S \ {s} : g[u] = f[u]
  PROVE  SumOf(S, g) = SumOf(S, f) + (g[s] - f[s])
<1> DEFINE I == (f[s] + 1) .. g[s]
<1>1. IsFiniteSet(UnitsIn(S, f))
  BY UnitsFinite
<1>2. UnitsIn(S, f) \cap ({s} \X I) = {}
  BY DEF UnitsIn
<1>3. UnitsIn(S, g) = UnitsIn(S, f) \cup ({s} \X I)
  <2>1. \A u, i : <<u, i>> \in UnitsIn(S, f) <=> u \in S /\ i \in 1 .. f[u]
    BY DEF UnitsIn
  <2>2. \A u, i : <<u, i>> \in UnitsIn(S, g) <=> u \in S /\ i \in 1 .. g[u]
    BY DEF UnitsIn
  <2>3. \A i : i \in 1 .. g[s] <=> i \in 1 .. f[s] \/ i \in I
    OBVIOUS
  <2>4. \A u, i : <<u, i>> \in UnitsIn(S, g) <=> <<u, i>> \in UnitsIn(S, f) \cup ({s} \X I)
    BY <2>1, <2>2, <2>3
  <2>5. \A e \in UnitsIn(S, g) : \E u, i : e = <<u, i>>
    BY DEF UnitsIn
  <2>6. \A e \in UnitsIn(S, f) \cup ({s} \X I) : \E u, i : e = <<u, i>>
    BY DEF UnitsIn
  <2> QED BY <2>4, <2>5, <2>6
<1>4. IsFiniteSet(I) /\ Cardinality(I) = g[s] - f[s]
  BY Interval
<1> HIDE DEF I
<1>5. IsFiniteSet({s} \X I) /\ Cardinality({s} \X I) = g[s] - f[s]
  BY <1>4, Column
<1> QED BY <1>1, <1>2, <1>3, <1>5, DisjointUnion DEF SumOf

\* Changing one amount changes the sum by as much.
LEMMA SumChanges ==
  ASSUME NEW S, IsFiniteSet(S), NEW f, NEW g, \A u \in S : f[u] \in Nat,
         NEW s \in S, g[s] \in Nat, \A u \in S \ {s} : g[u] = f[u]
  PROVE  SumOf(S, g) = SumOf(S, f) + (g[s] - f[s])
<1>1. CASE f[s] <= g[s]
  BY <1>1, SumGrows
<1>2. CASE g[s] <= f[s]
  <2>1. \A u \in S : g[u] \in Nat
    OBVIOUS
  <2>2. \A u \in S \ {s} : f[u] = g[u]
    OBVIOUS
  <2>3. f[s] \in Nat
    OBVIOUS
  <2>4. SumOf(S, f) = SumOf(S, g) + (f[s] - g[s])
    BY <1>2, <2>1, <2>2, <2>3, SumGrows
  <2>5. SumOf(S, g) \in Nat
    BY <2>1, UnitsFinite
  <2> QED BY <2>3, <2>4, <2>5
<1> QED BY <1>1, <1>2

\* A new element adds its amount to the sum.
LEMMA SumOfOneMore ==
  ASSUME NEW S, IsFiniteSet(S), NEW f, NEW g, \A u \in S : f[u] \in Nat,
         NEW s, s \notin S, g[s] \in Nat, \A u \in S : g[u] = f[u]
  PROVE  SumOf(S \cup {s}, g) = SumOf(S, f) + g[s]
<1>1. IsFiniteSet(UnitsIn(S, f))
  BY UnitsFinite
<1>2. UnitsIn(S, f) \cap ({s} \X (1 .. g[s])) = {}
  BY DEF UnitsIn
<1>3. UnitsIn(S \cup {s}, g) = UnitsIn(S, f) \cup ({s} \X (1 .. g[s]))
  <2>1. UnitsIn(S \cup {s}, g) = UnitsIn(S, g) \cup ({s} \X (1 .. g[s]))
    BY DEF UnitsIn
  <2>2. UnitsIn(S, g) = UnitsIn(S, f)
    BY DEF UnitsIn
  <2> QED BY <2>1, <2>2
<1>4. IsFiniteSet(1 .. g[s]) /\ Cardinality(1 .. g[s]) = g[s]
  <2>1. 1 \in Int /\ g[s] \in Int
    OBVIOUS
  <2>2. IsFiniteSet(1 .. g[s]) /\ Cardinality(1 .. g[s]) = IF 1 > g[s] THEN 0 ELSE g[s] - 1 + 1
    BY <2>1, FS_Interval
  <2> QED BY <2>2
<1>5. IsFiniteSet({s} \X (1 .. g[s])) /\ Cardinality({s} \X (1 .. g[s])) = g[s]
  <2> DEFINE I == 1 .. g[s]
  <2> HIDE DEF I
  <2>1. IsFiniteSet({s} \X I) /\ Cardinality({s} \X I) = Cardinality(I)
    BY <1>4, Column DEF I
  <2> QED BY <1>4, <2>1 DEF I
<1> QED BY <1>1, <1>2, <1>3, <1>5, DisjointUnion DEF SumOf

\* A sum whose amounts are the same is the same.
LEMMA SumSame ==
  ASSUME NEW S, NEW f, NEW g, \A u \in S : g[u] = f[u]
  PROVE  SumOf(S, g) = SumOf(S, f)
<1>1. UnitsIn(S, g) = UnitsIn(S, f)
  BY DEF UnitsIn
<1> QED BY <1>1 DEF SumOf

\* An amount is part of every sum it is in.
LEMMA SumBounds ==
  ASSUME NEW S, IsFiniteSet(S), NEW f, \A u \in S : f[u] \in Nat, NEW s \in S
  PROVE  f[s] <= SumOf(S, f)
<1> DEFINE g == [u \in S |-> IF u = s THEN 0 ELSE f[u]]
<1>1. \A u \in S : g[u] \in Nat
  OBVIOUS
<1>2. SumOf(S, f) = SumOf(S, g) + f[s]
  <2>1. f[s] \in Nat /\ g[s] = 0
    OBVIOUS
  <2>2. \A u \in S \ {s} : f[u] = g[u]
    OBVIOUS
  <2> HIDE DEF g
  <2>3. SumOf(S, f) = SumOf(S, g) + (f[s] - g[s])
    BY <1>1, <2>1, <2>2, SumChanges
  <2> QED BY <2>1, <2>3
<1>3. SumOf(S, g) \in Nat
  <2> HIDE DEF g
  <2> QED BY <1>1, UnitsFinite
<1> QED BY <1>2, <1>3

\* A sum of nothing is zero.
LEMMA SumOfZeros ==
  ASSUME NEW S, NEW f, \A u \in S : f[u] = 0
  PROVE  SumOf(S, f) = 0
<1>1. UnitsIn(S, f) = {}
  BY DEF UnitsIn
<1> QED BY <1>1, FS_EmptySet DEF SumOf

-----------------------------------------------------------------------------
(* Induction over a finite set, in first-order form: among the subsets     *)
(* that are bad there is one that contains no other.                       *)

LEMMA SmallestBad ==
  ASSUME NEW S, IsFiniteSet(S), NEW Bad \in SUBSET (SUBSET S), Bad # {}
  PROVE  \E T \in Bad : \A U \in Bad : ~(U \subseteq T /\ U # T)
<1>1. Bad \subseteq FiniteSubsetsOf(S)
  BY FS_FiniteSubsetsOfFinite
<1>2. PICK T \in Bad : \A U \in Bad : <<U, T>> \notin StrictSubsetOrdering(S)
  BY <1>1, WFMin, FS_StrictSubsetOrderingWellFounded
<1> QED BY <1>2 DEF StrictSubsetOrdering

\* What holds of the empty set and survives one more element holds of all.
LEMMA OneByOne ==
  ASSUME NEW S, IsFiniteSet(S), NEW Good \in SUBSET (SUBSET S), {} \in Good,
         \A T \in Good : \A x \in S \ T : T \cup {x} \in Good
  PROVE  S \in Good
<1> SUFFICES ASSUME S \notin Good PROVE FALSE
  OBVIOUS
<1> DEFINE Bad == (SUBSET S) \ Good
<1>1. Bad \in SUBSET (SUBSET S) /\ S \in Bad
  OBVIOUS
<1> HIDE DEF Bad
<1>2. PICK T \in Bad : \A U \in Bad : ~(U \subseteq T /\ U # T)
  BY <1>1, SmallestBad
<1>3. T \subseteq S /\ T \notin Good
  BY <1>1, <1>2 DEF Bad
<1>4. PICK x \in T : TRUE
  BY <1>3
<1>5. T \ {x} \in SUBSET S /\ T \ {x} \notin Bad
  BY <1>2, <1>3, <1>4
<1>6. T \ {x} \in Good /\ x \in S \ (T \ {x}) /\ (T \ {x}) \cup {x} = T
  BY <1>3, <1>4, <1>5 DEF Bad
<1>7. (T \ {x}) \cup {x} \in Good
  BY <1>6
<1> QED BY <1>3, <1>6, <1>7

-----------------------------------------------------------------------------
(* Sums.                                                                   *)

\* A fold that adds up the amounts of a set one by one is their sum.
LEMMA FoldIsSum ==
  ASSUME NEW S, IsFiniteSet(S), NEW v, \A s \in S : v[s] \in Nat,
         NEW pick, \A T \in SUBSET S : T # {} => pick[T] \in T,
         NEW it,
         it[{}] = 0,
         \A T \in SUBSET S : T # {} => \/ it[T] = v[pick[T]] + it[T \ {pick[T]}]
                                       \/ it[T] = it[T \ {pick[T]}] + v[pick[T]]
  PROVE  it[S] = SumOf(S, v)
<1> DEFINE Bad == {T \in SUBSET S : it[T] # SumOf(T, v)}
<1> SUFFICES ASSUME Bad # {} PROVE FALSE
  BY DEF Bad
<1>1. Bad \in SUBSET (SUBSET S)
  OBVIOUS
<1>2. PICK T \in Bad : \A U \in Bad : ~(U \subseteq T /\ U # T)
  <2> HIDE DEF Bad
  <2> QED BY <1>1, SmallestBad
<1>3. T \in SUBSET S /\ it[T] # SumOf(T, v)
  BY <1>2
<1>4. T # {}
  <2>1. SumOf({}, v) = 0
    BY SumOfZeros
  <2>2. it[{}] = 0
    OBVIOUS
  <2> QED BY <1>3, <2>1, <2>2
<1> DEFINE x == pick[T]
           U == T \ {x}
<1>5. x \in T /\ U \in SUBSET S /\ (it[T] = v[x] + it[U] \/ it[T] = it[U] + v[x])
  BY <1>3, <1>4
<1>6. it[U] = SumOf(U, v)
  <2>1. U \subseteq T /\ U # T
    BY <1>5
  <2>2. U \notin Bad
    <3> HIDE DEF Bad, U
    <3> QED BY <1>2, <2>1
  <2> QED BY <1>5, <2>2
<1>7. SumOf(T, v) = SumOf(U, v) + v[x]
  <2>1. IsFiniteSet(U) /\ x \notin U /\ U \cup {x} = T /\ v[x] \in Nat /\ \A u \in U : v[u] \in Nat
    BY <1>3, <1>5, FS_Subset
  <2> HIDE DEF U, x
  <2>2. SumOf(U \cup {x}, v) = SumOf(U, v) + v[x]
    BY <2>1, SumOfOneMore
  <2> QED BY <2>1, <2>2
<1>8. SumOf(U, v) \in Nat /\ v[x] \in Nat
  <2>1. IsFiniteSet(U) /\ v[x] \in Nat /\ \A u \in U : v[u] \in Nat
    BY <1>3, <1>5, FS_Subset
  <2> HIDE DEF U, x
  <2> QED BY <2>1, UnitsFinite
<1> HIDE DEF U, x
<1> QED BY <1>3, <1>5, <1>6, <1>7, <1>8

\* A sum taken one out of a set.
LEMMA SumWithout ==
  ASSUME NEW S, IsFiniteSet(S), NEW v, \A s \in S : v[s] \in Nat, NEW x \in S
  PROVE  SumOf(S, v) = v[x] + SumOf(S \ {x}, v)
<1> DEFINE U == S \ {x}
<1>1. IsFiniteSet(U) /\ x \notin U /\ U \cup {x} = S /\ v[x] \in Nat /\ \A u \in U : v[u] \in Nat
  BY FS_Subset
<1> HIDE DEF U
<1>2. SumOf(U \cup {x}, v) = SumOf(U, v) + v[x]
  BY <1>1, SumOfOneMore
<1>3. SumOf(U, v) \in Nat
  BY <1>1, UnitsFinite
<1>4. SumOf(U \cup {x}, v) = SumOf(S, v)
  BY <1>1
<1>5. SumOf(S, v) = v[x] + SumOf(U, v)
  BY <1>1, <1>2, <1>3, <1>4
<1> QED BY <1>5 DEF U

\* A sum over more, of no less, is no less.
LEMMA SumMonotone ==
  ASSUME NEW S, NEW T, IsFiniteSet(T), S \subseteq T, NEW f, NEW g,
         \A u \in S : f[u] \in Int /\ f[u] <= g[u], \A u \in T : g[u] \in Nat
  PROVE  SumOf(S, f) <= SumOf(T, g)
<1>1. UnitsIn(S, f) \subseteq UnitsIn(T, g)
  <2>1. SUFFICES ASSUME NEW u \in S, NEW i \in 1 .. f[u] PROVE <<u, i>> \in UnitsIn(T, g)
    BY DEF UnitsIn
  <2>2. u \in T /\ i \in 1 .. g[u]
    OBVIOUS
  <2> QED BY <2>2 DEF UnitsIn
<1>2. IsFiniteSet(UnitsIn(T, g))
  BY UnitsFinite
<1> QED BY <1>1, <1>2, FS_Subset DEF SumOf

\* The sum over two sets apart is the sum of their sums.
LEMMA SumSplits ==
  ASSUME NEW S, IsFiniteSet(S), NEW T, IsFiniteSet(T), S \cap T = {},
         NEW f, \A u \in S \cup T : f[u] \in Nat
  PROVE  SumOf(S \cup T, f) = SumOf(S, f) + SumOf(T, f)
<1>1. UnitsIn(S \cup T, f) = UnitsIn(S, f) \cup UnitsIn(T, f)
  BY DEF UnitsIn
<1>2. UnitsIn(S, f) \cap UnitsIn(T, f) = {}
  <2>1. ASSUME NEW e \in UnitsIn(S, f), e \in UnitsIn(T, f) PROVE FALSE
    <3>1. e[1] \in S /\ e[1] \in T
      BY <2>1 DEF UnitsIn
    <3> QED BY <3>1
  <2> QED BY <2>1
<1>3. IsFiniteSet(UnitsIn(S, f)) /\ IsFiniteSet(UnitsIn(T, f))
  BY UnitsFinite
<1> QED BY <1>1, <1>2, <1>3, DisjointUnion DEF SumOf

\* A multiple of every amount makes a multiple of the sum.
LEMMA SumOfMultiples ==
  ASSUME NEW S, IsFiniteSet(S), NEW f, \A u \in S : f[u] \in Nat, NEW k \in Nat,
         NEW g, \A u \in S : g[u] = k * f[u]
  PROVE  SumOf(S, g) = k * SumOf(S, f)
<1> DEFINE Good == {T \in SUBSET S : SumOf(T, g) = k * SumOf(T, f)}
<1>1. \A u \in S : g[u] \in Nat
  OBVIOUS
<1>2. {} \in Good
  <2>1. SumOf({}, f) = 0 /\ SumOf({}, g) = 0
    BY SumOfZeros
  <2> QED BY <2>1
<1>3. ASSUME NEW T \in Good, NEW x \in S \ T PROVE T \cup {x} \in Good
  <2>1. T \in SUBSET S /\ IsFiniteSet(T) /\ SumOf(T, g) = k * SumOf(T, f)
    BY FS_Subset
  <2>2. /\ \A u \in T : f[u] \in Nat /\ g[u] \in Nat
        /\ x \notin T /\ f[x] \in Nat /\ g[x] \in Nat /\ g[x] = k * f[x]
    BY <1>1, <2>1
  <2> HIDE DEF Good
  <2>3. SumOf(T \cup {x}, f) = SumOf(T, f) + f[x]
    BY <2>1, <2>2, SumOfOneMore
  <2>4. SumOf(T \cup {x}, g) = SumOf(T, g) + g[x]
    BY <2>1, <2>2, SumOfOneMore
  <2>5. SumOf(T, f) \in Nat
    BY <2>1, <2>2, UnitsFinite
  <2>6. k * (SumOf(T, f) + f[x]) = k * SumOf(T, f) + k * f[x]
    BY <2>2, <2>5
  <2>7. SumOf(T \cup {x}, g) = k * SumOf(T \cup {x}, f)
    BY <2>1, <2>2, <2>3, <2>4, <2>6
  <2> QED BY <2>1, <2>7 DEF Good
<1>4. S \in Good
  <2>1. Good \in SUBSET (SUBSET S)
    OBVIOUS
  <2> HIDE DEF Good
  <2> QED BY <1>2, <1>3, <2>1, OneByOne
<1> QED BY <1>4

\* The sum of one amount for every element.
LEMMA SumOfEqual ==
  ASSUME NEW S, IsFiniteSet(S), NEW a \in Nat, NEW f, \A u \in S : f[u] = a
  PROVE  SumOf(S, f) = Cardinality(S) * a
<1> DEFINE I == 1 .. a
<1>1. IsFiniteSet(I) /\ Cardinality(I) = a
  BY FS_Interval
<1>2. UnitsIn(S, f) = S \X I
  BY DEF UnitsIn
<1> HIDE DEF I
<1>3. Cardinality(S \X I) = Cardinality(S) * Cardinality(I)
  BY <1>1, FS_Product
<1> QED BY <1>1, <1>2, <1>3 DEF SumOf

\* The order in which amounts are listed does not matter.
LEMMA SumReordered ==
  ASSUME NEW S, IsFiniteSet(S), NEW T, NEW h \in Bijection(S, T),
         NEW f, NEW g, \A u \in S : f[u] = g[h[u]], \A u \in S : f[u] \in Nat
  PROVE  SumOf(S, f) = SumOf(T, g)
<1> DEFINE m == [e \in UnitsIn(S, f) |-> <<h[e[1]], e[2]>>]
<1>1. /\ h \in [S -> T]
      /\ \A u, w \in S : h[u] = h[w] => u = w
      /\ \A t \in T : \E u \in S : h[u] = t
  <2>1. h \in Injection(S, T) /\ h \in Surjection(S, T)
    BY DEF Bijection
  <2>2. h \in [S -> T] /\ \A t \in T : \E u \in S : h[u] = t
    BY <2>1 DEF Surjection
  <2>3. \A u, w \in S : h[u] = h[w] => u = w
    BY <2>1, <2>2 DEF Injection, IsInjective
  <2> QED BY <2>2, <2>3
<1>2. \A e : e \in UnitsIn(S, f) <=> \E u \in S : \E i \in 1 .. f[u] : e = <<u, i>>
  BY DEF UnitsIn
<1>3. \A e : e \in UnitsIn(T, g) <=> \E t \in T : \E i \in 1 .. g[t] : e = <<t, i>>
  BY DEF UnitsIn
<1>4. \A e \in UnitsIn(S, f) : m[e] \in UnitsIn(T, g)
  BY <1>1, <1>2, <1>3
<1>5. m \in [UnitsIn(S, f) -> UnitsIn(T, g)]
  BY <1>4
<1>6. ASSUME NEW d \in UnitsIn(S, f), NEW e \in UnitsIn(S, f), m[d] = m[e] PROVE d = e
  <2>1. PICK u \in S : \E i \in 1 .. f[u] : d = <<u, i>>
    BY <1>2
  <2>2. PICK w \in S : \E j \in 1 .. f[w] : e = <<w, j>>
    BY <1>2
  <2>3. PICK i \in 1 .. f[u] : d = <<u, i>>
    BY <2>1
  <2>4. PICK j \in 1 .. f[w] : e = <<w, j>>
    BY <2>2
  <2>5. m[d] = <<h[u], i>> /\ m[e] = <<h[w], j>>
    BY <2>3, <2>4
  <2>6. h[u] = h[w] /\ i = j
    BY <1>6, <2>5
  <2> QED BY <1>1, <2>3, <2>4, <2>6
<1>7. ASSUME NEW e \in UnitsIn(T, g) PROVE \E d \in UnitsIn(S, f) : m[d] = e
  <2>1. PICK t \in T : \E i \in 1 .. g[t] : e = <<t, i>>
    BY <1>3
  <2>2. PICK i \in 1 .. g[t] : e = <<t, i>>
    BY <2>1
  <2>3. PICK u \in S : h[u] = t
    BY <1>1
  <2>4. <<u, i>> \in UnitsIn(S, f)
    BY <1>2, <2>2, <2>3
  <2>5. m[<<u, i>>] = e
    BY <2>2, <2>3, <2>4
  <2> QED BY <2>4, <2>5
<1>8. IsFiniteSet(UnitsIn(S, f))
  BY UnitsFinite
<1> HIDE DEF m
<1>9. m \in Bijection(UnitsIn(S, f), UnitsIn(T, g))
  BY <1>5, <1>6, <1>7 DEF Bijection, Injection, IsInjective, Surjection
<1> QED BY <1>8, <1>9, FS_Bijection DEF SumOf, ExistsBijection

LEMMA BondSumIs ==
  ASSUME NEW bonds, IsFiniteSet(bonds), NEW asset, \A b \in bonds : b.amount \in Nat
  PROVE  BondSum(bonds, asset) =
           SumOf({b \in bonds : b.asset = asset}, [b \in bonds |-> b.amount])
<1> DEFINE S == {b \in bonds : b.asset = asset}
           v == [b \in bonds |-> b.amount]
           Pick(T) == CHOOSE x \in T : TRUE
           pick == [T \in SUBSET S |-> Pick(T)]
           Adds(it) == it = [T \in SUBSET S |->
                               IF T = {} THEN 0 ELSE Pick(T).amount + it[T \ {Pick(T)}]]
           it == CHOOSE it : Adds(it)
<1>1. IsFiniteSet(S) /\ \A s \in S : v[s] = s.amount /\ v[s] \in Nat
  BY FS_Subset
<1>2. \A T \in SUBSET S : T # {} => Pick(T) \in T
  OBVIOUS
<1>3. \A T \in SUBSET S : pick[T] = Pick(T)
  OBVIOUS
<1>4. BondSum(bonds, asset) = it[S]
  BY DEF BondSum, MapThenSumSet, MapThenFoldSet
<1> HIDE DEF S, v, Pick, pick, it
<1>5. Adds([T \in SUBSET S |-> SumOf(T, v)])
  <2> DEFINE w == [T \in SUBSET S |-> SumOf(T, v)]
  <2>1. ASSUME NEW T \in SUBSET S
        PROVE  w[T] = IF T = {} THEN 0 ELSE Pick(T).amount + w[T \ {Pick(T)}]
    <3>1. CASE T = {}
      BY <3>1, SumOfZeros
    <3>2. CASE T # {}
      <4>1. Pick(T) \in T /\ IsFiniteSet(T) /\ \A s \in T : v[s] \in Nat
        BY <1>1, <1>2, <3>2, FS_Subset
      <4>2. v[Pick(T)] = Pick(T).amount
        BY <1>1, <4>1
      <4>3. SumOf(T, v) = v[Pick(T)] + SumOf(T \ {Pick(T)}, v)
        BY <4>1, SumWithout
      <4> QED BY <3>2, <4>2, <4>3
    <3> QED BY <3>1, <3>2
  <2> QED BY <2>1
<1>6. Adds(it)
  <2> HIDE DEF Adds
  <2> QED BY <1>5 DEF it
<1>7. ASSUME NEW T \in SUBSET S
      PROVE  it[T] = IF T = {} THEN 0 ELSE v[pick[T]] + it[T \ {pick[T]}]
  <2>1. T # {} => v[pick[T]] = Pick(T).amount
    BY <1>1, <1>2, <1>3
  <2>2. it[T] = IF T = {} THEN 0 ELSE Pick(T).amount + it[T \ {Pick(T)}]
    BY <1>6
  <2> QED BY <1>3, <2>1, <2>2
<1>8. \A T \in SUBSET S : T # {} => pick[T] \in T
  BY <1>2, <1>3
<1> HIDE DEF Adds
<1>9. it[S] = SumOf(S, v)
  <2>1. \A s \in S : v[s] \in Nat
    BY <1>1
  <2>2. /\ it[{}] = 0
        /\ \A T \in SUBSET S : T # {} => it[T] = v[pick[T]] + it[T \ {pick[T]}]
    BY <1>7
  <2>3. IsFiniteSet(S)
    BY <1>1
  <2> QED BY ONLY <1>8, <2>1, <2>2, <2>3, FoldIsSum
<1> QED BY <1>4, <1>9 DEF S, v

\* Any set of naturals that is not empty has a least element.
LEMMA LeastElement ==
  ASSUME NEW T \in SUBSET Nat, T # {}
  PROVE  \E x \in T : \A y \in T : x <= y
<1>1. PICK x \in T : \A y \in T : <<y, x>> \notin OpToRel(<, Nat)
  BY WFMin, NatLessThanWellFounded
<1>2. ASSUME NEW y \in T PROVE x <= y
  <2>1. ~(y < x) BY <1>1 DEF OpToRel
  <2> QED BY <2>1
<1> QED BY <1>2

\* A bounded one has a greatest, too.
LEMMA GreatestElement ==
  ASSUME NEW n \in Nat, NEW T \in SUBSET (0 .. n), T # {}
  PROVE  \E x \in T : \A y \in T : x >= y
<1> DEFINE R == {m \in Nat : n - m \in T}
<1>1. R \in SUBSET Nat /\ R # {}
  <2>1. PICK t \in T : TRUE OBVIOUS
  <2>2. n - t \in R BY <2>1
  <2> QED BY <2>2
<1>2. PICK m \in R : \A y \in R : m <= y
  <2> HIDE DEF R
  <2> QED BY <1>1, LeastElement
<1>3. n - m \in T /\ m \in Nat
  BY <1>2
<1>4. ASSUME NEW y \in T PROVE n - m >= y
  <2>1. y \in Int /\ n - y \in Nat OBVIOUS
  <2>2. n - (n - y) = y BY <2>1
  <2>3. n - y \in R BY <2>1, <2>2
  <2>4. m <= n - y
    <3> HIDE DEF R
    <3> QED BY <1>2, <2>3
  <2> QED BY <1>3, <2>1, <2>4
<1> QED BY <1>3, <1>4

LEMMA SumSeqIs ==
  ASSUME NEW n \in Nat, NEW c, DOMAIN c = 1 .. n, \A i \in 1 .. n : c[i] \in Nat
  PROVE  SumSeq(c) = SumOf(1 .. n, c)
<1> DEFINE S == 1 .. n
           pick == [T \in SUBSET S |-> Max(T)]
           Adds(it) == it = [T \in SUBSET S |->
                               IF T = {} THEN 0 ELSE it[T \ {Max(T)}] + c[Max(T)]]
           it == CHOOSE it : Adds(it)
<1>1. IsFiniteSet(S)
  BY FS_Interval
<1>2. ASSUME NEW T \in SUBSET S, T # {} PROVE Max(T) \in T
  <2>1. T \in SUBSET (0 .. n)
    OBVIOUS
  <2>2. \E x \in T : \A y \in T : x >= y
    BY <1>2, <2>1, GreatestElement
  <2> QED BY <2>2 DEF Max
<1>3. \A T \in SUBSET S : pick[T] = Max(T)
  OBVIOUS
<1>4. SumSeq(c) = it[S]
  BY DEF SumSeq, FoldLeft, MapThenFoldSet
<1>5. \A s \in S : c[s] \in Nat
  OBVIOUS
<1> HIDE DEF S, pick, it
<1>6. Adds([T \in SUBSET S |-> SumOf(T, c)])
  <2> DEFINE w == [T \in SUBSET S |-> SumOf(T, c)]
  <2>1. ASSUME NEW T \in SUBSET S
        PROVE  w[T] = IF T = {} THEN 0 ELSE w[T \ {Max(T)}] + c[Max(T)]
    <3>1. CASE T = {}
      BY <3>1, SumOfZeros
    <3>2. CASE T # {}
      <4>1. Max(T) \in T /\ IsFiniteSet(T) /\ \A s \in T : c[s] \in Nat
        BY <1>1, <1>2, <1>5, <3>2, FS_Subset
      <4> DEFINE U == T \ {Max(T)}
      <4>2. SumOf(T, c) = c[Max(T)] + SumOf(U, c)
        BY <4>1, SumWithout
      <4>3. U \in SUBSET S /\ IsFiniteSet(U) /\ \A s \in U : c[s] \in Nat
        BY <4>1, FS_Subset
      <4>4. SumOf(U, c) \in Nat /\ c[Max(T)] \in Nat
        <5> HIDE DEF U
        <5> QED BY <4>1, <4>3, UnitsFinite
      <4>5. w[T] = SumOf(T, c) /\ w[U] = SumOf(U, c)
        BY <4>3
      <4> HIDE DEF w, U
      <4>6. w[T] = w[U] + c[Max(T)]
        BY <4>2, <4>4, <4>5
      <4> QED BY <3>2, <4>6 DEF U
    <3> QED BY <3>1, <3>2
  <2> QED BY <2>1
<1>7. Adds(it)
  <2> HIDE DEF Adds
  <2> QED BY <1>6 DEF it
<1>8. ASSUME NEW T \in SUBSET S
      PROVE  it[T] = IF T = {} THEN 0 ELSE it[T \ {pick[T]}] + c[pick[T]]
  BY <1>3, <1>7
<1> HIDE DEF Adds
<1>9. it[S] = SumOf(S, c)
  <2>1. \A T \in SUBSET S : T # {} => pick[T] \in T
    BY <1>2, <1>3
  <2>2. /\ it[{}] = 0
        /\ \A T \in SUBSET S : T # {} => it[T] = it[T \ {pick[T]}] + c[pick[T]]
    BY <1>8
  <2> QED BY ONLY <1>1, <1>5, <2>1, <2>2, FoldIsSum, ZenonT(60)
<1> QED BY <1>4, <1>9 DEF S

-----------------------------------------------------------------------------
(* Division.                                                               *)

LEMMA Quotient ==
  ASSUME NEW a \in Int, NEW d \in Nat \ {0}
  PROVE  a \div d \in Int /\ d * (a \div d) <= a /\ a < d * (a \div d) + d
OBVIOUS

\* The quotient is the greatest number whose product is not above.
LEMMA QuotientIs ==
  ASSUME NEW a \in Int, NEW d \in Nat \ {0}, NEW q \in Int
  PROVE  q <= a \div d <=> d * q <= a
<1>1. a \div d \in Int /\ d * (a \div d) <= a /\ a < d * (a \div d) + d
  BY Quotient
<1> DEFINE r == a \div d
<1> HIDE DEF r
<1>2. CASE q <= r
  <2>1. d * q <= d * r
    BY <1>1, <1>2 DEF r
  <2> QED BY <1>1, <1>2, <2>1 DEF r
<1>3. CASE r + 1 <= q
  <2>1. d * (r + 1) <= d * q /\ d * (r + 1) = d * r + d
    BY <1>1, <1>3 DEF r
  <2> QED BY <1>1, <1>3, <2>1 DEF r
<1> QED BY <1>1, <1>2, <1>3 DEF r

LEMMA QuotientMonotone ==
  ASSUME NEW a \in Int, NEW b \in Int, NEW d \in Nat \ {0}, a <= b
  PROVE  a \div d <= b \div d
<1>1. a \div d \in Int /\ d * (a \div d) <= a
  BY Quotient
<1>2. d * (a \div d) <= b
  BY <1>1
<1> QED BY <1>1, <1>2, QuotientIs

LEMMA QuotientNatural ==
  ASSUME NEW a \in Nat, NEW d \in Nat \ {0}
  PROVE  a \div d \in Nat
<1>1. a \div d \in Int /\ (0 <= a \div d <=> d * 0 <= a)
  BY Quotient, QuotientIs
<1> QED BY <1>1

\* Truncation never gains: two parts are worth no more than the whole.
LEMMA QuotientsAdd ==
  ASSUME NEW a \in Int, NEW b \in Int, NEW d \in Nat \ {0}
  PROVE  a \div d + b \div d <= (a + b) \div d
<1>1. /\ a \div d \in Int /\ d * (a \div d) <= a
      /\ b \div d \in Int /\ d * (b \div d) <= b
  BY Quotient
<1>2. d * (a \div d + b \div d) = d * (a \div d) + d * (b \div d)
  BY <1>1
<1>3. a + b \in Int /\ a \div d + b \div d \in Int /\ d * (a \div d + b \div d) <= a + b
  BY <1>1, <1>2
<1> QED BY <1>3, QuotientIs

-----------------------------------------------------------------------------
(* Weights, buckets and contributions.                                     *)

\* The ramp: what a settlement of so many whole days weighs.
LEMMA WeightBounds ==
  ASSUME NEW at \in Int, NEW e \in Int
  PROVE  ageWeightBps(at, e) \in MinWeightBps .. BPS
<1>1. CASE e <= at
  BY <1>1 DEF ageWeightBps, MinWeightBps, BPS
<1>2. CASE at < e
  <2> DEFINE d == (e - at) \div Day
             q == (7500 * d) \div 30
             w == ageWeightBps(at, e)
  <2>1. d \in Nat
    BY <1>2, QuotientNatural, LimitLibAssumption
  <2>2. w = IF d >= 30 THEN 10000 ELSE 2500 + q
    BY <1>2 DEF ageWeightBps, MinWeightBps, BPS, RampSpanBps, RampDays
  <2> HIDE DEF d, w
  <2>3. d < 30 => q \in 0 .. 7500
    BY <2>1
  <2> HIDE DEF q
  <2>4. w \in Int /\ 2500 <= w /\ w <= 10000
    <3>1. CASE d >= 30
      <4>1. w = 10000
        BY <2>2, <3>1
      <4> QED BY <4>1
    <3>2. CASE ~(d >= 30)
      <4>1. w = 2500 + q
        BY <2>2, <3>2
      <4>2. q \in 0 .. 7500
        BY <2>1, <2>3, <3>2
      <4> QED BY <4>1, <4>2
    <3> QED BY <3>1, <3>2
  <2>5. w \in MinWeightBps .. BPS
    BY <2>4 DEF MinWeightBps, BPS
  <2> QED BY <2>5 DEF w
<1> QED BY <1>1, <1>2

\* A settlement never weighs less for being looked at later.
LEMMA WeightGrows ==
  ASSUME NEW at \in Int, NEW e \in Int, NEW f \in Int, e <= f
  PROVE  ageWeightBps(at, e) <= ageWeightBps(at, f)
<1> DEFINE y == ageWeightBps(at, f)
<1>0. y \in MinWeightBps .. BPS
  BY WeightBounds
<1> HIDE DEF y
<1> USE DEF MinWeightBps, BPS, RampSpanBps, RampDays
<1>1. CASE e <= at
  <2>1. ageWeightBps(at, e) = 2500
    BY <1>1 DEF ageWeightBps
  <2>2. 2500 <= y
    BY <1>0
  <2> QED BY <2>1, <2>2 DEF y
<1>2. CASE at < e
  <2> DEFINE d == (e - at) \div Day
             g == (f - at) \div Day
  <2>1. d \in Nat /\ g \in Nat /\ d <= g
    BY <1>2, QuotientNatural, QuotientMonotone, LimitLibAssumption
  <2> HIDE DEF d, g
  <2>2. ageWeightBps(at, e) = IF d >= 30 THEN 10000 ELSE 2500 + (7500 * d) \div 30
    BY <1>2 DEF ageWeightBps, d
  <2>3. ageWeightBps(at, f) = IF g >= 30 THEN 10000 ELSE 2500 + (7500 * g) \div 30
    BY <1>2 DEF ageWeightBps, g
  <2>4. d < 30 => (7500 * d) \div 30 \in 0 .. 7500
    BY <2>1
  <2>5. (7500 * d) \div 30 <= (7500 * g) \div 30
    BY <2>1
  <2>6. (7500 * d) \div 30 \in Int /\ (7500 * g) \div 30 \in Int
    BY <2>1
  <2> QED BY <2>1, <2>2, <2>3, <2>4, <2>5, <2>6
<1> QED BY <1>1, <1>2

\* What the loop of creditLimit is given: amounts and times, in whatever order.
IsHistory(h) ==
  /\ Len(h) \in Nat /\ DOMAIN h = 1 .. Len(h)
  /\ \A i \in DOMAIN h : h[i].amount \in Nat /\ h[i].settledAt \in Int

IsParams(p) == p.baseline \in Nat /\ p.growthFactorBps \in Nat /\ p.evaluatedAt \in Int

LEMMA WeightedType ==
  ASSUME NEW r, r.amount \in Nat, r.settledAt \in Int, NEW p, p.evaluatedAt \in Int
  PROVE  Weighted(r, p) \in Nat
<1> DEFINE w == ageWeightBps(r.settledAt, p.evaluatedAt)
<1>1. w \in Nat
  <2>1. w \in MinWeightBps .. BPS BY WeightBounds
  <2> HIDE DEF w
  <2> QED BY <2>1 DEF MinWeightBps, BPS
<1> HIDE DEF w
<1>2. r.amount * w \in Nat
  BY <1>1
<1>3. (r.amount * w) \div BPS \in Nat
  BY <1>2, QuotientNatural DEF BPS
<1> QED BY <1>3 DEF Weighted, w

LEMMA WeightedGrows ==
  ASSUME NEW r, r.amount \in Nat, r.settledAt \in Int,
         NEW p, p.evaluatedAt \in Int, NEW q, q.evaluatedAt \in Int,
         p.evaluatedAt <= q.evaluatedAt
  PROVE  Weighted(r, p) <= Weighted(r, q)
<1> DEFINE w == ageWeightBps(r.settledAt, p.evaluatedAt)
           x == ageWeightBps(r.settledAt, q.evaluatedAt)
<1>1. w \in MinWeightBps .. BPS /\ x \in MinWeightBps .. BPS /\ w <= x
  BY WeightBounds, WeightGrows
<1> HIDE DEF w, x
<1>2. w \in Nat /\ x \in Nat
  BY <1>1 DEF MinWeightBps, BPS
<1>3. r.amount * w <= r.amount * x /\ r.amount * w \in Int /\ r.amount * x \in Int
  BY <1>1, <1>2
<1>4. (r.amount * w) \div BPS <= (r.amount * x) \div BPS
  BY <1>3, QuotientMonotone DEF BPS
<1> QED BY <1>4 DEF Weighted, w, x

\* Two payments weigh no more than one of both amounts.
LEMMA WeightedSplits ==
  ASSUME NEW r, r.amount \in Nat, r.settledAt \in Int,
         NEW s, s.amount \in Nat, s.settledAt = r.settledAt,
         NEW t, t.amount = r.amount + s.amount, t.settledAt = r.settledAt,
         NEW p, p.evaluatedAt \in Int
  PROVE  Weighted(r, p) + Weighted(s, p) <= Weighted(t, p)
<1> DEFINE w == ageWeightBps(r.settledAt, p.evaluatedAt)
<1>1. w \in MinWeightBps .. BPS
  BY WeightBounds
<1> HIDE DEF w
<1>2. w \in Nat
  BY <1>1 DEF MinWeightBps, BPS
<1>3. /\ r.amount * w \in Int /\ s.amount * w \in Int
      /\ t.amount * w = r.amount * w + s.amount * w
  BY <1>2
<1> DEFINE a == r.amount * w
           b == s.amount * w
<1> HIDE DEF a, b
<1>4. a \in Int /\ b \in Int /\ t.amount * w = a + b
  BY <1>3 DEF a, b
<1>5. a \div BPS + b \div BPS <= (a + b) \div BPS
  BY <1>4, QuotientsAdd DEF BPS
<1> QED BY <1>4, <1>5 DEF Weighted, w, a, b

Weights(h, p) == [i \in DOMAIN h |-> Weighted(h[i], p)]
CountingOf(h, p, s) == {i \in Counting(h, p) : h[i].serviceId = s}

LEMMA CountingFinite ==
  ASSUME NEW h, IsHistory(h), NEW p, IsParams(p)
  PROVE  /\ IsFiniteSet(DOMAIN h)
         /\ IsFiniteSet(Counting(h, p)) /\ IsFiniteSet(Counterparties(h, p))
         /\ \A s : IsFiniteSet(CountingOf(h, p, s))
         /\ \A i \in DOMAIN h : Weights(h, p)[i] \in Nat
<1>1. IsFiniteSet(DOMAIN h)
  BY FS_Interval DEF IsHistory
<1>2. IsFiniteSet(Counting(h, p))
  BY <1>1, FS_Subset DEF Counting
<1>3. IsFiniteSet(Counterparties(h, p))
  <2>1. [i \in Counting(h, p) |-> h[i].serviceId]
          \in Surjection(Counting(h, p), Counterparties(h, p))
    BY DEF Counterparties, Surjection
  <2> QED BY <1>2, <2>1, FS_Surjection
<1>4. ASSUME NEW s PROVE IsFiniteSet(CountingOf(h, p, s))
  BY <1>2, FS_Subset DEF CountingOf
<1>5. ASSUME NEW i \in DOMAIN h PROVE Weights(h, p)[i] \in Nat
  <2>1. h[i].amount \in Nat /\ h[i].settledAt \in Int /\ p.evaluatedAt \in Int
    BY DEF IsHistory, IsParams
  <2> QED BY <2>1, WeightedType DEF Weights
<1> QED BY <1>1, <1>2, <1>3, <1>4, <1>5

LEMMA BucketIs ==
  ASSUME NEW h, IsHistory(h), NEW p, IsParams(p), NEW s
  PROVE  Bucket(h, p, s) = SumOf(CountingOf(h, p, s), Weights(h, p))
<1> DEFINE S == CountingOf(h, p, s)
           v == Weights(h, p)
           Pick(T) == CHOOSE x \in T : TRUE
           pick == [T \in SUBSET S |-> Pick(T)]
           Adds(it) == it = [T \in SUBSET S |->
                               IF T = {} THEN 0
                               ELSE Weighted(h[Pick(T)], p) + it[T \ {Pick(T)}]]
           it == CHOOSE it : Adds(it)
<1>1. IsFiniteSet(S) /\ \A i \in S : v[i] = Weighted(h[i], p) /\ v[i] \in Nat
  <2>1. IsFiniteSet(S) /\ \A i \in DOMAIN h : v[i] \in Nat
    BY CountingFinite
  <2>2. S \subseteq DOMAIN h
    BY DEF CountingOf, Counting
  <2>3. \A i \in DOMAIN h : v[i] = Weighted(h[i], p)
    BY DEF Weights
  <2> HIDE DEF S, v
  <2> QED BY <2>1, <2>2, <2>3
<1>2. \A T \in SUBSET S : T # {} => Pick(T) \in T
  OBVIOUS
<1>3. \A T \in SUBSET S : pick[T] = Pick(T)
  OBVIOUS
<1>4. Bucket(h, p, s) = it[S]
  BY DEF Bucket, MapThenSumSet, MapThenFoldSet, CountingOf
<1> HIDE DEF S, v, Pick, pick, it
<1>5. Adds([T \in SUBSET S |-> SumOf(T, v)])
  <2> DEFINE w == [T \in SUBSET S |-> SumOf(T, v)]
  <2>1. ASSUME NEW T \in SUBSET S
        PROVE  w[T] = IF T = {} THEN 0 ELSE Weighted(h[Pick(T)], p) + w[T \ {Pick(T)}]
    <3>1. CASE T = {}
      BY <3>1, SumOfZeros
    <3>2. CASE T # {}
      <4>1. Pick(T) \in T /\ IsFiniteSet(T) /\ \A i \in T : v[i] \in Nat
        BY <1>1, <1>2, <3>2, FS_Subset
      <4>2. v[Pick(T)] = Weighted(h[Pick(T)], p)
        BY <1>1, <4>1
      <4>3. SumOf(T, v) = v[Pick(T)] + SumOf(T \ {Pick(T)}, v)
        BY <4>1, SumWithout
      <4> QED BY <3>2, <4>2, <4>3
    <3> QED BY <3>1, <3>2
  <2> QED BY <2>1
<1>6. Adds(it)
  <2> HIDE DEF Adds
  <2> QED BY <1>5 DEF it
<1>7. ASSUME NEW T \in SUBSET S
      PROVE  it[T] = IF T = {} THEN 0 ELSE v[pick[T]] + it[T \ {pick[T]}]
  <2>1. T # {} => v[pick[T]] = Weighted(h[Pick(T)], p)
    BY <1>1, <1>2, <1>3
  <2>2. it[T] = IF T = {} THEN 0 ELSE Weighted(h[Pick(T)], p) + it[T \ {Pick(T)}]
    BY <1>6
  <2> QED BY <1>3, <2>1, <2>2
<1>8. \A T \in SUBSET S : T # {} => pick[T] \in T
  BY <1>2, <1>3
<1> HIDE DEF Adds
<1>9. it[S] = SumOf(S, v)
  <2>1. IsFiniteSet(S) /\ \A i \in S : v[i] \in Nat
    BY <1>1
  <2>2. /\ it[{}] = 0
        /\ \A T \in SUBSET S : T # {} => it[T] = v[pick[T]] + it[T \ {pick[T]}]
    BY <1>7
  <2> QED BY ONLY <1>8, <2>1, <2>2, FoldIsSum
<1> QED BY <1>4, <1>9 DEF S, v

LEMMA BucketType ==
  ASSUME NEW h, IsHistory(h), NEW p, IsParams(p), NEW s
  PROVE  Bucket(h, p, s) \in Nat
<1> DEFINE S == CountingOf(h, p, s)
           v == Weights(h, p)
<1>1. IsFiniteSet(S) /\ \A i \in S : v[i] \in Nat
  <2>1. IsFiniteSet(S) /\ \A i \in DOMAIN h : v[i] \in Nat
    BY CountingFinite
  <2>2. S \subseteq DOMAIN h
    BY DEF CountingOf, Counting
  <2> HIDE DEF S, v
  <2> QED BY <2>1, <2>2
<1> HIDE DEF S, v
<1>2. SumOf(S, v) \in Nat
  BY <1>1, UnitsFinite
<1> QED BY <1>2, BucketIs DEF S, v

LEMMA ContributionType ==
  ASSUME NEW b, b.sum \in Nat, NEW p, IsParams(p)
  PROVE  Contribution(b, p) \in Nat
<1>1. b.sum * p.growthFactorBps \in Nat
  BY DEF IsParams
<1> QED BY <1>1, QuotientNatural DEF Contribution, BPS

-----------------------------------------------------------------------------
(* The insertion sort.                                                     *)

LEMMA DescendingOK ==
  ASSUME NEW n \in Nat, NEW s \in [1 .. n -> Nat]
  PROVE  \E f \in Bijection(1 .. n, 1 .. n) :
           /\ DOMAIN Descending(s) = 1 .. n
           /\ \A k \in 1 .. n : Descending(s)[k] = s[f[k]]
           /\ \A i, j \in 1 .. n : i <= j => s[f[i]] >= s[f[j]]
<1> DEFINE Ahead(j) == {i \in 1 .. n : s[i] > s[j] \/ (s[i] = s[j] /\ i <= j)}
           rank == [j \in 1 .. n |-> Cardinality(Ahead(j))]
<1>1. ASSUME NEW j \in 1 .. n
      PROVE  IsFiniteSet(Ahead(j)) /\ j \in Ahead(j) /\ rank[j] \in 1 .. n
  <2>1. IsFiniteSet(1 .. n) /\ Cardinality(1 .. n) = n
    BY FS_Interval
  <2>2. Ahead(j) \in SUBSET (1 .. n) /\ j \in Ahead(j)
    OBVIOUS
  <2>3. rank[j] = Cardinality(Ahead(j))
    OBVIOUS
  <2> HIDE DEF Ahead, rank
  <2>4. IsFiniteSet(Ahead(j)) /\ Cardinality(Ahead(j)) <= n
    BY <2>1, <2>2, FS_Subset
  <2>5. Cardinality(Ahead(j)) \in Nat /\ Cardinality(Ahead(j)) # 0
    BY <2>2, <2>4, FS_CardinalityType, FS_EmptySet
  <2> QED BY <2>2, <2>3, <2>4, <2>5
<1>2. ASSUME NEW i \in 1 .. n, NEW j \in 1 .. n, i # j, i \in Ahead(j)
      PROVE  rank[i] < rank[j]
  <2>1. Ahead(i) \in SUBSET Ahead(j) /\ j \notin Ahead(i) /\ j \in Ahead(j)
    BY <1>2
  <2>2. IsFiniteSet(Ahead(i)) /\ IsFiniteSet(Ahead(j))
    BY <1>1
  <2>3. rank[i] = Cardinality(Ahead(i)) /\ rank[j] = Cardinality(Ahead(j))
    OBVIOUS
  <2> HIDE DEF Ahead, rank
  <2>4. Cardinality(Ahead(i)) <= Cardinality(Ahead(j)) /\ Cardinality(Ahead(i)) # Cardinality(Ahead(j))
    BY <2>1, <2>2, FS_Subset
  <2>5. Cardinality(Ahead(i)) \in Nat /\ Cardinality(Ahead(j)) \in Nat
    BY <2>2, FS_CardinalityType
  <2> QED BY <2>3, <2>4, <2>5
<1>3. ASSUME NEW i \in 1 .. n, NEW j \in 1 .. n, i # j
      PROVE  i \in Ahead(j) \/ j \in Ahead(i)
  BY <1>3
<1>4. rank \in Injection(1 .. n, 1 .. n)
  <2>1. rank \in [1 .. n -> 1 .. n]
    BY <1>1
  <2>2. ASSUME NEW i \in 1 .. n, NEW j \in 1 .. n, rank[i] = rank[j] PROVE i = j
    <3>1. i # j => rank[i] < rank[j] \/ rank[j] < rank[i]
      <4> HIDE DEF Ahead, rank
      <4> QED BY <1>2, <1>3
    <3>2. rank[i] \in 1 .. n /\ rank[j] \in 1 .. n
      BY <1>1
    <3> HIDE DEF rank
    <3> QED BY <2>2, <3>1, <3>2
  <2> HIDE DEF rank
  <2> QED BY <2>1, <2>2 DEF Injection, IsInjective
<1>5. rank \in Surjection(1 .. n, 1 .. n)
  <2> HIDE DEF rank
  <2> QED BY <1>4, FS_Interval, FS_Injection
<1> DEFINE f == [k \in 1 .. n |-> CHOOSE j \in 1 .. n : rank[j] = k]
<1>6. \A k \in 1 .. n : f[k] \in 1 .. n /\ rank[f[k]] = k
  <2> HIDE DEF rank
  <2> QED BY <1>5 DEF Surjection
<1>7. \A j \in 1 .. n : f[rank[j]] = j
  <2>1. \A j \in 1 .. n : rank[j] \in 1 .. n
    BY <1>1
  <2> HIDE DEF rank, f
  <2> QED BY <1>4, <1>6, <2>1 DEF Injection, IsInjective
<1>8. f \in Bijection(1 .. n, 1 .. n)
  <2>1. f \in [1 .. n -> 1 .. n]
    BY <1>6
  <2>2. \A j \in 1 .. n : rank[j] \in 1 .. n
    BY <1>1
  <2> HIDE DEF rank, f
  <2> QED BY <1>6, <1>7, <2>1, <2>2 DEF Bijection, Injection, IsInjective, Surjection
<1>9. /\ DOMAIN Descending(s) = 1 .. n
      /\ \A k \in 1 .. n : Descending(s)[k] = s[f[k]]
  <2>1. \A j \in 1 .. n : Rank(s, j) = rank[j]
    BY DEF Rank
  <2>2. DOMAIN s = 1 .. n
    OBVIOUS
  <2> HIDE DEF rank
  <2>3. \A k \in 1 .. n : (CHOOSE j \in 1 .. n : Rank(s, j) = k) = f[k]
    BY <2>1
  <2> QED BY <2>2, <2>3, ZenonT(60) DEF Descending
<1>10. ASSUME NEW i \in 1 .. n, NEW j \in 1 .. n, i <= j PROVE s[f[i]] >= s[f[j]]
  <2>1. CASE i = j
    <3>1. s[f[i]] \in Nat
      BY <1>6
    <3> HIDE DEF f
    <3> QED BY <2>1, <3>1
  <2>2. CASE i # j
    <3>1. f[i] \in 1 .. n /\ f[j] \in 1 .. n /\ rank[f[i]] = i /\ rank[f[j]] = j
      BY <1>6
    <3>2. f[i] # f[j]
      <4> HIDE DEF f, rank
      <4> QED BY <2>2, <3>1
    <3>3. f[j] \notin Ahead(f[i])
      <4> HIDE DEF f, rank, Ahead
      <4> QED BY <1>2, <1>10, <2>2, <3>1, <3>2
    <3> HIDE DEF f, rank
    <3> QED BY <3>1, <3>2, <3>3
  <2> QED BY <2>1, <2>2
<1> HIDE DEF rank, f
<1> QED BY <1>8, <1>9, <1>10

-----------------------------------------------------------------------------
(* The concentration cap.                                                  *)

LEMMA TailIs ==
  ASSUME NEW c \in Seq(Nat), NEW k \in 0 .. Len(c)
  PROVE  Tail_(c, k) = SumOf((k + 1) .. Len(c), c)
<1> DEFINE n == Len(c)
           m == n - k
           d == SubSeq(c, k + 1, n)
           shift == [i \in 1 .. m |-> i + k]
<1>1. n \in Nat /\ m \in Nat /\ DOMAIN c = 1 .. n /\ \A i \in 1 .. n : c[i] \in Nat
  OBVIOUS
<1>2. DOMAIN d = 1 .. m /\ \A i \in 1 .. m : d[i] = c[i + k] /\ d[i] \in Nat
  <2>1. k + 1 \in 1 .. n + 1 /\ n \in (k + 1) - 1 .. n
    BY <1>1
  <2>2. /\ d \in Seq(Nat) /\ Len(d) = n - (k + 1) + 1
        /\ \A i \in 1 .. n - (k + 1) + 1 : d[i] = c[(k + 1) + i - 1]
    BY <2>1, SubSeqProperties
  <2>3. n - (k + 1) + 1 = m /\ \A i \in 1 .. m : (k + 1) + i - 1 = i + k /\ i + k \in 1 .. n
    BY <1>1
  <2> HIDE DEF d, n, m
  <2> QED BY <1>1, <2>2, <2>3
<1> HIDE DEF d, n
<1>3. Tail_(c, k) = SumSeq(d)
  BY DEF Tail_, d, n
<1>4. SumSeq(d) = SumOf(1 .. m, d)
  BY <1>1, <1>2, SumSeqIs
<1>5. shift \in Bijection(1 .. m, (k + 1) .. n)
  <2>1. shift \in [1 .. m -> (k + 1) .. n]
    BY <1>1
  <2>2. \A i, j \in 1 .. m : shift[i] = shift[j] => i = j
    BY <1>1
  <2>3. ASSUME NEW t \in (k + 1) .. n PROVE \E i \in 1 .. m : shift[i] = t
    <3>1. t - k \in 1 .. m /\ shift[t - k] = t
      BY <1>1
    <3> QED BY <3>1
  <2> HIDE DEF shift
  <2> QED BY <2>1, <2>2, <2>3 DEF Bijection, Injection, IsInjective, Surjection
<1>6. IsFiniteSet(1 .. m) /\ \A i \in 1 .. m : d[i] = c[shift[i]] /\ d[i] \in Nat
  BY <1>1, <1>2, FS_Interval
<1>7. SumOf(1 .. m, d) = SumOf((k + 1) .. n, c)
  <2> DEFINE S == 1 .. m
             T == (k + 1) .. n
  <2>1. IsFiniteSet(S) /\ shift \in Bijection(S, T)
    BY <1>5, <1>6
  <2>2. (\A i \in S : d[i] = c[shift[i]]) /\ \A i \in S : d[i] \in Nat
    BY <1>6
  <2> HIDE DEF shift, m, S, T
  <2>3. SumOf(S, d) = SumOf(T, c)
    BY ONLY <2>1, <2>2, SumReordered
  <2> QED BY <2>3 DEF S, T
<1> QED BY <1>3, <1>4, <1>7 DEF n

\* The largest of the contributions and what is below them.
LEMMA TailSteps ==
  ASSUME NEW c \in Seq(Nat), NEW k \in 1 .. Len(c)
  PROVE  Tail_(c, k) \in Nat /\ Tail_(c, k - 1) = c[k] + Tail_(c, k)
<1> DEFINE n == Len(c)
           S == k .. n
<1>1. n \in Nat /\ DOMAIN c = 1 .. n /\ \A i \in 1 .. n : c[i] \in Nat
  OBVIOUS
<1>2. IsFiniteSet(S) /\ k \in S /\ \A i \in S : c[i] \in Nat
  BY <1>1, FS_Interval
<1>3. S \ {k} = (k + 1) .. n
  BY <1>1
<1>4. Tail_(c, k - 1) = SumOf(S, c) /\ Tail_(c, k) = SumOf(S \ {k}, c)
  <2>1. k - 1 \in 0 .. n /\ k \in 0 .. n /\ (k - 1) + 1 = k
    BY <1>1
  <2>2. Tail_(c, k - 1) = SumOf(((k - 1) + 1) .. n, c) /\ Tail_(c, k) = SumOf((k + 1) .. n, c)
    BY <2>1, TailIs
  <2> QED BY <1>3, <2>1, <2>2
<1> HIDE DEF S
<1>5. SumOf(S, c) = c[k] + SumOf(S \ {k}, c)
  BY <1>2, SumWithout
<1>6. SumOf(S \ {k}, c) \in Nat
  <2>1. IsFiniteSet(S \ {k}) /\ \A i \in S \ {k} : c[i] \in Nat
    BY <1>2, FS_Subset
  <2> QED BY <2>1, UnitsFinite
<1> QED BY <1>4, <1>5, <1>6

LEMMA TailType ==
  ASSUME NEW c \in Seq(Nat), NEW k \in 0 .. Len(c)
  PROVE  Tail_(c, k) \in Nat
<1>1. IsFiniteSet((k + 1) .. Len(c)) /\ \A i \in (k + 1) .. Len(c) : c[i] \in Nat
  <2>1. k + 1 \in Int /\ Len(c) \in Int
    OBVIOUS
  <2>2. IsFiniteSet((k + 1) .. Len(c))
    BY <2>1, FS_Interval
  <2>3. \A i \in (k + 1) .. Len(c) : c[i] \in Nat
    OBVIOUS
  <2> QED BY <2>2, <2>3
<1>2. SumOf((k + 1) .. Len(c), c) \in Nat
  BY <1>1, UnitsFinite
<1> QED BY <1>2, TailIs

IsDescending(c) == \A i, j \in DOMAIN c : i <= j => c[i] >= c[j]

\* A limit L is allowed by contributions c: counted for at most a quarter of L
\* each, they and the baseline make up L.
Counted(c, L) == [j \in DOMAIN c |-> Least(ConcentrationDivisor * c[j], L)]

AllowedBy(c, b, L) ==
  ConcentrationDivisor * L <= ConcentrationDivisor * b + SumOf(DOMAIN c, Counted(c, L))

Solves(c, b, L) == L \in Nat /\ AllowedBy(c, b, L) /\ \A X \in Nat : X > L => ~AllowedBy(c, b, X)

LEMMA CandidateIs ==
  ASSUME NEW c \in Seq(Nat), NEW b \in Nat, NEW k \in 0 .. 3, k <= Len(c)
  PROVE  /\ Candidate(c, b, k) \in Nat
         /\ \A X \in Int : X <= Candidate(c, b, k) <=> (4 - k) * X <= 4 * (b + Tail_(c, k))
<1>1. Tail_(c, k) \in Nat
  BY TailType
<1> DEFINE a == 4 * (b + Tail_(c, k))
<1>2. a \in Nat /\ 4 - k \in Nat \ {0}
  BY <1>1
<1>3. Candidate(c, b, k) = a \div (4 - k)
  BY DEF Candidate, ConcentrationDivisor
<1> HIDE DEF a
<1>4. a \div (4 - k) \in Nat
  BY <1>2, QuotientNatural
<1>5. \A X \in Int : X <= a \div (4 - k) <=> (4 - k) * X <= a
  BY <1>2, QuotientIs
<1> QED BY <1>3, <1>4, <1>5 DEF a

\* What is counted of the contributions: at most L of each of the k largest, and
\* at most four times the others.
LEMMA CountedAtMost ==
  ASSUME NEW c \in Seq(Nat), NEW k \in Nat, k <= Len(c), NEW X \in Nat
  PROVE  SumOf(DOMAIN c, Counted(c, X)) <= k * X + 4 * Tail_(c, k)
<1> DEFINE n == Len(c)
           S == 1 .. k
           T == (k + 1) .. n
           v == Counted(c, X)
<1>1. n \in Nat /\ DOMAIN c = 1 .. n /\ S \cup T = 1 .. n /\ S \cap T = {}
  OBVIOUS
<1>2. \A i \in 1 .. n : v[i] \in Nat /\ v[i] <= X /\ v[i] <= 4 * c[i] /\ c[i] \in Nat
  BY DEF Counted, Least, ConcentrationDivisor
<1>3. IsFiniteSet(S) /\ IsFiniteSet(T) /\ Cardinality(S) = k
  <2>1. 1 \in Int /\ k \in Int /\ k + 1 \in Int /\ n \in Int
    OBVIOUS
  <2>2. IsFiniteSet(S) /\ Cardinality(S) = IF 1 > k THEN 0 ELSE k - 1 + 1
    BY <2>1, FS_Interval
  <2>3. IsFiniteSet(T)
    BY <2>1, FS_Interval
  <2> HIDE DEF S
  <2> QED BY <2>2, <2>3
<1>4. Tail_(c, k) = SumOf(T, c)
  BY TailIs
<1> HIDE DEF v, S, T, n
<1>5. SumOf(1 .. n, v) = SumOf(S, v) + SumOf(T, v)
  <2>1. \A i \in S \cup T : v[i] \in Nat
    BY <1>1, <1>2
  <2>2. SumOf(S \cup T, v) = SumOf(S, v) + SumOf(T, v)
    BY <1>1, <1>3, <2>1, SumSplits
  <2> QED BY <1>1, <2>2
<1>6. SumOf(S, v) \in Nat /\ SumOf(S, v) <= k * X
  <2> DEFINE all == [i \in S |-> X]
  <2>1. \A i \in S : v[i] \in Nat /\ v[i] <= all[i] /\ all[i] = X
    BY <1>1, <1>2
  <2> HIDE DEF all
  <2>2. SumOf(S, v) <= SumOf(S, all)
    BY <1>3, <2>1, SumMonotone
  <2>3. SumOf(S, all) = k * X
    BY <1>3, <2>1, SumOfEqual
  <2>4. SumOf(S, v) \in Nat
    BY <1>3, <2>1, UnitsFinite
  <2> QED BY <2>2, <2>3, <2>4
<1>7. SumOf(T, v) \in Nat /\ SumOf(T, v) <= 4 * SumOf(T, c)
  <2> DEFINE four == [i \in T |-> 4 * c[i]]
  <2>1. \A i \in T : v[i] \in Nat /\ v[i] <= four[i] /\ four[i] \in Nat /\ c[i] \in Nat /\ four[i] = 4 * c[i]
    BY <1>1, <1>2
  <2> HIDE DEF four
  <2>2. SumOf(T, v) <= SumOf(T, four)
    BY <1>3, <2>1, SumMonotone
  <2>3. SumOf(T, four) = 4 * SumOf(T, c)
    BY <1>3, <2>1, SumOfMultiples
  <2>4. SumOf(T, v) \in Nat
    BY <1>3, <2>1, UnitsFinite
  <2> QED BY <2>2, <2>3, <2>4
<1>8. k * X \in Nat /\ SumOf(T, c) \in Nat
  BY <1>4, TailType DEF n
<1> QED BY <1>1, <1>4, <1>5, <1>6, <1>7, <1>8 DEF v

\* It is no less where the k largest are above L and the others below.
LEMMA CountedAtLeast ==
  ASSUME NEW c \in Seq(Nat), NEW k \in Nat, k <= Len(c), NEW L \in Nat,
         \A i \in 1 .. k : 4 * c[i] >= L, \A i \in (k + 1) .. Len(c) : 4 * c[i] <= L
  PROVE  SumOf(DOMAIN c, Counted(c, L)) = k * L + 4 * Tail_(c, k)
<1> DEFINE n == Len(c)
           S == 1 .. k
           T == (k + 1) .. n
           v == Counted(c, L)
<1>1. n \in Nat /\ DOMAIN c = 1 .. n /\ S \cup T = 1 .. n /\ S \cap T = {}
  OBVIOUS
<1>2. /\ \A i \in S : v[i] = L
      /\ \A i \in T : v[i] = 4 * c[i] /\ c[i] \in Nat
  BY <1>1, SMTT(30) DEF Counted, Least, ConcentrationDivisor
<1>3. IsFiniteSet(S) /\ IsFiniteSet(T) /\ Cardinality(S) = k
  <2>1. 1 \in Int /\ k \in Int /\ k + 1 \in Int /\ n \in Int
    OBVIOUS
  <2>2. IsFiniteSet(S) /\ Cardinality(S) = IF 1 > k THEN 0 ELSE k - 1 + 1
    BY <2>1, FS_Interval
  <2>3. IsFiniteSet(T)
    BY <2>1, FS_Interval
  <2> HIDE DEF S
  <2> QED BY <2>2, <2>3
<1>4. Tail_(c, k) = SumOf(T, c)
  BY TailIs
<1> HIDE DEF v, S, T, n
<1>5. SumOf(1 .. n, v) = SumOf(S, v) + SumOf(T, v)
  <2>1. \A i \in S \cup T : v[i] \in Nat
    BY <1>2
  <2>2. SumOf(S \cup T, v) = SumOf(S, v) + SumOf(T, v)
    BY <1>1, <1>3, <2>1, SumSplits
  <2> QED BY <1>1, <2>2
<1>6. SumOf(S, v) = k * L
  BY <1>2, <1>3, SumOfEqual
<1>7. SumOf(T, v) = 4 * SumOf(T, c)
  BY <1>2, <1>3, SumOfMultiples
<1> QED BY <1>1, <1>4, <1>5, <1>6, <1>7 DEF v

LEMMA FeasibleSolves ==
  ASSUME NEW c \in Seq(Nat), IsDescending(c), NEW b \in Nat, NEW k \in 0 .. 3, k <= Len(c),
         Feasible(c, b, k)
  PROVE  Solves(c, b, Candidate(c, b, k))
<1> DEFINE n == Len(c)
           L == Candidate(c, b, k)
           R == Tail_(c, k)
<1>1. n \in Nat /\ k \in Nat /\ k \in 0 .. n /\ DOMAIN c = 1 .. n /\ \A i \in 1 .. n : c[i] \in Nat
  OBVIOUS
<1>2. L \in Nat /\ \A X \in Int : X <= L <=> (4 - k) * X <= 4 * (b + R)
  BY CandidateIs
<1>3. R \in Nat
  BY TailType
<1>4. /\ k = 0 \/ c[k] * 4 >= L
      /\ k = n \/ c[k + 1] * 4 <= L
  BY DEF Feasible, ConcentrationDivisor
<1>5. \A i, j \in 1 .. n : i <= j => c[i] >= c[j]
  BY <1>1 DEF IsDescending
<1> HIDE DEF L, R, n
<1>6. \A i \in 1 .. k : 4 * c[i] >= L
  <2> SUFFICES ASSUME NEW i \in 1 .. k PROVE 4 * c[i] >= L
    OBVIOUS
  <2>1. k \in 1 .. n /\ i \in 1 .. n /\ i <= k
    BY <1>1
  <2>2. c[i] >= c[k] /\ c[i] \in Nat /\ c[k] \in Nat
    BY <1>1, <1>5, <2>1
  <2> QED BY <1>2, <1>4, <2>1, <2>2
<1>7. \A i \in (k + 1) .. n : 4 * c[i] <= L
  <2> SUFFICES ASSUME NEW i \in (k + 1) .. n PROVE 4 * c[i] <= L
    OBVIOUS
  <2>1. k + 1 \in 1 .. n /\ i \in 1 .. n /\ k + 1 <= i
    BY <1>1
  <2>2. c[k + 1] >= c[i] /\ c[i] \in Nat /\ c[k + 1] \in Nat
    BY <1>1, <1>5, <2>1
  <2> QED BY <1>1, <1>2, <1>4, <2>1, <2>2
<1>8. \A X \in Nat : (4 - k) * X = 4 * X - k * X /\ k * X \in Nat
  BY <1>1
<1>9. AllowedBy(c, b, L)
  <2>1. SumOf(DOMAIN c, Counted(c, L)) = k * L + 4 * R
    BY <1>1, <1>2, <1>6, <1>7, CountedAtLeast DEF n, R
  <2>2. (4 - k) * L <= 4 * (b + R)
    BY <1>2
  <2>3. 4 * L <= 4 * b + (k * L + 4 * R)
    BY <1>2, <1>3, <1>8, <2>2
  <2> QED BY <2>1, <2>3 DEF AllowedBy, ConcentrationDivisor
<1>10. ASSUME NEW X \in Nat, X > L, AllowedBy(c, b, X) PROVE FALSE
  <2>1. SumOf(DOMAIN c, Counted(c, X)) <= k * X + 4 * R
    BY <1>1, CountedAtMost DEF n, R
  <2>2. ~((4 - k) * X <= 4 * (b + R))
    <3>1. X <= L <=> (4 - k) * X <= 4 * (b + R)
      <4>1. X \in Int
        OBVIOUS
      <4> QED BY ONLY <1>2, <4>1
    <3>2. ~(X <= L)
      BY <1>2, <1>10
    <3> QED BY <3>1, <3>2
  <2>3. SumOf(DOMAIN c, Counted(c, X)) \in Nat
    <3>1. IsFiniteSet(DOMAIN c)
      BY <1>1, FS_Interval
    <3>2. \A i \in DOMAIN c : Counted(c, X)[i] \in Nat
      BY <1>1 DEF Counted, Least, ConcentrationDivisor
    <3> QED BY <3>1, <3>2, UnitsFinite
  <2>4. 4 * X <= 4 * b + SumOf(DOMAIN c, Counted(c, X))
    BY <1>10 DEF AllowedBy, ConcentrationDivisor
  <2> QED BY <1>3, <1>8, <2>1, <2>2, <2>3, <2>4
<1> QED BY <1>2, <1>9, <1>10 DEF Solves, L

\* The arithmetic of one step of the scan: a contribution that was above the
\* candidate before it is not below the candidate after it.
LEMMA AtTheCap ==
  ASSUME NEW k \in 1 .. 3, NEW C \in Nat, NEW L \in Nat, NEW R \in Nat, NEW b \in Nat,
         ~((4 - (k - 1)) * (4 * C) <= 4 * (b + (C + R))), (4 - k) * L <= 4 * (b + R)
  PROVE  4 * C >= L
<1>1. CASE k = 1
  BY <1>1
<1>2. CASE k = 2
  BY <1>2
<1>3. CASE k = 3
  BY <1>3
<1> QED BY <1>1, <1>2, <1>3

\* The scan always ends at a feasible candidate: its first k whose next
\* contribution is not above the candidate.
LEMMA ScanFinds ==
  ASSUME NEW c \in Seq(Nat), IsDescending(c), NEW b \in Nat
  PROVE  \E k \in Ks(c) : Feasible(c, b, k)
<1> DEFINE n == Len(c)
           L(k) == Candidate(c, b, k)
           R(k) == Tail_(c, k)
           Stops == {k \in 0 .. 3 : k <= n /\ (k = n \/ 4 * c[k + 1] <= L(k))}
<1>1. n \in Nat /\ DOMAIN c = 1 .. n /\ \A i \in 1 .. n : c[i] \in Nat
  OBVIOUS
<1>2. ASSUME NEW k \in 0 .. 3, k <= n
      PROVE  /\ L(k) \in Nat /\ R(k) \in Nat
             /\ \A X \in Int : X <= L(k) <=> (4 - k) * X <= 4 * (b + R(k))
  <2>1. k \in 0 .. Len(c)
    BY <1>2
  <2>2. R(k) \in Nat
    BY <2>1, TailType
  <2>3. L(k) \in Nat /\ \A X \in Int : X <= L(k) <=> (4 - k) * X <= 4 * (b + R(k))
    BY <1>2, CandidateIs
  <2> QED BY <2>2, <2>3
<1>3. ASSUME NEW k \in 1 .. n PROVE R(k - 1) = c[k] + R(k) /\ R(k) \in Nat
  BY TailSteps
<1>4. Stops # {}
  <2>1. CASE n <= 3
    <3>1. n \in Stops
      BY <1>1, <2>1
    <3> QED BY <3>1
  <2>2. CASE n > 3
    <3>1. 3 \in 0 .. 3 /\ 3 <= n /\ 4 \in 1 .. n
      BY <1>1, <2>2
    <3>2. R(3) = c[4] + R(4) /\ R(4) \in Nat /\ c[4] \in Nat
      <4>1. R(4 - 1) = c[4] + R(4) /\ R(4) \in Nat
        BY <1>3, <3>1
      <4> QED BY <1>1, <3>1, <4>1
    <3>3. 4 * c[4] <= L(3) <=> (4 - 3) * (4 * c[4]) <= 4 * (b + R(3))
      <4>1. \A X \in Int : X <= L(3) <=> (4 - 3) * X <= 4 * (b + R(3))
        BY <1>2, <3>1
      <4>2. 4 * c[4] \in Int
        BY <3>2
      <4> QED BY <4>1, <4>2
    <3> HIDE DEF L, R
    <3>4. 4 * c[4] <= L(3)
      BY <3>2, <3>3
    <3>5. 3 \in Stops
      BY <3>1, <3>4
    <3> QED BY <3>5
  <2> QED BY <1>1, <2>1, <2>2
<1>5. PICK k \in Stops : \A j \in Stops : k <= j
  <2>1. Stops \in SUBSET Nat
    OBVIOUS
  <2> HIDE DEF Stops
  <2> QED BY <1>4, <2>1, LeastElement
<1>6. k \in Nat /\ k <= 3 /\ k <= n /\ (k = n \/ 4 * c[k + 1] <= L(k))
  BY <1>5
<1> HIDE DEF L, R, n
<1>7. k = 0 \/ 4 * c[k] >= L(k)
  <2> SUFFICES ASSUME k # 0 PROVE 4 * c[k] >= L(k)
    OBVIOUS
  <2> DEFINE j == k - 1
  <2>1. j \in 0 .. 3 /\ j <= n /\ j # n /\ j + 1 = k /\ j < k /\ k \in 1 .. n
    BY <1>1, <1>6
  <2>2. j \notin Stops
    <3> HIDE DEF Stops
    <3>1. ~(k <= j)
      BY <2>1
    <3> QED BY <1>5, <3>1
  <2>3. ~(4 * c[k] <= L(j))
    <3> HIDE DEF j
    <3> QED BY <2>1, <2>2
  <2>4. R(j) = c[k] + R(k) /\ R(k) \in Nat /\ c[k] \in Nat
    BY <1>1, <1>3, <2>1
  <2>5. /\ L(j) \in Nat /\ L(k) \in Nat
        /\ 4 * c[k] <= L(j) <=> (4 - j) * (4 * c[k]) <= 4 * (b + R(j))
        /\ L(k) <= L(k) <=> (4 - k) * L(k) <= 4 * (b + R(k))
    <3>1. L(j) \in Nat /\ \A X \in Int : X <= L(j) <=> (4 - j) * X <= 4 * (b + R(j))
      BY <1>2, <2>1
    <3>2. L(k) \in Nat /\ \A X \in Int : X <= L(k) <=> (4 - k) * X <= 4 * (b + R(k))
      <4>1. k \in 0 .. 3
        BY <1>6
      <4> QED BY <1>2, <1>6, <4>1
    <3>3. 4 * c[k] \in Int /\ L(k) \in Int
      <4>1. \A x \in Nat : 4 * x \in Int
        OBVIOUS
      <4>2. 4 * c[k] \in Int
        BY ONLY <2>4, <4>1
      <4> HIDE DEF L
      <4> QED BY <3>2, <4>2
    <3> HIDE DEF j
    <3> QED BY <3>1, <3>2, <3>3
  <2>6. k \in 1 .. 3
    BY <1>6
  <2>7. ~((4 - (k - 1)) * (4 * c[k]) <= 4 * (b + (c[k] + R(k))))
    BY <2>3, <2>4, <2>5
  <2>8. (4 - k) * L(k) <= 4 * (b + R(k))
    <3> HIDE DEF j
    <3> QED BY <2>5
  <2> HIDE DEF L, R, Stops, j
  <2> QED BY <2>4, <2>5, <2>6, <2>7, <2>8, AtTheCap
<1>8. k \in Ks(c) /\ Feasible(c, b, k)
  <2>1. k = 0 \/ c[k] * 4 >= L(k)
    <3>1. k # 0 => c[k] \in Nat
      BY <1>1, <1>6
    <3> HIDE DEF L
    <3> QED BY <1>7, <3>1
  <2>2. k = n \/ c[k + 1] * 4 <= L(k)
    <3>1. k # n => c[k + 1] \in Nat
      BY <1>1, <1>6
    <3> HIDE DEF L
    <3> QED BY <1>6, <3>1
  <2> QED BY <1>6, <2>1, <2>2 DEF Ks, Feasible, ConcentrationDivisor, L, n
<1> QED BY <1>8

\* The closed form is the greatest limit that is allowed.
THEOREM CappedSolves ==
  ASSUME NEW c \in Seq(Nat), IsDescending(c), NEW b \in Nat
  PROVE  Solves(c, b, _concentrationCapped(c, b))
<1> DEFINE feasible == {k \in Ks(c) : Feasible(c, b, k)}
<1>1. feasible # {} /\ feasible \in SUBSET Nat
  <2>1. \E k \in Ks(c) : Feasible(c, b, k)
    BY ScanFinds
  <2>2. Ks(c) \in SUBSET Nat
    BY DEF Ks, ConcentrationDivisor
  <2> QED BY <2>1, <2>2
<1>2. _concentrationCapped(c, b) = Candidate(c, b, Min(feasible))
  BY <1>1 DEF _concentrationCapped
<1>3. Min(feasible) \in feasible
  <2> HIDE DEF feasible
  <2>1. \E x \in feasible : \A y \in feasible : x <= y
    BY <1>1, LeastElement
  <2> QED BY <2>1 DEF Min
<1> DEFINE k == Min(feasible)
<1>4. k \in 0 .. 3 /\ k <= Len(c) /\ Feasible(c, b, k)
  <2> HIDE DEF k
  <2>1. k \in feasible
    BY <1>3 DEF k
  <2> QED BY <2>1 DEF Ks, ConcentrationDivisor
<1> HIDE DEF k, feasible
<1>5. Solves(c, b, Candidate(c, b, k))
  BY <1>4, FeasibleSolves
<1> QED BY <1>2, <1>5 DEF k

-----------------------------------------------------------------------------
(* What the counterparties contribute.                                     *)

Shares(h, p) ==
  [s \in Counterparties(h, p) |-> Contribution([serviceId |-> s, sum |-> Bucket(h, p, s)], p)]

LEMMA SharesType ==
  ASSUME NEW h, IsHistory(h), NEW p, IsParams(p), NEW s \in Counterparties(h, p)
  PROVE  Shares(h, p)[s] \in Nat
<1> DEFINE b == [serviceId |-> s, sum |-> Bucket(h, p, s)]
<1>1. b.sum \in Nat
  BY BucketType
<1>2. Shares(h, p)[s] = Contribution(b, p)
  BY DEF Shares
<1> HIDE DEF b
<1> QED BY <1>1, <1>2, ContributionType

\* The contributions are what the counterparties contribute, each once, in a
\* descending order.
LEMMA ContributionsOK ==
  ASSUME NEW h, IsHistory(h), NEW p, IsParams(p)
  PROVE  LET n == Cardinality(Counterparties(h, p))
             c == Contributions(h, p)
         IN  /\ n \in Nat /\ c \in Seq(Nat) /\ Len(c) = n /\ DOMAIN c = 1 .. n
             /\ IsDescending(c)
             /\ \E g \in Bijection(1 .. n, Counterparties(h, p)) :
                  \A k \in 1 .. n : c[k] = Shares(h, p)[g[k]]
<1> DEFINE C == Counterparties(h, p)
           n == Cardinality(C)
           B == Buckets(h, p)
           bucketOf == [s \in C |-> [serviceId |-> s, sum |-> Bucket(h, p, s)]]
           e == SetToSeq(B)
           s == [j \in DOMAIN e |-> Contribution(e[j], p)]
<1>1. IsFiniteSet(C) /\ n \in Nat
  BY CountingFinite, FS_CardinalityType
<1>2. bucketOf \in Bijection(C, B)
  <2>1. /\ bucketOf \in [C -> B]
        /\ \A x, y \in C : bucketOf[x] = bucketOf[y] => x = y
        /\ \A b \in B : \E x \in C : bucketOf[x] = b
    <3>1. \A x, y \in C : bucketOf[x] = bucketOf[y] => x = y
      <4>1. \A x \in C : bucketOf[x].serviceId = x
        OBVIOUS
      <4> HIDE DEF bucketOf
      <4> QED BY <4>1
    <3>2. B = {[serviceId |-> x, sum |-> Bucket(h, p, x)] : x \in C}
      BY DEF Buckets
    <3> HIDE DEF B, C
    <3> QED BY <3>1, <3>2
  <2> HIDE DEF bucketOf, C, B
  <2> QED BY <2>1 DEF Bijection, Injection, IsInjective, Surjection
<1>3. IsFiniteSet(B) /\ Cardinality(B) = n
  <2> HIDE DEF bucketOf, C, B
  <2> QED BY <1>1, <1>2, FS_Bijection DEF ExistsBijection
<1>4. e \in Bijection(1 .. n, B)
  <2>1. \E f \in [1 .. Cardinality(B) -> B] : IsInjective(f)
    <3> HIDE DEF B
    <3>1. PICK m \in Nat : ExistsBijection(1 .. m, B)
      BY <1>3, FS_NatBijection
    <3>2. Cardinality(B) = m
      BY <3>1, FS_CountingElements
    <3> QED BY <3>1, <3>2 DEF ExistsBijection, Bijection, Injection
  <2>2. e \in [1 .. n -> B] /\ IsInjective(e)
    <3> HIDE DEF B
    <3>1. e \in [1 .. Cardinality(B) -> B] /\ IsInjective(e)
      BY <2>1 DEF SetToSeq
    <3> QED BY <1>3, <3>1
  <2> HIDE DEF e, B, C
  <2>3. Cardinality(1 .. n) = n /\ IsFiniteSet(1 .. n)
    BY <1>1, FS_Interval
  <2>4. e \in Injection(1 .. n, B)
    BY <2>2 DEF Injection
  <2>5. e \in Surjection(1 .. n, B)
    BY <1>3, <2>3, <2>4, FS_Injection
  <2> QED BY <2>4, <2>5 DEF Bijection
<1>5. \A b \in B : b.serviceId \in C /\ Contribution(b, p) = Shares(h, p)[b.serviceId]
  BY DEF Buckets, Shares
<1>6. s \in [1 .. n -> Nat] /\ \A j \in 1 .. n : s[j] = Shares(h, p)[e[j].serviceId]
  <2>1. DOMAIN e = 1 .. n /\ \A j \in 1 .. n : e[j] \in B
    <3> HIDE DEF e, B, C
    <3> QED BY <1>4 DEF Bijection, Injection
  <2>2. \A x \in C : Shares(h, p)[x] \in Nat
    BY SharesType
  <2> HIDE DEF e, B, C
  <2> QED BY <1>5, <2>1, <2>2
<1>7. Contributions(h, p) = Descending(s)
  BY DEF Contributions
<1> HIDE DEF s
<1>8. PICK f \in Bijection(1 .. n, 1 .. n) :
        /\ DOMAIN Descending(s) = 1 .. n
        /\ \A k \in 1 .. n : Descending(s)[k] = s[f[k]]
        /\ \A i, j \in 1 .. n : i <= j => s[f[i]] >= s[f[j]]
  <2> HIDE DEF n
  <2> QED BY <1>1, <1>6, DescendingOK
<1> DEFINE c == Contributions(h, p)
           g == [k \in 1 .. n |-> e[f[k]].serviceId]
<1>9. /\ DOMAIN c = 1 .. n /\ \A k \in 1 .. n : c[k] = s[f[k]] /\ c[k] \in Nat /\ f[k] \in 1 .. n
      /\ \A i, j \in 1 .. n : i <= j => c[i] >= c[j]
  <2>1. \A k \in 1 .. n : f[k] \in 1 .. n
    BY <1>8 DEF Bijection, Injection
  <2> HIDE DEF n
  <2> QED BY <1>6, <1>7, <1>8, <2>1
<1>10. c \in Seq(Nat) /\ Len(c) = n
  <2>1. c = [k \in 1 .. n |-> s[f[k]]]
    BY <1>7, <1>8 DEF Descending
  <2> HIDE DEF c, n, C
  <2>2. c \in [1 .. n -> Nat]
    BY <1>9, <2>1
  <2> QED BY <1>1, <2>2
<1>11. g \in Bijection(1 .. n, C)
  <2> HIDE DEF e, n, B, C
  <2>1. /\ \A j \in 1 .. n : e[j] \in B
        /\ \A i, j \in 1 .. n : e[i] = e[j] => i = j
        /\ \A b \in B : \E j \in 1 .. n : e[j] = b
    BY <1>4 DEF Bijection, Injection, IsInjective, Surjection
  <2>2. /\ \A i, j \in 1 .. n : f[i] = f[j] => i = j
        /\ \A k \in 1 .. n : \E j \in 1 .. n : f[j] = k
    BY <1>8 DEF Bijection, Injection, IsInjective, Surjection
  <2>3. /\ \A a, b \in B : a.serviceId = b.serviceId => a = b
        /\ \A x \in C : \E b \in B : b.serviceId = x
    <3>1. ASSUME NEW a \in B
          PROVE  a = [serviceId |-> a.serviceId, sum |-> Bucket(h, p, a.serviceId)]
      BY DEF Buckets, B
    <3>2. ASSUME NEW x \in C PROVE \E b \in B : b.serviceId = x
      <4>1. [serviceId |-> x, sum |-> Bucket(h, p, x)] \in B
        BY DEF Buckets, B, C
      <4>2. [serviceId |-> x, sum |-> Bucket(h, p, x)].serviceId = x
        OBVIOUS
      <4> QED BY ONLY <4>1, <4>2
    <3>3. ASSUME NEW a \in B, NEW b \in B, a.serviceId = b.serviceId PROVE a = b
      BY ONLY <3>1, <3>3
    <3> QED BY <3>2, <3>3
  <2>4. \A k \in 1 .. n : f[k] \in 1 .. n /\ g[k] = e[f[k]].serviceId /\ g[k] \in C
    BY <1>5, <1>9, <2>1
  <2>5. g \in [1 .. n -> C]
    BY <2>4
  <2> HIDE DEF g
  <2>6. ASSUME NEW i \in 1 .. n, NEW j \in 1 .. n, g[i] = g[j] PROVE i = j
    <3>1. f[i] \in 1 .. n /\ f[j] \in 1 .. n /\ e[f[i]].serviceId = e[f[j]].serviceId
      BY <2>4, <2>6
    <3>2. e[f[i]] = e[f[j]]
      BY ONLY <2>1, <2>3, <3>1
    <3> QED BY ONLY <2>1, <2>2, <3>1, <3>2, ZenonT(60)
  <2>7. ASSUME NEW x \in C PROVE \E k \in 1 .. n : g[k] = x
    <3>1. PICK b \in B : b.serviceId = x
      BY <2>3
    <3>2. PICK j \in 1 .. n : e[j] = b
      BY <2>1
    <3>3. PICK k \in 1 .. n : f[k] = j
      BY <2>2
    <3> QED BY <2>4, <3>1, <3>2, <3>3
  <2> QED BY <2>5, <2>6, <2>7 DEF Bijection, Injection, IsInjective, Surjection
<1>12. \A k \in 1 .. n : c[k] = Shares(h, p)[g[k]]
  <2> HIDE DEF c, e
  <2> QED BY <1>6, <1>9
<1>13. IsDescending(c)
  <2> HIDE DEF c
  <2> QED BY <1>9 DEF IsDescending
<1> HIDE DEF g
<1> QED BY <1>1, <1>9, <1>10, <1>11, <1>12, <1>13

LEMMA CountedType ==
  ASSUME NEW c \in Seq(Nat), NEW L \in Nat
  PROVE  /\ IsFiniteSet(DOMAIN c) /\ \A i \in DOMAIN c : Counted(c, L)[i] \in Nat
         /\ SumOf(DOMAIN c, Counted(c, L)) \in Nat
<1>1. IsFiniteSet(DOMAIN c)
  <2>1. DOMAIN c = 1 .. Len(c) /\ 1 \in Int /\ Len(c) \in Int
    OBVIOUS
  <2> QED BY <2>1, FS_Interval
<1>2. \A i \in DOMAIN c : Counted(c, L)[i] \in Nat
  BY DEF Counted, Least, ConcentrationDivisor
<1> QED BY <1>1, <1>2, UnitsFinite

\* The cap is at least the baseline, and at least the cap of whatever counts for less.
LEMMA CappedAbove ==
  ASSUME NEW c \in Seq(Nat), IsDescending(c), NEW b \in Nat
  PROVE  _concentrationCapped(c, b) \in Nat /\ b <= _concentrationCapped(c, b)
<1> DEFINE L == _concentrationCapped(c, b)
<1>1. Solves(c, b, L)
  BY CappedSolves
<1>2. SumOf(DOMAIN c, Counted(c, b)) \in Nat
  BY CountedType
<1>3. AllowedBy(c, b, b)
  BY <1>2 DEF AllowedBy, ConcentrationDivisor
<1> HIDE DEF L
<1>4. L \in Nat /\ ~(b > L)
  BY <1>1, <1>3 DEF Solves
<1> QED BY <1>4 DEF L

LEMMA CappedGrows ==
  ASSUME NEW c \in Seq(Nat), IsDescending(c), NEW d \in Seq(Nat), IsDescending(d), NEW b \in Nat,
         \A X \in Nat : SumOf(DOMAIN c, Counted(c, X)) <= SumOf(DOMAIN d, Counted(d, X))
  PROVE  _concentrationCapped(c, b) <= _concentrationCapped(d, b)
<1> DEFINE L == _concentrationCapped(c, b)
           M == _concentrationCapped(d, b)
<1>1. Solves(c, b, L) /\ Solves(d, b, M)
  BY CappedSolves
<1> HIDE DEF L, M
<1>2. L \in Nat /\ M \in Nat /\ AllowedBy(c, b, L)
  BY <1>1 DEF Solves
<1>3. AllowedBy(d, b, L)
  <2>1. SumOf(DOMAIN c, Counted(c, L)) \in Nat /\ SumOf(DOMAIN d, Counted(d, L)) \in Nat
    BY <1>2, CountedType
  <2>2. SumOf(DOMAIN c, Counted(c, L)) <= SumOf(DOMAIN d, Counted(d, L))
    BY <1>2
  <2> QED BY <1>2, <2>1, <2>2 DEF AllowedBy, ConcentrationDivisor
<1>4. ~(L > M)
  BY <1>1, <1>2, <1>3 DEF Solves
<1> QED BY <1>2, <1>4 DEF L, M

\* What the counterparties count for in the cap and in the sum, in any order.
LEMMA GrowthIs ==
  ASSUME NEW h, IsHistory(h), NEW p, IsParams(p)
  PROVE  LET c == Contributions(h, p)
             C == Counterparties(h, p)
         IN  /\ SumSeq(c) = SumOf(C, Shares(h, p))
             /\ \A X \in Nat : SumOf(DOMAIN c, Counted(c, X)) = SumOf(C, Counted(Shares(h, p), X))
<1> DEFINE c == Contributions(h, p)
           C == Counterparties(h, p)
           n == Cardinality(C)
           s == Shares(h, p)
<1>1. /\ n \in Nat /\ c \in Seq(Nat) /\ DOMAIN c = 1 .. n
      /\ \E g \in Bijection(1 .. n, C) : \A k \in 1 .. n : c[k] = s[g[k]]
  BY ContributionsOK
<1>2. DOMAIN s = C
  BY DEF Shares
<1> HIDE DEF c, C, n, s
<1>3. PICK g \in Bijection(1 .. n, C) : \A k \in 1 .. n : c[k] = s[g[k]]
  BY <1>1
<1>4. IsFiniteSet(1 .. n) /\ \A k \in 1 .. n : c[k] \in Nat /\ g[k] \in C
  <2>1. IsFiniteSet(1 .. n)
    BY <1>1, FS_Interval
  <2>2. \A k \in 1 .. n : c[k] \in Nat
    BY <1>1
  <2>3. \A k \in 1 .. n : g[k] \in C
    BY <1>3 DEF Bijection, Injection
  <2> QED BY <2>1, <2>2, <2>3
<1>5. SumSeq(c) = SumOf(C, s)
  <2>1. SumSeq(c) = SumOf(1 .. n, c)
    BY <1>1, <1>4, SumSeqIs
  <2>2. SumOf(1 .. n, c) = SumOf(C, s)
    <3> DEFINE N == 1 .. n
    <3>1. g \in Bijection(N, C) /\ IsFiniteSet(N)
      BY <1>4
    <3>2. (\A k \in N : c[k] = s[g[k]]) /\ \A k \in N : c[k] \in Nat
      BY <1>3, <1>4
    <3> HIDE DEF N
    <3>3. SumOf(N, c) = SumOf(C, s)
      BY ONLY <3>1, <3>2, SumReordered
    <3> QED BY <3>3 DEF N
  <2> QED BY <2>1, <2>2
<1>6. ASSUME NEW X \in Nat
      PROVE  SumOf(DOMAIN c, Counted(c, X)) = SumOf(C, Counted(s, X))
  <2>1. \A k \in 1 .. n : Counted(c, X)[k] \in Nat
    BY <1>1, CountedType
  <2>2. \A k \in 1 .. n : Counted(c, X)[k] = Counted(s, X)[g[k]]
    BY <1>1, <1>2, <1>3, <1>4 DEF Counted
  <2>3. SumOf(1 .. n, Counted(c, X)) = SumOf(C, Counted(s, X))
    <3> DEFINE N == 1 .. n
               v == Counted(c, X)
               w == Counted(s, X)
    <3>1. g \in Bijection(N, C) /\ IsFiniteSet(N)
      BY <1>4
    <3>2. (\A k \in N : v[k] = w[g[k]]) /\ \A k \in N : v[k] \in Nat
      BY <2>1, <2>2
    <3> HIDE DEF N, v, w
    <3>3. SumOf(N, v) = SumOf(C, w)
      BY ONLY <3>1, <3>2, SumReordered
    <3> QED BY <3>3 DEF N, v, w
  <2> QED BY <1>1, <2>3
<1> QED BY <1>5, <1>6 DEF c, C, s

LEMMA GrowthType ==
  ASSUME NEW h, IsHistory(h), NEW p, IsParams(p)
  PROVE  SumSeq(Contributions(h, p)) \in Nat
<1>1. SumSeq(Contributions(h, p)) = SumOf(Counterparties(h, p), Shares(h, p))
  BY GrowthIs
<1>2. /\ IsFiniteSet(Counterparties(h, p))
      /\ \A s \in Counterparties(h, p) : Shares(h, p)[s] \in Nat
  BY CountingFinite, SharesType
<1>3. SumOf(Counterparties(h, p), Shares(h, p)) \in Nat
  BY <1>2, UnitsFinite
<1> QED BY <1>1, <1>3

\* More counterparties that each contribute no less give no lower limit.
LEMMA GrowthGrows ==
  ASSUME NEW h, IsHistory(h), NEW p, IsParams(p), NEW g, IsHistory(g), NEW q, IsParams(q),
         Counterparties(h, p) \subseteq Counterparties(g, q),
         \A s \in Counterparties(h, p) : Shares(h, p)[s] <= Shares(g, q)[s],
         NEW b \in Nat
  PROVE  /\ SumSeq(Contributions(h, p)) <= SumSeq(Contributions(g, q))
         /\ _concentrationCapped(Contributions(h, p), b)
              <= _concentrationCapped(Contributions(g, q), b)
<1> DEFINE C == Counterparties(h, p)
           D == Counterparties(g, q)
           s == Shares(h, p)
           t == Shares(g, q)
           c == Contributions(h, p)
           d == Contributions(g, q)
<1>1. IsFiniteSet(D) /\ C \subseteq D
  BY CountingFinite
<1>2. /\ \A x \in C : s[x] \in Nat /\ s[x] <= t[x]
      /\ \A x \in D : t[x] \in Nat
  BY SharesType
<1>3. DOMAIN s = C /\ DOMAIN t = D
  BY DEF Shares
<1>4. c \in Seq(Nat) /\ IsDescending(c) /\ d \in Seq(Nat) /\ IsDescending(d)
  BY ContributionsOK
<1>5. /\ SumSeq(c) = SumOf(C, s)
      /\ \A X \in Nat : SumOf(DOMAIN c, Counted(c, X)) = SumOf(C, Counted(s, X))
  BY GrowthIs
<1>6. /\ SumSeq(d) = SumOf(D, t)
      /\ \A X \in Nat : SumOf(DOMAIN d, Counted(d, X)) = SumOf(D, Counted(t, X))
  BY GrowthIs
<1> HIDE DEF C, D, s, t, c, d
<1>7. SumOf(C, s) <= SumOf(D, t)
  BY <1>1, <1>2, SumMonotone
<1>8. ASSUME NEW X \in Nat
      PROVE  SumOf(DOMAIN c, Counted(c, X)) <= SumOf(DOMAIN d, Counted(d, X))
  <2>1. \A x \in C : Counted(s, X)[x] \in Int /\ Counted(s, X)[x] <= Counted(t, X)[x]
    BY <1>1, <1>2, <1>3 DEF Counted, Least, ConcentrationDivisor
  <2>2. \A x \in D : Counted(t, X)[x] \in Nat
    BY <1>2, <1>3 DEF Counted, Least, ConcentrationDivisor
  <2>3. SumOf(C, Counted(s, X)) <= SumOf(D, Counted(t, X))
    BY <1>1, <2>1, <2>2, SumMonotone
  <2> QED BY <1>5, <1>6, <2>3
<1>9. _concentrationCapped(c, b) <= _concentrationCapped(d, b)
  BY <1>4, <1>8, CappedGrows
<1> QED BY <1>5, <1>6, <1>7, <1>9 DEF c, d

-----------------------------------------------------------------------------
(* The limit.                                                              *)

LEMMA CapType ==
  ASSUME NEW bonds, IsFiniteSet(bonds), NEW asset, \A b \in bonds : b.amount \in Nat
  PROVE  BondSum(bonds, asset) \in Nat /\ bondCap(bonds, asset) \in Nat
<1> DEFINE S == {b \in bonds : b.asset = asset}
           v == [b \in bonds |-> b.amount]
<1>1. IsFiniteSet(S) /\ \A b \in S : v[b] \in Nat
  BY FS_Subset
<1>2. SumOf(S, v) \in Nat
  <2> HIDE DEF S, v
  <2> QED BY <1>1, UnitsFinite
<1>3. BondSum(bonds, asset) \in Nat
  BY <1>2, BondSumIs
<1>4. (BondSum(bonds, asset) * BondCapBps) \div BPS \in Nat
  <2>1. BondSum(bonds, asset) * BondCapBps \in Nat
    BY <1>3 DEF BondCapBps
  <2> QED BY <2>1, QuotientNatural DEF BPS
<1> QED BY <1>3, <1>4 DEF bondCap

\* A limit that is not nothing is below the Bonds it stands on.
LEMMA CapBelowBonds ==
  ASSUME NEW bonds, IsFiniteSet(bonds), NEW asset, \A b \in bonds : b.amount \in Nat,
         bondCap(bonds, asset) > 0
  PROVE  bondCap(bonds, asset) < BondSum(bonds, asset)
<1> DEFINE B == BondSum(bonds, asset)
           q == (B * BondCapBps) \div BPS
<1>1. B \in Nat
  BY CapType
<1>2. bondCap(bonds, asset) = q
  BY DEF bondCap
<1> HIDE DEF B
<1>3. B * 9500 \in Int
  BY <1>1
<1>4. q \in Int /\ 10000 * q <= B * 9500
  BY <1>3, Quotient DEF BondCapBps, BPS
<1> HIDE DEF q
<1>5. q < B
  BY <1>1, <1>2, <1>4
<1> QED BY <1>2, <1>5 DEF B

LEMMA LimitType ==
  ASSUME NEW h, IsHistory(h), NEW p, IsParams(p),
         NEW bonds, IsFiniteSet(bonds), \A b \in bonds : b.amount \in Nat
  PROVE  creditLimit(h, bonds, p) \in Nat /\ creditLimit(h, bonds, p) <= bondCap(bonds, p.asset)
<1> DEFINE c == Contributions(h, p)
           cap == bondCap(bonds, p.asset)
           sum == SumSeq(c)
           capped == _concentrationCapped(c, p.baseline)
<1>1. cap \in Nat
  BY CapType
<1>2. c \in Seq(Nat) /\ IsDescending(c) /\ p.baseline \in Nat
  BY ContributionsOK DEF IsParams
<1>3. capped \in Nat
  <2> HIDE DEF c
  <2> QED BY <1>2, CappedAbove
<1>4. sum \in Nat
  BY GrowthType
<1>5. creditLimit(h, bonds, p) =
        IF Cardinality(Counterparties(h, p)) < MinCounterparties THEN Least(p.baseline, cap)
        ELSE Least(Least(p.baseline + sum, capped), cap)
  BY DEF creditLimit
<1> HIDE DEF cap, sum, capped
<1>6. creditLimit(h, bonds, p) \in Nat /\ creditLimit(h, bonds, p) <= cap
  BY <1>1, <1>2, <1>3, <1>4, <1>5 DEF Least
<1> QED BY <1>6 DEF cap

\* More counterparties that each contribute no less never lower the limit.
LEMMA LimitGrows ==
  ASSUME NEW h, IsHistory(h), NEW p, IsParams(p), NEW g, IsHistory(g), NEW q, IsParams(q),
         Counterparties(h, p) \subseteq Counterparties(g, q),
         \A s \in Counterparties(h, p) : Shares(h, p)[s] <= Shares(g, q)[s],
         p.baseline = q.baseline, p.asset = q.asset,
         NEW bonds, IsFiniteSet(bonds), \A b \in bonds : b.amount \in Nat
  PROVE  creditLimit(h, bonds, p) <= creditLimit(g, bonds, q)
<1> DEFINE b == p.baseline
           cap == bondCap(bonds, p.asset)
           m == Cardinality(Counterparties(h, p))
           n == Cardinality(Counterparties(g, q))
           sumH == SumSeq(Contributions(h, p))
           sumG == SumSeq(Contributions(g, q))
           capH == _concentrationCapped(Contributions(h, p), b)
           capG == _concentrationCapped(Contributions(g, q), b)
<1>1. b \in Nat /\ cap \in Nat
  BY CapType DEF IsParams
<1>2. m \in Nat /\ n \in Nat /\ m <= n
  BY CountingFinite, FS_Subset, FS_CardinalityType
<1>3. sumH <= sumG /\ capH <= capG
  <2> HIDE DEF b
  <2> QED BY <1>1, GrowthGrows
<1>4. sumH \in Nat /\ sumG \in Nat
  BY GrowthType
<1>5. capH \in Nat /\ capG \in Nat /\ b <= capG
  <2>1. /\ Contributions(h, p) \in Seq(Nat) /\ IsDescending(Contributions(h, p))
        /\ Contributions(g, q) \in Seq(Nat) /\ IsDescending(Contributions(g, q))
    BY ContributionsOK
  <2> HIDE DEF b
  <2> QED BY <1>1, <2>1, CappedAbove
<1>6. creditLimit(h, bonds, p) = IF m < MinCounterparties THEN Least(b, cap)
                                 ELSE Least(Least(b + sumH, capH), cap)
  BY DEF creditLimit
<1>7. creditLimit(g, bonds, q) = IF n < MinCounterparties THEN Least(b, cap)
                                 ELSE Least(Least(b + sumG, capG), cap)
  BY DEF creditLimit
<1> HIDE DEF b, cap, m, n, sumH, sumG, capH, capG
<1> QED BY <1>1, <1>2, <1>3, <1>4, <1>5, <1>6, <1>7 DEF Least, MinCounterparties

-----------------------------------------------------------------------------
(* Two histories compared.                                                 *)

LEMMA ContributionGrows ==
  ASSUME NEW a, a.sum \in Nat, NEW b, b.sum \in Nat, a.sum <= b.sum,
         NEW p, IsParams(p), NEW q, q.growthFactorBps = p.growthFactorBps
  PROVE  Contribution(a, p) <= Contribution(b, q)
<1> DEFINE x == a.sum
           y == b.sum
           f == p.growthFactorBps
<1>1. x \in Nat /\ y \in Nat /\ f \in Nat /\ x <= y
  BY DEF IsParams
<1> HIDE DEF x, y, f
<1>2. x * f <= y * f /\ x * f \in Int /\ y * f \in Int
  BY <1>1
<1>3. (x * f) \div BPS <= (y * f) \div BPS
  BY <1>2, QuotientMonotone DEF BPS
<1> QED BY <1>3 DEF Contribution, x, y, f

\* Larger buckets of more counterparties never lower the limit.
LEMMA BucketsGrow ==
  ASSUME NEW h, IsHistory(h), NEW p, IsParams(p), NEW g, IsHistory(g), NEW q, IsParams(q),
         Counterparties(h, p) \subseteq Counterparties(g, q),
         \A s \in Counterparties(h, p) : Bucket(h, p, s) <= Bucket(g, q, s),
         p.baseline = q.baseline, p.asset = q.asset, p.growthFactorBps = q.growthFactorBps,
         NEW bonds, IsFiniteSet(bonds), \A b \in bonds : b.amount \in Nat
  PROVE  creditLimit(h, bonds, p) <= creditLimit(g, bonds, q)
<1>1. ASSUME NEW s \in Counterparties(h, p) PROVE Shares(h, p)[s] <= Shares(g, q)[s]
  <2> DEFINE a == [serviceId |-> s, sum |-> Bucket(h, p, s)]
             b == [serviceId |-> s, sum |-> Bucket(g, q, s)]
  <2>1. a.sum \in Nat /\ b.sum \in Nat /\ a.sum <= b.sum
    BY BucketType
  <2>2. Shares(h, p)[s] = Contribution(a, p) /\ Shares(g, q)[s] = Contribution(b, q)
    BY DEF Shares
  <2> HIDE DEF a, b
  <2>3. q.growthFactorBps = p.growthFactorBps
    OBVIOUS
  <2>4. Contribution(a, p) <= Contribution(b, q)
    BY <2>1, <2>3, ContributionGrows
  <2> QED BY <2>2, <2>4
<1> QED BY <1>1, LimitGrows

\* R13.8 and R13.4: neither a record appended to the history nor time that goes
\* by lowers the limit.
THEOREM HistoryGrows ==
  ASSUME NEW h, IsHistory(h), NEW p, IsParams(p), NEW g, IsHistory(g), NEW q, IsParams(q),
         \A i \in DOMAIN h : i \in DOMAIN g /\ g[i] = h[i],
         p.evaluatedAt <= q.evaluatedAt,
         p.baseline = q.baseline, p.asset = q.asset, p.growthFactorBps = q.growthFactorBps,
         NEW bonds, IsFiniteSet(bonds), \A b \in bonds : b.amount \in Nat
  PROVE  creditLimit(h, bonds, p) <= creditLimit(g, bonds, q)
<1>1. ASSUME NEW i \in DOMAIN h
      PROVE  /\ Weights(h, p)[i] \in Nat /\ Weights(g, q)[i] \in Nat
             /\ Weights(h, p)[i] <= Weights(g, q)[i]
             /\ Counts(h[i], p) => Counts(g[i], q)
  <2>1. h[i].amount \in Nat /\ h[i].settledAt \in Int /\ g[i] = h[i] /\ i \in DOMAIN g
    BY DEF IsHistory
  <2>2. p.evaluatedAt \in Int /\ q.evaluatedAt \in Int
    BY DEF IsParams
  <2>3. Weighted(h[i], p) \in Nat /\ Weighted(h[i], q) \in Nat
    BY <2>1, <2>2, WeightedType
  <2>4. Weighted(h[i], p) <= Weighted(h[i], q)
    BY <2>1, <2>2, WeightedGrows
  <2>5. Weights(h, p)[i] = Weighted(h[i], p) /\ Weights(g, q)[i] = Weighted(h[i], q)
    BY <2>1 DEF Weights
  <2>6. Counts(h[i], p) => Counts(h[i], q)
    BY <2>3, <2>4 DEF Counts
  <2> QED BY <2>1, <2>3, <2>4, <2>5, <2>6
<1>2. \A i \in Counting(h, p) : i \in Counting(g, q) /\ g[i] = h[i]
  BY <1>1 DEF Counting
<1>3. Counterparties(h, p) \subseteq Counterparties(g, q)
  BY <1>2 DEF Counterparties
<1>4. ASSUME NEW s \in Counterparties(h, p) PROVE Bucket(h, p, s) <= Bucket(g, q, s)
  <2> DEFINE S == CountingOf(h, p, s)
             T == CountingOf(g, q, s)
             v == Weights(h, p)
             w == Weights(g, q)
  <2>1. S \subseteq T /\ S \subseteq DOMAIN h /\ T \subseteq DOMAIN g
    BY <1>2 DEF CountingOf, Counting
  <2>2. IsFiniteSet(T) /\ \A i \in T : w[i] \in Nat
    <3>1. IsFiniteSet(T) /\ \A i \in DOMAIN g : w[i] \in Nat
      BY CountingFinite
    <3> HIDE DEF T, w
    <3> QED BY <2>1, <3>1
  <2>3. \A i \in S : v[i] \in Int /\ v[i] <= w[i]
    <3>1. \A i \in DOMAIN h : v[i] \in Nat /\ v[i] <= w[i]
      BY <1>1
    <3> HIDE DEF S, v, w
    <3> QED BY <2>1, <3>1
  <2>4. Bucket(h, p, s) = SumOf(S, v) /\ Bucket(g, q, s) = SumOf(T, w)
    BY BucketIs
  <2> HIDE DEF S, T, v, w
  <2>5. SumOf(S, v) <= SumOf(T, w)
    BY <2>1, <2>2, <2>3, SumMonotone
  <2> QED BY <2>4, <2>5
<1> QED BY <1>3, <1>4, BucketsGrow

\* The filters of the loop other than the weight: a record that fails them, or
\* has no weight, adds nothing to a bucket.
Passes(r, p) ==
  /\ r.asset = p.asset /\ r.curated /\ r.bonded
  /\ r.firstDeliveryAt # 0 /\ r.firstDeliveryAt < r.settledAt

Adds(h, p, s) ==
  [i \in DOMAIN h |-> IF Passes(h[i], p) /\ h[i].serviceId = s THEN Weighted(h[i], p) ELSE 0]

LEMMA AddsType ==
  ASSUME NEW h, IsHistory(h), NEW p, IsParams(p), NEW s, NEW i \in DOMAIN h
  PROVE  Adds(h, p, s)[i] \in Nat
<1>1. Weights(h, p)[i] \in Nat
  BY CountingFinite
<1>2. Weighted(h[i], p) \in Nat
  BY <1>1 DEF Weights
<1> QED BY <1>2 DEF Adds

LEMMA BucketAdds ==
  ASSUME NEW h, IsHistory(h), NEW p, IsParams(p), NEW s
  PROVE  Bucket(h, p, s) = SumOf(DOMAIN h, Adds(h, p, s))
<1> DEFINE S == CountingOf(h, p, s)
           N == DOMAIN h \ S
           v == Adds(h, p, s)
           w == Weights(h, p)
<1>1. /\ IsFiniteSet(DOMAIN h) /\ IsFiniteSet(S) /\ S \subseteq DOMAIN h
      /\ IsFiniteSet(N) /\ S \cap N = {} /\ S \cup N = DOMAIN h
  <2>1. IsFiniteSet(DOMAIN h) /\ IsFiniteSet(S)
    BY CountingFinite
  <2>2. S \subseteq DOMAIN h
    BY DEF CountingOf, Counting
  <2>3. IsFiniteSet(N)
    <3> HIDE DEF S
    <3> QED BY <2>1, FS_Subset
  <2> HIDE DEF S
  <2> QED BY <2>1, <2>2, <2>3
<1>2. \A i \in S : w[i] = v[i]
  BY DEF CountingOf, Counting, Counts, Passes, Adds, Weights
<1>3. \A i \in N : v[i] = 0
  <2> SUFFICES ASSUME NEW i \in N PROVE v[i] = 0
    OBVIOUS
  <2>1. i \in DOMAIN h /\ (Passes(h[i], p) /\ h[i].serviceId = s => Weighted(h[i], p) = 0)
    BY DEF CountingOf, Counting, Counts, Passes
  <2> QED BY <2>1 DEF Adds
<1>4. \A i \in DOMAIN h : v[i] \in Nat
  BY AddsType
<1>5. Bucket(h, p, s) = SumOf(S, w)
  BY BucketIs
<1> HIDE DEF S, N, v, w
<1>6. SumOf(S, w) = SumOf(S, v)
  BY <1>2, SumSame
<1>7. SumOf(N, v) = 0
  BY <1>3, SumOfZeros
<1>8. SumOf(S \cup N, v) = SumOf(S, v) + SumOf(N, v)
  BY <1>1, <1>4, SumSplits
<1>9. SumOf(S, v) \in Nat
  BY <1>1, <1>4, UnitsFinite
<1> QED BY <1>1, <1>5, <1>6, <1>7, <1>8, <1>9 DEF v

\* R13.5: paying one amount as two settlements never raises the limit.  The
\* record i is split into g[i] and the last record of g.
THEOREM SplitsShrink ==
  ASSUME NEW h, IsHistory(h), NEW p, IsParams(p), NEW g, IsHistory(g),
         Len(g) = Len(h) + 1, NEW i \in DOMAIN h,
         \A j \in DOMAIN h \ {i} : g[j] = h[j],
         \A j \in {i, Len(g)} :
           /\ g[j].serviceId = h[i].serviceId /\ g[j].asset = h[i].asset
           /\ g[j].curated = h[i].curated /\ g[j].bonded = h[i].bonded
           /\ g[j].settledAt = h[i].settledAt
           /\ g[j].firstDeliveryAt = h[i].firstDeliveryAt,
         h[i].amount = g[i].amount + g[Len(g)].amount,
         NEW bonds, IsFiniteSet(bonds), \A b \in bonds : b.amount \in Nat
  PROVE  creditLimit(g, bonds, p) <= creditLimit(h, bonds, p)
<1> DEFINE n == Len(h)
           m == Len(g)
<1>1. /\ n \in Nat /\ m = n + 1 /\ DOMAIN h = 1 .. n /\ DOMAIN g = 1 .. m
      /\ i \in 1 .. n /\ i # m /\ m \notin 1 .. n /\ (1 .. m) \ {m} = 1 .. n
  BY DEF IsHistory
<1>2. /\ Weighted(g[i], p) \in Nat /\ Weighted(g[m], p) \in Nat /\ Weighted(h[i], p) \in Nat
      /\ Weighted(g[i], p) + Weighted(g[m], p) <= Weighted(h[i], p)
  <2>1. /\ g[i].amount \in Nat /\ g[i].settledAt \in Int /\ g[m].amount \in Nat
        /\ g[m].settledAt = g[i].settledAt /\ h[i].settledAt = g[i].settledAt
        /\ h[i].amount = g[i].amount + g[m].amount
        /\ h[i].amount \in Nat /\ h[i].settledAt \in Int /\ p.evaluatedAt \in Int
    BY <1>1 DEF IsHistory, IsParams
  <2>2. Weighted(g[i], p) + Weighted(g[m], p) <= Weighted(h[i], p)
    BY <2>1, WeightedSplits
  <2>3. Weighted(g[i], p) \in Nat /\ Weighted(g[m], p) \in Nat /\ Weighted(h[i], p) \in Nat
    BY <2>1, WeightedType
  <2> QED BY <2>2, <2>3
<1>3. \A j \in {i, m} : Passes(g[j], p) <=> Passes(h[i], p)
  BY DEF Passes
<1>4. Counterparties(g, p) \subseteq Counterparties(h, p)
  <2> SUFFICES ASSUME NEW j \in Counting(g, p)
               PROVE  \E k \in Counting(h, p) : h[k].serviceId = g[j].serviceId
    BY DEF Counterparties
  <2>1. j \in 1 .. m /\ Counts(g[j], p)
    BY <1>1 DEF Counting
  <2>2. CASE j \in {i, m}
    <3>1. Passes(h[i], p) /\ Weighted(g[j], p) # 0
      BY <1>3, <2>1, <2>2 DEF Counts, Passes
    <3>2. Weighted(h[i], p) # 0
      BY <1>2, <2>2, <3>1
    <3>3. i \in Counting(h, p) /\ h[i].serviceId = g[j].serviceId
      BY <2>2, <3>1, <3>2 DEF Counting, Counts, Passes
    <3> QED BY <3>3
  <2>3. CASE j \notin {i, m}
    <3>1. j \in DOMAIN h \ {i} /\ g[j] = h[j]
      BY <1>1, <2>1, <2>3
    <3>2. j \in Counting(h, p)
      BY <2>1, <3>1 DEF Counting
    <3> QED BY <3>1, <3>2
  <2> QED BY <2>2, <2>3
<1>5. ASSUME NEW s PROVE Bucket(g, p, s) <= Bucket(h, p, s)
  <2> DEFINE v == Adds(h, p, s)
             w == Adds(g, p, s)
             N == 1 .. n
             M == 1 .. m
  <2>1. IsFiniteSet(N) /\ IsFiniteSet(M) /\ i \in N /\ m \in M /\ M \ {m} = N
    <3>1. i \in N /\ m \in M /\ M \ {m} = N
      BY <1>1
    <3>2. 1 \in Int /\ n \in Int /\ m \in Int
      BY <1>1
    <3> HIDE DEF m, n
    <3> QED BY <3>1, <3>2, FS_Interval
  <2>2. /\ \A j \in N : v[j] \in Nat /\ w[j] \in Nat
        /\ \A j \in M : w[j] \in Nat
    BY <1>1, AddsType
  <2>3. \A j \in N \ {i} : w[j] = v[j]
    BY <1>1 DEF Adds
  <2>4. w[i] + w[m] <= v[i]
    <3>1. /\ w[i] = IF Passes(h[i], p) /\ h[i].serviceId = s THEN Weighted(g[i], p) ELSE 0
          /\ w[m] = IF Passes(h[i], p) /\ h[i].serviceId = s THEN Weighted(g[m], p) ELSE 0
          /\ v[i] = IF Passes(h[i], p) /\ h[i].serviceId = s THEN Weighted(h[i], p) ELSE 0
      BY <1>1, <1>3 DEF Adds
    <3> HIDE DEF v, w
    <3> QED BY <1>2, <3>1
  <2>5. Bucket(h, p, s) = SumOf(N, v) /\ Bucket(g, p, s) = SumOf(M, w)
    BY <1>1, BucketAdds
  <2> HIDE DEF v, w, N, M, m
  <2>6. SumOf(M, w) = w[m] + SumOf(N, w)
    BY <2>1, <2>2, SumWithout, ZenonT(60)
  <2>7. SumOf(N, w) = w[i] + SumOf(N \ {i}, w) /\ SumOf(N, v) = v[i] + SumOf(N \ {i}, v)
    <3>1. (\A j \in N : w[j] \in Nat) /\ (\A j \in N : v[j] \in Nat)
      BY <2>2
    <3>2. IsFiniteSet(N) /\ i \in N
      BY <2>1
    <3>3. SumOf(N, w) = w[i] + SumOf(N \ {i}, w)
      BY ONLY <3>1, <3>2, SumWithout
    <3>4. SumOf(N, v) = v[i] + SumOf(N \ {i}, v)
      BY ONLY <3>1, <3>2, SumWithout
    <3> QED BY <3>3, <3>4
  <2>8. SumOf(N \ {i}, w) = SumOf(N \ {i}, v)
    BY <2>3, SumSame
  <2>9. SumOf(N \ {i}, v) \in Nat
    <3>1. IsFiniteSet(N \ {i}) /\ \A j \in N \ {i} : v[j] \in Nat
      BY <2>1, <2>2, FS_Subset
    <3> QED BY <3>1, UnitsFinite
  <2>10. w[i] \in Nat /\ w[m] \in Nat /\ v[i] \in Nat
    BY <2>1, <2>2
  <2> QED BY <2>4, <2>5, <2>6, <2>7, <2>8, <2>9, <2>10
<1> QED BY <1>4, <1>5, BucketsGrow
=============================================================================
