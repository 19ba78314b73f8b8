------------------------- MODULE PercentilesProofs --------------------------
(***************************************************************************)
(* What rank and compute return, for every number of samples: the nearest  *)
(* rank of what was recorded, whatever the selections do to the order of   *)
(* the buffer.                                                             *)
(***************************************************************************)
EXTENDS Percentiles, FiniteSetTheorems, SequenceTheorems, TLAPS

(* Rounding up gives the least integer whose product reaches the dividend. *)
LeastReaching(f, size) ==
  /\ Ceiling(f[1] * size, f[2]) \in 1 .. size
  /\ \A k \in Nat : k * f[2] >= f[1] * size <=> k >= Ceiling(f[1] * size, f[2])

(* Ceiling is that rounding, for the fractions that compute asks for.      *)
LEMMA CeilingIsLeast ==
  ASSUME NEW size \in Nat \ {0}, NEW turn \in 1 .. 5
  PROVE  LeastReaching(Fractions[turn], size)
<1>1. CASE turn = 1
  BY <1>1, SMTT(30) DEF LeastReaching, Fractions, Ceiling
<1>2. CASE turn = 2
  BY <1>2, SMTT(30) DEF LeastReaching, Fractions, Ceiling
<1>3. CASE turn = 3
  BY <1>3, SMTT(30) DEF LeastReaching, Fractions, Ceiling
<1>4. CASE turn = 4
  BY <1>4, SMTT(30) DEF LeastReaching, Fractions, Ceiling
<1>5. CASE turn = 5
  BY <1>5, SMTT(30) DEF LeastReaching, Fractions, Ceiling
<1> QED  BY <1>1, <1>2, <1>3, <1>4, <1>5

(* A rank that is an index of the buffer, and the least one at which the   *)
(* share of the samples up to and including it reaches the fraction.       *)
NearestIndex(f, size, rank) ==
  /\ rank \in 0 .. size - 1
  /\ \A k \in 0 .. size - 1 : (k + 1) * f[2] >= f[1] * size <=> k >= rank

(***************************************************************************)
(* rank is the nearest rank method, for every number of samples and each   *)
(* fraction that compute asks for, and its clamp never takes effect        *)
(* (percentiles.hpp:69-81).                                                *)
(***************************************************************************)
THEOREM RankIsNearest ==
  ASSUME NEW size \in Nat \ {0}, NEW turn \in 1 .. 5
  PROVE  /\ NearestIndex(Fractions[turn], size, Rank(Fractions[turn], size))
         /\ Ceiling(Fractions[turn][1] * size, Fractions[turn][2]) - 1 < size
<1> DEFINE f == Fractions[turn]
           c == Ceiling(f[1] * size, f[2])
<1>1. LeastReaching(f, size)
  BY CeilingIsLeast
<1> HIDE DEF f
<1>2. c \in 1 .. size /\ Rank(f, size) = c - 1
  BY <1>1 DEF LeastReaching, Rank
<1>3. ASSUME NEW k \in 0 .. size - 1
      PROVE  (k + 1) * f[2] >= f[1] * size <=> k >= Rank(f, size)
  <2>1. (k + 1) * f[2] >= f[1] * size <=> k + 1 >= c
    BY <1>1 DEF LeastReaching
  <2> QED  BY <1>2, <2>1
<1>4. NearestIndex(f, size, Rank(f, size))
  BY <1>2, <1>3 DEF NearestIndex
<1> QED  BY <1>2, <1>4 DEF f

-----------------------------------------------------------------------------
(***************************************************************************)
(* How many samples are no larger than a value, counted over the buffer,   *)
(* and as the sum over the values of how often each was recorded.          *)
(***************************************************************************)
Holding(s, S) == {k \in DOMAIN s : s[k] \in S}

(* What holds of a set when it holds of its strict subsets holds of all    *)
(* subsets of a finite set.                                                *)
LEMMA StrictSubsets ==
  ASSUME NEW S, IsFiniteSet(S), NEW F,
         \A T \in SUBSET S : (\A U \in SUBSET T : U # T => U \in F) => T \in F
  PROVE  S \in F
<1> DEFINE R == StrictSubsetOrdering(S)
           Missing == (SUBSET S) \ F
<1>1. IsWellFoundedOn(R, SUBSET S)
  BY FS_StrictSubsetOrderingWellFounded, FS_FiniteSubsetsOfFinite
<1>2. SUFFICES ASSUME S \notin F PROVE FALSE
  OBVIOUS
<1>3. Missing \subseteq SUBSET S /\ Missing # {}
  BY <1>2
<1>4. PICK M \in Missing : \A U \in Missing : <<U, M>> \notin R
  <2> HIDE DEF R, Missing
  <2> QED  BY <1>1, <1>3, WFMin
<1>5. ASSUME NEW U \in SUBSET M, U # M PROVE U \in F
  <2>1. <<U, M>> \in R
    BY <1>4, <1>5 DEF StrictSubsetOrdering
  <2> QED  BY <1>4, <2>1
<1> QED  BY <1>4, <1>5

(* The recursion behind MapThenSumSet, over the values of S.               *)
IsSums(g, count, S) ==
  g = [T \in SUBSET S |->
         IF T = {} THEN 0
         ELSE LET w == CHOOSE w \in T : TRUE
              IN  count[w] + g[T \ {w}]]

(* The number of samples with one of the values is its only solution.      *)
LEMMA SumsAreHoldings ==
  ASSUME NEW s \in Seq(Latencies), NEW S \in SUBSET Latencies, IsFiniteSet(S)
  PROVE  LET g == [T \in SUBSET S |-> Cardinality(Holding(s, T))]
         IN  /\ IsSums(g, Counts(s), S)
             /\ \A h : IsSums(h, Counts(s), S) => h = g
<1> DEFINE g == [T \in SUBSET S |-> Cardinality(Holding(s, T))]
<1>1. ASSUME NEW T \in SUBSET S
      PROVE  IsFiniteSet(Holding(s, T)) /\ Cardinality(Holding(s, T)) \in Nat
  <2>1. IsFiniteSet(1 .. Len(s)) /\ Holding(s, T) \subseteq 1 .. Len(s)
    BY FS_Interval DEF Holding
  <2> QED  BY <2>1, FS_Subset, FS_CardinalityType
<1>2. ASSUME NEW T \in SUBSET S, NEW w \in T
      PROVE  g[T] = Counts(s)[w] + g[T \ {w}]
  <2> DEFINE A == Holding(s, {w})
             B == Holding(s, T \ {w})
  <2>1. A \cup B = Holding(s, T) /\ A \cap B = {}
    BY DEF Holding
  <2>2. {w} \in SUBSET S /\ T \ {w} \in SUBSET S
    OBVIOUS
  <2>3. /\ IsFiniteSet(A) /\ IsFiniteSet(B)
        /\ Cardinality(A) \in Nat /\ Cardinality(B) \in Nat
    BY <1>1, <2>2
  <2>4. Cardinality(A \cup B) = Cardinality(A) + Cardinality(B)
    <3>1. Cardinality(A \cap B) = 0
      BY <2>1, FS_EmptySet
    <3>2. IsFiniteSet(A) /\ IsFiniteSet(B) =>
            Cardinality(A \cup B) = Cardinality(A) + Cardinality(B) - Cardinality(A \cap B)
      <4> HIDE DEF A, B
      <4> QED  BY FS_Union
    <3> HIDE DEF A, B
    <3> QED  BY <2>3, <3>1, <3>2
  <2>5. Counts(s)[w] = Cardinality(A)
    <3>1. A = {k \in DOMAIN s : s[k] = w}
      BY DEF Holding
    <3> QED  BY <3>1 DEF Counts
  <2> QED  BY <2>1, <2>2, <2>4, <2>5
<1>3. g[{}] = 0
  <2>1. Holding(s, {}) = {}
    BY DEF Holding
  <2> QED  BY <2>1, FS_EmptySet
<1> DEFINE Body(h, T) == IF T = {} THEN 0
                         ELSE LET w == CHOOSE w \in T : TRUE
                              IN  Counts(s)[w] + h[T \ {w}]
<1>4. ASSUME NEW T \in SUBSET S PROVE g[T] = Body(g, T)
  <2>1. CASE T = {}
    BY <1>3, <2>1
  <2>2. CASE T # {}
    <3> DEFINE w == CHOOSE w \in T : TRUE
    <3>1. w \in T
      BY <2>2
    <3>2. g[T] = Counts(s)[w] + g[T \ {w}]
      <4> HIDE DEF w, g
      <4> QED  BY <1>2, <3>1
    <3> QED  BY <2>2, <3>2
  <2> QED  BY <2>1, <2>2
<1>5. IsSums(g, Counts(s), S)
  <2>1. g = [T \in SUBSET S |-> g[T]]
    OBVIOUS
  <2>2. [T \in SUBSET S |-> g[T]] = [T \in SUBSET S |-> Body(g, T)]
    <3> HIDE DEF g, Body
    <3> QED  BY <1>4
  <2> QED  BY <2>1, <2>2 DEF IsSums
<1>6. ASSUME NEW h, IsSums(h, Counts(s), S) PROVE h = g
  <2>1. ASSUME NEW T \in SUBSET S PROVE h[T] = Body(h, T)
    BY <1>6 DEF IsSums
  <2> DEFINE F == {T \in SUBSET S : h[T] = g[T]}
  <2>2. ASSUME NEW T \in SUBSET S, \A U \in SUBSET T : U # T => U \in F
        PROVE  T \in F
    <3>1. CASE T = {}
      BY <1>4, <2>1, <3>1
    <3>2. CASE T # {}
      <4> DEFINE w == CHOOSE w \in T : TRUE
      <4>1. w \in T
        BY <3>2
      <4>2. T \ {w} \in F
        <5> HIDE DEF w, F
        <5> QED  BY <2>2, <4>1
      <4>3. h[T] = Counts(s)[w] + h[T \ {w}] /\ g[T] = Counts(s)[w] + g[T \ {w}]
        <5> HIDE DEF g
        <5> QED  BY <1>4, <2>1, <3>2
      <4> HIDE DEF w, g
      <4> QED  BY <4>2, <4>3
    <3> QED  BY <3>1, <3>2
  <2>3. ASSUME NEW T \in SUBSET S PROVE h[T] = g[T]
    <3>1. \A V \in SUBSET T : (\A U \in SUBSET V : U # V => U \in F) => V \in F
      <4> HIDE DEF F
      <4> QED  BY <2>2
    <3>2. T \in F
      <4> HIDE DEF F
      <4> QED  BY <3>1, FS_Subset, StrictSubsets
    <3> QED  BY <3>2
  <2>4. h = [T \in SUBSET S |-> h[T]]
    BY <1>6 DEF IsSums
  <2>5. g = [T \in SUBSET S |-> g[T]]
    OBVIOUS
  <2> HIDE DEF g
  <2> QED  BY <2>3, <2>4, <2>5
<1> QED  BY <1>5, <1>6

(* What AtMost sums, with the counts as a parameter.                       *)
SumOver(count, S) ==
  LET iter[T \in SUBSET S] ==
        IF T = {} THEN 0
        ELSE LET w == CHOOSE w \in T : TRUE
             IN  count[w] + iter[T \ {w}]
  IN  iter[S]

(* How many recorded samples are at most v, now and after a step. *)
LEMMA AtMostIsSum ==
  ASSUME NEW v
  PROVE  /\ AtMost(v) = SumOver(recorded, {w \in Latencies : w <= v})
         /\ AtMost(v)' = SumOver(recorded', {w \in Latencies : w <= v})
BY DEF AtMost, MapThenSumSet, MapThenFoldSet, SumOver

(* AtMost counts the samples that are no larger.                           *)
LEMMA AtMostCounts ==
  ASSUME NEW s \in Seq(Latencies), recorded = Counts(s), NEW v \in Latencies
  PROVE  AtMost(v) = Cardinality({k \in DOMAIN s : s[k] <= v})
<1> DEFINE S == {w \in Latencies : w <= v}
           g == [T \in SUBSET S |-> Cardinality(Holding(s, T))]
           h == CHOOSE h : IsSums(h, recorded, S)
<1>1. IsFiniteSet(S)
  <2>1. v \in Nat /\ S \subseteq 0 .. v
    <3>1. \A w \in Latencies : w \in Nat
      BY LatenciesAssumption DEF LatenciesAssumption
    <3> QED  BY <3>1
  <2>2. IsFiniteSet(0 .. v)
    BY <2>1, FS_Interval
  <2> HIDE DEF S
  <2> QED  BY <2>1, <2>2, FS_Subset
<1>2. IsSums(g, recorded, S) /\ \A f : IsSums(f, recorded, S) => f = g
  <2> HIDE DEF S
  <2>1. S \in SUBSET Latencies
    BY DEF S
  <2> QED  BY <1>1, <2>1, SumsAreHoldings
<1>3. h = g
  <2> HIDE DEF g, S
  <2> QED  BY <1>2
<1>4. AtMost(v) = h[S]
  BY DEF AtMost, MapThenSumSet, MapThenFoldSet, IsSums
<1>5. g[S] = Cardinality(Holding(s, S))
  OBVIOUS
<1>6. Holding(s, S) = {k \in DOMAIN s : s[k] <= v}
  <2>1. \A k \in DOMAIN s : s[k] \in Latencies
    OBVIOUS
  <2> QED  BY <2>1 DEF Holding
<1> HIDE DEF h, g, S
<1> QED  BY <1>3, <1>4, <1>5, <1>6

-----------------------------------------------------------------------------
(***************************************************************************)
(* The invariant: the buffer holds what was recorded, and what compute has *)
(* selected so far are nearest ranks of it.                                *)
(***************************************************************************)
IInv ==
  /\ samples \in Seq(Latencies)
  /\ recorded = Counts(samples)
  /\ computing \in BOOLEAN
  /\ computing => samples # << >> /\ Len(out) < Turns
  /\ out \in Seq(Nat)
  /\ NearestRank

(* The candidates of a percentile, as in NearestRank.                      *)
Candidates(turn) == {v \in Reached(turn) : recorded[v] > 0}

(* The sample a selection leaves at its rank has at least as many samples  *)
(* up to it as its position says, and no smaller value has.                *)
LEMMA SelectedIsLeast ==
  ASSUME samples \in Seq(Latencies), recorded = Counts(samples),
         NEW k \in 1 .. Len(samples), NEW t \in NthElement(samples, k),
         NEW v \in Latencies
  PROVE  /\ t \in Seq(Latencies) /\ Len(t) = Len(samples) /\ recorded = Counts(t)
         /\ t[k] \in Latencies /\ recorded[t[k]] > 0
         /\ AtMost(v) \in 0 .. Len(samples)
         /\ recorded[v] > 0 => AtMost(v) > 0
         /\ AtMost(v) >= k <=> v >= t[k]
<1> DEFINE n == Len(samples)
<1>1. t \in [1 .. n -> Latencies] /\ Counts(t) = recorded
  BY DEF NthElement
<1>2. n \in Nat /\ t \in Seq(Latencies) /\ Len(t) = n /\ DOMAIN t = 1 .. n
  BY <1>1
<1>3. t[k] \in Latencies /\ v \in Nat /\ t[k] \in Nat
  BY <1>1, LatenciesAssumption DEF LatenciesAssumption
<1> DEFINE Up == {m \in DOMAIN t : t[m] <= v}
           Same(w) == {m \in DOMAIN t : t[m] = w}
<1>4. AtMost(v) = Cardinality(Up)
  BY <1>1, <1>2, AtMostCounts
<1>5. IsFiniteSet(1 .. n) /\ Cardinality(1 .. n) = n /\ Up \in SUBSET (1 .. n)
  <2>1. Up \in SUBSET (1 .. n)
    BY <1>2
  <2>2. IsFiniteSet(1 .. n) /\ Cardinality(1 .. n) = IF 1 > n THEN 0 ELSE n - 1 + 1
    <3> HIDE DEF n
    <3> QED  BY <1>2, FS_Interval
  <2> HIDE DEF Up, n
  <2> QED  BY <1>2, <2>1, <2>2
<1>6. IsFiniteSet(Up) /\ Cardinality(Up) \in 0 .. n
  <2> HIDE DEF Up, n
  <2>1. IsFiniteSet(Up) /\ Cardinality(Up) <= Cardinality(1 .. n)
    BY <1>5, FS_Subset
  <2> QED  BY <1>2, <1>5, <2>1, FS_CardinalityType
<1>7. ASSUME NEW w \in Latencies
      PROVE  recorded[w] = Cardinality(Same(w)) /\ IsFiniteSet(Same(w))
  <2>1. recorded[w] = Cardinality(Same(w))
    BY <1>1 DEF Counts
  <2>2. Same(w) \in SUBSET (1 .. n)
    BY <1>2
  <2> HIDE DEF Same, n
  <2> QED  BY <1>5, <2>1, <2>2, FS_Subset
<1>8. recorded[t[k]] > 0
  <2>1. k \in Same(t[k])
    BY <1>2
  <2> HIDE DEF Same
  <2> QED  BY <1>3, <1>7, <2>1, FS_EmptySet, FS_CardinalityType
<1>9. recorded[v] > 0 => Cardinality(Up) > 0
  <2>1. Same(v) \in SUBSET Up
    BY <1>3
  <2> HIDE DEF Same, Up
  <2>2. Cardinality(Same(v)) <= Cardinality(Up)
    BY <1>6, <2>1, FS_Subset
  <2> QED  BY <1>6, <1>7, <2>2, FS_CardinalityType
<1>10. ASSUME v >= t[k] PROVE Cardinality(Up) >= k
  <2>1. 1 .. k \in SUBSET Up
    <3>1. ASSUME NEW m \in 1 .. k PROVE m \in 1 .. n /\ t[m] <= v
      <4>1. m \in 1 .. n
        BY <1>2
      <4>2. t[m] \in Latencies /\ t[m] \in Nat
        BY <1>1, <4>1, LatenciesAssumption DEF LatenciesAssumption
      <4>3. m < k => t[m] <= t[k]
        BY <4>1 DEF NthElement
      <4> QED  BY <1>3, <1>10, <4>1, <4>2, <4>3
    <3> QED  BY <1>2, <3>1
  <2>2. Cardinality(1 .. k) = k
    BY FS_Interval
  <2> HIDE DEF Up
  <2> QED  BY <1>6, <2>1, <2>2, FS_Subset
<1>11. ASSUME v < t[k] PROVE Cardinality(Up) < k
  <2>1. Up \in SUBSET (1 .. k - 1)
    <3>1. ASSUME NEW m \in 1 .. n, t[m] <= v PROVE m < k
      <4>1. t[m] \in Nat
        BY <1>1, LatenciesAssumption DEF LatenciesAssumption
      <4>2. m > k => t[m] >= t[k]
        BY DEF NthElement
      <4> QED  BY <1>2, <1>3, <1>11, <3>1, <4>1, <4>2
    <3> QED  BY <1>2, <3>1
  <2>2. IsFiniteSet(1 .. k - 1) /\ Cardinality(1 .. k - 1) = k - 1
    BY FS_Interval
  <2> HIDE DEF Up
  <2>3. Cardinality(Up) <= k - 1
    BY <2>1, <2>2, FS_Subset
  <2> QED  BY <1>6, <2>3
<1> HIDE DEF Up
<1> QED  BY <1>1, <1>2, <1>3, <1>4, <1>6, <1>8, <1>9, <1>10, <1>11

(* What compute selects is the nearest rank of the buffer.                 *)
LEMMA SelectedIsNearest ==
  ASSUME samples \in Seq(Latencies), recorded = Counts(samples), samples # << >>,
         NEW turn \in 1 .. Turns, NEW t \in NthElement(samples, Target(turn) + 1)
  PROVE  LET x == t[Target(turn) + 1]
         IN  /\ t \in Seq(Latencies) /\ Len(t) = Len(samples) /\ recorded = Counts(t)
             /\ x \in Candidates(turn)
             /\ \A v \in Candidates(turn) : x <= v
<1> DEFINE n == Len(samples)
           k == Target(turn) + 1
           x == t[k]
<1>1. n \in Nat \ {0}
  OBVIOUS
<1>2. k \in 1 .. n
  <2>1. CASE turn \in 2 .. 6
    <3>1. Rank(Fractions[turn - 1], n) \in 0 .. n - 1
      <4>1. turn - 1 \in 1 .. 5
        BY <2>1
      <4> HIDE DEF n
      <4> QED  BY <1>1, <4>1, RankIsNearest DEF NearestIndex
    <3> QED  BY <1>1, <2>1, <3>1 DEF Target
  <2> QED  BY <1>1, <2>1 DEF Target, Turns
<1>3. /\ t \in Seq(Latencies) /\ Len(t) = n /\ recorded = Counts(t)
      /\ x \in Latencies /\ recorded[x] > 0
  <2>1. samples[1] \in Latencies
    BY <1>1
  <2>2. t \in NthElement(samples, k)
    OBVIOUS
  <2> HIDE DEF k
  <2> QED  BY <1>2, <2>1, <2>2, SelectedIsLeast
<1>4. ASSUME NEW v \in Latencies
      PROVE  /\ AtMost(v) \in 0 .. n
             /\ recorded[v] > 0 => AtMost(v) > 0
             /\ AtMost(v) >= k <=> v >= x
  <2>1. t \in NthElement(samples, k)
    OBVIOUS
  <2> HIDE DEF k
  <2> QED  BY <1>2, <2>1, SelectedIsLeast
<1>5. ASSUME NEW v \in Latencies, recorded[v] > 0
      PROVE  v \in Reached(turn) <=> v >= x
  <2> HIDE DEF x
  <2>1. CASE turn = 1
    <3>1. k = 1 /\ Reached(turn) = Latencies
      BY <2>1 DEF Target, Reached, Turns
    <3> HIDE DEF k
    <3> QED  BY <1>4, <1>5, <3>1
  <2>2. CASE turn = Turns
    <3>1. k = n
      BY <1>1, <2>2 DEF Target, Turns
    <3>2. Reached(turn) = {w \in Latencies : AtMost(w) = n}
      BY <2>2 DEF Reached, Turns
    <3> HIDE DEF k, n
    <3> QED  BY <1>1, <1>4, <3>1, <3>2
  <2>3. CASE turn \in 2 .. 6
    <3> DEFINE f == Fractions[turn - 1]
    <3>1. turn - 1 \in 1 .. 5 /\ k = Rank(f, n) + 1
      BY <2>3 DEF Target
    <3>2. Reached(turn) = {w \in Latencies : AtMost(w) * f[2] >= f[1] * n}
      BY <2>3 DEF Reached, Turns
    <3>3. NearestIndex(f, n, Rank(f, n))
      BY <1>1, <3>1, RankIsNearest
    <3>4. AtMost(v) - 1 \in 0 .. n - 1
      BY <1>1, <1>4, <1>5
    <3> HIDE DEF f, k
    <3>5. ((AtMost(v) - 1) + 1) * f[2] >= f[1] * n <=> AtMost(v) - 1 >= Rank(f, n)
      BY <3>3, <3>4 DEF NearestIndex
    <3>6. (AtMost(v) - 1) + 1 = AtMost(v)
      BY <1>4
    <3>7. Rank(f, n) \in 0 .. n - 1
      BY <3>3 DEF NearestIndex
    <3>8. AtMost(v) * f[2] >= f[1] * n <=> AtMost(v) >= k
      BY <1>1, <1>4, <3>1, <3>5, <3>6, <3>7
    <3> QED  BY <1>4, <3>2, <3>8
  <2> QED  BY <2>1, <2>2, <2>3 DEF Turns
<1>6. Reached(turn) \subseteq Latencies
  BY DEF Reached, Turns
<1>7. x \in Nat
  BY <1>3, LatenciesAssumption DEF LatenciesAssumption
<1> HIDE DEF x
<1>8. x \in Candidates(turn)
  BY <1>3, <1>5, <1>7 DEF Candidates
<1>9. \A v \in Candidates(turn) : x <= v
  <2>1. ASSUME NEW v \in Candidates(turn) PROVE x <= v
    <3>1. v \in Nat /\ v \in Latencies /\ recorded[v] > 0 /\ v \in Reached(turn)
      BY <1>6, LatenciesAssumption DEF Candidates, LatenciesAssumption
    <3> QED  BY <1>5, <1>7, <3>1
  <2> QED  BY <2>1
<1> QED  BY <1>3, <1>8, <1>9 DEF x

(* At the beginning. *)
LEMMA InitIInv == Init => IInv
<1> SUFFICES ASSUME Init PROVE IInv
  OBVIOUS
<1>1. samples = << >> /\ out = << >> /\ recorded = [v \in Latencies |-> 0] /\ computing = FALSE
  BY DEF Init
<1>2. Counts(samples) = recorded
  <2>1. \A v \in Latencies : {k \in DOMAIN samples : samples[k] = v} = {}
    BY <1>1
  <2> QED  BY <1>1, <2>1, FS_EmptySet DEF Counts
<1>3. NearestRank
  BY <1>1 DEF NearestRank
<1>4. samples \in Seq(Latencies) /\ out \in Seq(Nat)
  BY <1>1
<1> QED  BY <1>1, <1>2, <1>3, <1>4 DEF IInv

(* A record changes the counts as it changes the buffer.                   *)
LEMMA RecordKeeps ==
  ASSUME IInv, NEW v \in Latencies, Record(v)
  PROVE  IInv'
<1>1. /\ samples \in Seq(Latencies) /\ samples' = Append(samples, v)
      /\ recorded' = [recorded EXCEPT ![v] = @ + 1]
      /\ out' = << >> /\ computing' = FALSE
  BY DEF IInv, Record
<1> DEFINE n == Len(samples)
           At(s, w) == {k \in DOMAIN s : s[k] = w}
<1>2. /\ n \in Nat /\ samples' \in Seq(Latencies) /\ Len(samples') = n + 1
      /\ \A k \in 1 .. n : samples'[k] = samples[k]
      /\ samples'[n + 1] = v
  BY <1>1
<1>5. IsFiniteSet(1 .. n)
  <2> HIDE DEF n
  <2> QED  BY <1>2, FS_Interval
<1>3. ASSUME NEW w \in Latencies
      PROVE  recorded'[w] = Cardinality(At(samples', w))
  <2>1. IsFiniteSet(At(samples, w)) /\ n + 1 \notin At(samples, w)
    <3>1. At(samples, w) \in SUBSET (1 .. n) /\ IsFiniteSet(1 .. n)
      BY <1>1, <1>5
    <3> HIDE DEF At
    <3> QED  BY <1>2, <3>1, FS_Subset
  <2>2. recorded[w] = Cardinality(At(samples, w)) /\ recorded \in [Latencies -> Nat]
    <3>1. ASSUME NEW u \in Latencies PROVE Cardinality(At(samples, u)) \in Nat
      <4>1. At(samples, u) \in SUBSET (1 .. n) /\ IsFiniteSet(1 .. n)
      BY <1>1, <1>5
      <4> HIDE DEF At
      <4> QED  BY <4>1, FS_Subset, FS_CardinalityType
    <3> QED  BY <3>1 DEF IInv, Counts
  <2>3. CASE w = v
    <3>1. At(samples', w) = At(samples, w) \cup {n + 1}
      BY <1>1, <1>2, <2>3
    <3>2. recorded'[w] = recorded[w] + 1
      BY <1>1, <2>2, <2>3
    <3> HIDE DEF At, n
    <3> QED  BY <2>1, <2>2, <3>1, <3>2, FS_AddElement
  <2>4. CASE w # v
    <3>1. At(samples', w) = At(samples, w)
      BY <1>1, <1>2, <2>4
    <3>2. recorded'[w] = recorded[w]
      BY <1>1, <2>2, <2>4
    <3> QED  BY <2>2, <3>1, <3>2
  <2> QED  BY <2>3, <2>4
<1>4. recorded' = Counts(samples')
  <2>1. recorded' = [w \in Latencies |-> recorded'[w]]
    BY <1>1 DEF IInv, Counts
  <2> QED  BY <1>3, <2>1 DEF Counts
<1>6. NearestRank'
  BY <1>1 DEF NearestRank
<1>7. out' \in Seq(Nat)
  BY <1>1
<1> HIDE DEF n, At
<1> QED  BY <1>1, <1>2, <1>4, <1>6, <1>7 DEF IInv

(* A selection rearranges the buffer, and adds the nearest rank of its     *)
(* turn to those found.                                                    *)
LEMMA SelectKeeps ==
  ASSUME IInv, Select
  PROVE  IInv'
<1> DEFINE turn == Len(out) + 1
<1>1. PICK t \in NthElement(samples, Target(turn) + 1) :
        samples' = t /\ out' = Append(out, t[Target(turn) + 1])
  BY DEF Select
<1>2. /\ samples \in Seq(Latencies) /\ recorded = Counts(samples) /\ samples # << >>
      /\ out \in Seq(Nat) /\ Len(out) < Turns /\ recorded' = recorded /\ NearestRank
  BY DEF IInv, Select
<1>3. turn \in 1 .. Turns
  BY <1>2 DEF Turns
<1> DEFINE x == t[Target(turn) + 1]
<1>4. /\ t \in Seq(Latencies) /\ Len(t) = Len(samples) /\ recorded = Counts(t)
      /\ x \in Candidates(turn)
      /\ \A v \in Candidates(turn) : x <= v
  <2>1. t \in NthElement(samples, Target(turn) + 1)
    BY <1>1
  <2> HIDE DEF turn
  <2> QED  BY <1>2, <1>3, <2>1, SelectedIsNearest
<1>5. /\ samples' \in Seq(Latencies) /\ recorded' = Counts(samples') /\ samples' # << >>
      /\ Len(samples') = Len(samples)
  BY <1>1, <1>2, <1>4
<1>6. x \in Nat
  <2>1. \A u \in 1 .. Turns : Reached(u) \subseteq Latencies
    BY DEF Reached, Turns
  <2> HIDE DEF x, turn
  <2> QED  BY <1>3, <1>4, <2>1, LatenciesAssumption DEF Candidates, LatenciesAssumption
<1>7. /\ out' \in Seq(Nat) /\ Len(out') = turn
      /\ \A u \in 1 .. turn - 1 : out'[u] = out[u]
      /\ out'[turn] = x
  <2>1. out' = Append(out, x)
    BY <1>1
  <2> HIDE DEF x
  <2> QED  BY <1>2, <1>6, <2>1
<1>8. ASSUME NEW u \in 1 .. Turns PROVE Candidates(u)' = Candidates(u)
  <2>1. \A v \in Latencies : AtMost(v)' = AtMost(v)
    BY <1>2, AtMostIsSum
  <2>2. Reached(u)' = Reached(u)
    BY <1>5, <2>1 DEF Reached
  <2> QED  BY <1>2, <2>2 DEF Candidates
<1>9. ASSUME NEW u \in DOMAIN out'
      PROVE  out'[u] \in Candidates(u)' /\ \A v \in Candidates(u)' : out'[u] <= v
  <2>1. u \in 1 .. turn /\ u \in 1 .. Turns
    <3>1. DOMAIN out' = 1 .. turn
      BY <1>7
    <3> HIDE DEF turn
    <3> QED  BY <1>3, <3>1 DEF Turns
  <2>2. CASE u = turn
    BY <1>4, <1>7, <1>8, <2>1, <2>2
  <2>3. CASE u # turn
    <3>1. u \in DOMAIN out
      BY <1>2, <2>1, <2>3
    <3>2. out[u] \in Candidates(u) /\ \A v \in Candidates(u) : out[u] <= v
      BY <1>2, <3>1 DEF NearestRank, Candidates
    <3> HIDE DEF turn, x
    <3> QED  BY <1>7, <1>8, <2>1, <2>3, <3>2
  <2> QED  BY <2>2, <2>3
<1>10. NearestRank'
  BY <1>9 DEF NearestRank, Candidates
<1>11. computing' \in BOOLEAN /\ (computing' => Len(out') < Turns)
  <2>1. computing' = (Len(out') < Turns)
    BY DEF Select
  <2>2. Len(out') \in Nat /\ Turns \in Nat
    BY <1>7 DEF Turns
  <2>3. CASE Len(out') < Turns
    BY <2>1, <2>3
  <2>4. CASE ~(Len(out') < Turns)
    <3>1. (Len(out') < Turns) = FALSE
      BY <2>2, <2>4
    <3> QED  BY <2>1, <3>1
  <2> QED  BY <2>3, <2>4
<1> QED  BY <1>5, <1>7, <1>10, <1>11 DEF IInv

(* Every step keeps it. *)
LEMMA NextIInv == IInv /\ [Next]_vars => IInv'
<1> SUFFICES ASSUME IInv, [Next]_vars PROVE IInv'
  OBVIOUS
<1>1. ASSUME NEW v \in Latencies, Record(v) PROVE IInv'
  BY <1>1, RecordKeeps
<1>2. CASE Clear
  <2>1. /\ samples' = << >> /\ recorded' = [v \in Latencies |-> 0] /\ out' = << >>
        /\ computing' = FALSE
    BY <1>2 DEF Clear, IInv
  <2>2. \A v \in Latencies : {k \in DOMAIN samples' : samples'[k] = v} = {}
    BY <2>1
  <2>3. recorded' = Counts(samples')
    BY <2>1, <2>2, FS_EmptySet DEF Counts
  <2>4. NearestRank'
    BY <2>1 DEF NearestRank
  <2>5. samples' \in Seq(Latencies) /\ out' \in Seq(Nat)
    BY <2>1
  <2> QED  BY <2>1, <2>3, <2>4, <2>5 DEF IInv
<1>3. CASE ComputeEmpty
  <2>1. /\ samples' = samples /\ samples = << >> /\ recorded' = recorded /\ computing' = FALSE
        /\ out' = [turn \in 1 .. Turns |-> 0]
    BY <1>3 DEF ComputeEmpty, IInv
  <2>2. out' \in Seq(Nat)
    BY <2>1, IsASeq DEF Turns
  <2>3. NearestRank'
    BY <2>1 DEF NearestRank
  <2> QED  BY <2>1, <2>2, <2>3 DEF IInv, Counts
<1>4. CASE Compute
  <2>1. /\ samples' = samples /\ samples # << >> /\ recorded' = recorded /\ computing'
        /\ out' = << >>
    BY <1>4 DEF Compute
  <2>2. NearestRank'
    BY <2>1 DEF NearestRank
  <2> QED  BY <2>1, <2>2, <1>4 DEF IInv, Turns, Compute, Counts
<1>5. CASE Select
  BY <1>5, SelectKeeps
<1>6. CASE UNCHANGED vars
  <2>1. \A v : AtMost(v)' = AtMost(v)
    BY <1>6, AtMostIsSum DEF vars
  <2>2. \A turn : Reached(turn)' = Reached(turn)
    BY <1>6, <2>1 DEF vars, Reached
  <2>3. NearestRank' <=> NearestRank
    BY <1>6, <2>2 DEF vars, NearestRank
  <2> QED  BY <1>6, <2>3 DEF IInv, vars, Counts
<1> QED  BY <1>1, <1>2, <1>3, <1>4, <1>5, <1>6 DEF Next

(***************************************************************************)
(* Every percentile reported is a nearest rank of what was recorded, for   *)
(* any sequence of records, clears and computes and any order nth_element  *)
(* leaves the buffer in (percentiles.hpp:50-89).                           *)
(***************************************************************************)
THEOREM ReportsNearestRank == Spec => []NearestRank
<1>1. IInv => NearestRank
  BY DEF IInv
<1> QED  BY <1>1, InitIInv, NextIInv, PTL DEF Spec
=============================================================================
