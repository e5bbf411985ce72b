------------------------- MODULE EnumerationProofs -------------------------
(* What Increasing returns, for every finite set of naturals.              *)
EXTENDS Enumeration, FiniteSetTheorems, FiniteSetsExt, WellFoundedInduction, TLAPS

(* A nonempty set of naturals has a least element, and Min is it.           *)
LEMMA MinProperties ==
    ASSUME NEW S \in SUBSET Nat, S # {}
    PROVE  /\ Min(S) \in S
           /\ \A y \in S : Min(S) =< y
<1>1. PICK x \in S : \A y \in S : ~ (<<y, x>> \in OpToRel(<, Nat))
  BY NatLessThanWellFounded, WFMin, ZenonT(60)
<1>2. \A y \in S : x =< y
  <2>1. SUFFICES ASSUME NEW y \in S
                 PROVE  x =< y
    OBVIOUS
  <2>2. ~ (y < x)
    BY <1>1 DEF OpToRel
  <2> QED
    BY <2>2
<1> QED
  BY <1>2 DEF Min

(* Every element has a place between 1 and the size of the set.             *)
LEMMA RankType ==
    ASSUME NEW S \in SUBSET Nat, IsFiniteSet(S), NEW i \in S
    PROVE  Rank(S, i) \in 1 .. Cardinality(S)
<1> DEFINE B == {x \in S : x =< i}
<1>1. /\ IsFiniteSet(B)
      /\ Cardinality(B) =< Cardinality(S)
  BY FS_Subset
<1>2. B # {}
  OBVIOUS
<1>3. /\ Cardinality(B) \in Nat
      /\ Cardinality(B) # 0
  BY <1>1, <1>2, FS_CardinalityType, FS_EmptySet
<1>4. Cardinality(S) \in Nat
  BY FS_CardinalityType
<1> QED
  BY <1>1, <1>3, <1>4 DEF Rank

(* A larger element has a later place.                                      *)
LEMMA RankMonotonic ==
    ASSUME NEW S \in SUBSET Nat, IsFiniteSet(S),
           NEW i \in S, NEW j \in S, i < j
    PROVE  Rank(S, i) < Rank(S, j)
<1> DEFINE B(k) == {x \in S : x =< k}
<1>1. /\ B(i) \in SUBSET B(j)
      /\ B(i) # B(j)
  <2>1. j \in B(j) /\ j \notin B(i)
    OBVIOUS
  <2>2. \A x \in S : x =< i => x =< j
    OBVIOUS
  <2>3. B(i) \subseteq B(j)
    BY <2>2
  <2> QED
    BY <2>1, <2>3
<1>2. IsFiniteSet(B(j))
  BY FS_Subset
<1>3. /\ Cardinality(B(i)) =< Cardinality(B(j))
      /\ Cardinality(B(i)) # Cardinality(B(j))
  <2> HIDE DEF B
  <2> QED
    BY <1>1, <1>2, FS_Subset
<1>4. Rank(S, i) \in Nat /\ Rank(S, j) \in Nat
  BY RankType, FS_CardinalityType
<1> QED
  BY <1>3, <1>4 DEF Rank

(* Increasing lists every element of the set, and in increasing order.      *)
THEOREM IncreasingProperties ==
    ASSUME NEW S \in SUBSET Nat, IsFiniteSet(S)
    PROVE  /\ Increasing(S) \in [1 .. Cardinality(S) -> S]
           /\ Cardinality(S) \in Nat
           /\ \A j \in 1 .. Cardinality(S) : Rank(S, Increasing(S)[j]) = j
           /\ \A i \in S : Increasing(S)[Rank(S, i)] = i
<1> DEFINE N == Cardinality(S)
           f == [i \in S |-> Rank(S, i)]
<1>1. N \in Nat
  BY FS_CardinalityType
<1>2. f \in [S -> 1 .. N]
  BY RankType
<1>3. \A i, j \in S : f[i] = f[j] => i = j
  <2>1. SUFFICES ASSUME NEW i \in S, NEW j \in S, i # j
                 PROVE  f[i] # f[j]
    OBVIOUS
  <2>2. Rank(S, i) \in 1 .. N /\ Rank(S, j) \in 1 .. N
    BY RankType
  <2>3. CASE i < j
    BY <2>2, <2>3, RankMonotonic
  <2>4. CASE j < i
    BY <2>2, <2>4, RankMonotonic
  <2> QED
    BY <2>3, <2>4, <2>1
<1>4. f \in Injection(S, 1 .. N)
  BY <1>2, <1>3 DEF Injection, IsInjective
<1>5. IsFiniteSet(1 .. N) /\ Cardinality(1 .. N) = N
  BY <1>1, FS_Interval
<1>6. f \in Surjection(S, 1 .. N)
  BY <1>4, <1>5, FS_Injection
<1>7. \A j \in 1 .. N : \E i \in S : Rank(S, i) = j
  BY <1>6 DEF Surjection
<1>8. \A j \in 1 .. N : Increasing(S)[j] \in S /\ Rank(S, Increasing(S)[j]) = j
  BY <1>7 DEF Increasing
<1>9. \A i \in S : Increasing(S)[Rank(S, i)] = i
  BY <1>3, <1>8, RankType
<1> QED
  BY <1>1, <1>8, <1>9 DEF Increasing

(* The list is strictly increasing.                                         *)
THEOREM IncreasingIncreases ==
    ASSUME NEW S \in SUBSET Nat, IsFiniteSet(S),
           NEW i \in 1 .. Cardinality(S), NEW j \in 1 .. Cardinality(S), i < j
    PROVE  Increasing(S)[i] < Increasing(S)[j]
<1> DEFINE a == Increasing(S)[i]
           b == Increasing(S)[j]
<1>1. /\ a \in S /\ b \in S
      /\ Rank(S, a) = i /\ Rank(S, b) = j
  BY IncreasingProperties
<1> HIDE DEF a, b
<1>5. a \in Nat /\ b \in Nat
  BY <1>1
<1>2. a # b
  BY <1>1
<1>3. ~ (b < a)
  <2>1. SUFFICES ASSUME b < a PROVE FALSE
    OBVIOUS
  <2>2. j < i
    BY <1>1, <2>1, RankMonotonic
  <2> QED
    BY <2>2
<1>4. a < b
  BY <1>5, <1>2, <1>3
<1> QED
  BY <1>4 DEF a, b

(* There is only one increasing list of the elements of a set.              *)
THEOREM OneIncreasingList ==
    ASSUME NEW S \in SUBSET Nat, NEW m \in Nat, NEW f \in [1 .. m -> S],
           \A i, j \in 1 .. m : i < j => f[i] < f[j],
           \A x \in S : \E j \in 1 .. m : f[j] = x
    PROVE  /\ IsFiniteSet(S)
           /\ Cardinality(S) = m
           /\ f = Increasing(S)
<1>0. \A i \in 1 .. m : f[i] \in Nat
  OBVIOUS
<1>1. \A i, j \in 1 .. m : f[i] = f[j] => i = j
  <2>1. SUFFICES ASSUME NEW i \in 1 .. m, NEW j \in 1 .. m, i # j
                 PROVE  f[i] # f[j]
    OBVIOUS
  <2>2. CASE i < j
    BY <2>2, <1>0
  <2>3. CASE j < i
    BY <2>3, <1>0
  <2> QED
    BY <2>1, <2>2, <2>3
<1>2. IsFiniteSet(1 .. m) /\ Cardinality(1 .. m) = m
  BY FS_Interval
<1>3. IsFiniteSet(S) /\ Cardinality(S) = m
  <2>1. f \in Bijection(1 .. m, S)
    BY <1>1 DEF Bijection, Injection, Surjection, IsInjective
  <2>2. ExistsBijection(1 .. m, S)
    BY <2>1 DEF ExistsBijection
  <2> QED
    BY <2>2, <1>2, FS_Bijection
<1>4. ASSUME NEW j \in 1 .. m
      PROVE  Rank(S, f[j]) = j
  <2> DEFINE B == {x \in S : x =< f[j]}
             g == [i \in 1 .. j |-> f[i]]
  <2>1. \A i \in 1 .. m : f[i] =< f[j] <=> i =< j
    <3>1. SUFFICES ASSUME NEW i \in 1 .. m
                   PROVE  f[i] =< f[j] <=> i =< j
      OBVIOUS
    <3>2. CASE i < j
      BY <3>2, <1>0
    <3>3. CASE i = j
      BY <3>3, <1>0
    <3>4. CASE j < i
      BY <3>4, <1>0
    <3> QED
      BY <3>2, <3>3, <3>4
  <2>2. g \in [1 .. j -> B]
    BY <2>1
  <2>3. \A x \in B : \E i \in 1 .. j : g[i] = x
    <3>1. SUFFICES ASSUME NEW x \in B
                   PROVE  \E i \in 1 .. j : g[i] = x
      OBVIOUS
    <3>2. PICK i \in 1 .. m : f[i] = x
      OBVIOUS
    <3>3. i \in 1 .. j
      BY <2>1, <3>2
    <3> QED
      BY <3>2, <3>3
  <2>4. \A i, k \in 1 .. j : g[i] = g[k] => i = k
    BY <1>1
  <2> HIDE DEF B, g
  <2>5. g \in Bijection(1 .. j, B)
    BY <2>2, <2>3, <2>4 DEF Bijection, Injection, Surjection, IsInjective
  <2>6. IsFiniteSet(1 .. j) /\ Cardinality(1 .. j) = j
    BY FS_Interval
  <2>7. Cardinality(B) = j
    BY <2>5, <2>6, FS_Bijection DEF ExistsBijection
  <2> QED
    BY <2>7 DEF Rank, B
<1>5. \A j \in 1 .. m : Increasing(S)[j] = f[j]
  BY <1>3, <1>4, IncreasingProperties
<1>6. Increasing(S) \in [1 .. m -> S]
  BY <1>3, IncreasingProperties
<1> QED
  BY <1>3, <1>5, <1>6
=============================================================================
