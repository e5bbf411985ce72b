----------------------------- MODULE SumProofs -----------------------------
(***************************************************************************)
(* Induction over finite sets, as a fact about a set of sets, and with it  *)
(* the sums of the community modules: what MapThenSumSet returns for a     *)
(* function over a finite set, and how it changes with the function.       *)
(***************************************************************************)
EXTENDS Integers, FiniteSets, FiniteSetsExt, FiniteSetTheorems, WellFoundedInduction, TLAPS

(* A set of naturals that has 0 and, with any number, the next one.          *)
LEMMA NatSetInduction ==
    ASSUME NEW C, 0 \in C, \A n \in Nat : n \in C => n + 1 \in C
    PROVE  Nat \subseteq C
<1> DEFINE T == Nat \ C
<1>1. SUFFICES ASSUME T # {}
               PROVE  FALSE
  OBVIOUS
<1>2. PICK x \in T : \A y \in T : ~ (<<y, x>> \in OpToRel(<, Nat))
  BY <1>1, NatLessThanWellFounded, WFMin, ZenonT(60)
<1>3. \A y \in T : ~ (y < x)
  BY <1>2 DEF OpToRel
<1>4. x \in Nat /\ x # 0 /\ x - 1 \in Nat
  OBVIOUS
<1>5. x - 1 \in C
  BY <1>3, <1>4
<1>6. x \in C
  BY <1>4, <1>5
<1> QED
  BY <1>6

(* A set of subsets that has the empty one and, with any, those with one     *)
(* element more, has all of them.                                            *)
LEMMA SetInduction ==
    ASSUME NEW S, IsFiniteSet(S), NEW C, {} \in C,
           \A s \in SUBSET S : \A x \in S \ s : s \in C => s \cup {x} \in C
    PROVE  \A s \in SUBSET S : s \in C
<1> DEFINE D == {n \in Nat : \A s \in SUBSET S : Cardinality(s) = n => s \in C}
<1>1. 0 \in D
  BY FS_Subset, FS_EmptySet
<1>2. \A n \in Nat : n \in D => n + 1 \in D
  <2>1. SUFFICES ASSUME NEW n \in Nat, n \in D,
                        NEW s \in SUBSET S, Cardinality(s) = n + 1
                 PROVE  s \in C
    OBVIOUS
  <2>2. IsFiniteSet(s)
    BY FS_Subset
  <2>3. s # {}
    BY <2>1, FS_EmptySet
  <2>4. PICK x \in s : TRUE
    BY <2>3
  <2>5. Cardinality(s \ {x}) = n
    <3>1. Cardinality(s \ {x}) = Cardinality(s) - 1
      BY <2>2, <2>4, FS_RemoveElement
    <3> QED
      BY <2>1, <3>1
  <2>6. s \ {x} \in C
    BY <2>1, <2>5
  <2>7. s = (s \ {x}) \cup {x} /\ s \ {x} \in SUBSET S /\ x \in S \ (s \ {x})
    BY <2>4
  <2> HIDE DEF D
  <2> QED
    BY <2>6, <2>7
<1>3. Nat \subseteq D
  <2> HIDE DEF D
  <2> QED
    BY <1>1, <1>2, NatSetInduction
<1>4. SUFFICES ASSUME NEW s \in SUBSET S
               PROVE  s \in C
  OBVIOUS
<1>5. Cardinality(s) \in Nat
  BY FS_Subset, FS_CardinalityType
<1> QED
  BY <1>3, <1>5

-----------------------------------------------------------------------------
(* Sums.                                                                     *)

Sum(f, S) == MapThenSumSet(LAMBDA i : f[i], S)

\* The element that the fold takes first, and the equation of its function.
Pick(s) == CHOOSE x \in s : TRUE
SumStep(f, g, s) == IF s = {} THEN 0 ELSE f[Pick(s)] + g[s \ {Pick(s)}]
SumFcn(f, S) == CHOOSE g : g = [s \in SUBSET S |-> SumStep(f, g, s)]

LEMMA SumIsFcn ==
    \A f, S : Sum(f, S) = SumFcn(f, S)[S]
BY DEF Sum, SumFcn, SumStep, Pick, MapThenSumSet, MapThenFoldSet

LEMMA PickIn == \A s : s # {} => Pick(s) \in s
BY DEF Pick

\* Up to any size there is a function that satisfies the equation.
Small(S, n) == {s \in SUBSET S : Cardinality(s) <= n}
SumUpTo(f, S, n, g) ==
    /\ g \in [Small(S, n) -> Int]
    /\ \A s \in Small(S, n) : g[s] = SumStep(f, g, s)

LEMMA SumUpToExists ==
    ASSUME NEW S, IsFiniteSet(S), NEW f, \A x \in S : f[x] \in Int
    PROVE  \A n \in Nat : \E g : SumUpTo(f, S, n, g)
<1> DEFINE D == {n \in Nat : \E g : SumUpTo(f, S, n, g)}
<1>1. \A s \in SUBSET S : IsFiniteSet(s) /\ Cardinality(s) \in Nat
  BY FS_Subset, FS_CardinalityType
<1>2. 0 \in D
  <2>1. Small(S, 0) = {{}}
    BY <1>1, FS_EmptySet DEF Small
  <2>2. SumUpTo(f, S, 0, [s \in Small(S, 0) |-> 0])
    BY <2>1 DEF SumUpTo, SumStep
  <2> QED
    BY <2>2
<1>3. \A n \in Nat : n \in D => n + 1 \in D
  <2>1. SUFFICES ASSUME NEW n \in Nat, NEW g, SumUpTo(f, S, n, g)
                 PROVE  \E h : SumUpTo(f, S, n + 1, h)
    OBVIOUS
  <2> DEFINE h == [s \in Small(S, n + 1) |-> SumStep(f, g, s)]
  <2>2. \A s \in Small(S, n + 1) : s # {} =>
           /\ Pick(s) \in S
           /\ s \ {Pick(s)} \in Small(S, n)
    <3>1. SUFFICES ASSUME NEW s \in Small(S, n + 1), s # {}
                   PROVE  Pick(s) \in S /\ s \ {Pick(s)} \in Small(S, n)
      OBVIOUS
    <3>2. Pick(s) \in s /\ s \in SUBSET S /\ IsFiniteSet(s) /\ Cardinality(s) \in Nat
      BY <3>1, <1>1, PickIn DEF Small
    <3>3. Cardinality(s \ {Pick(s)}) = Cardinality(s) - 1
      BY <3>2, FS_RemoveElement
    <3> QED
      BY <3>1, <3>2, <3>3 DEF Small
  <2>3. h \in [Small(S, n + 1) -> Int]
    BY <2>1, <2>2 DEF SumUpTo, SumStep
  <2>4. \A s \in Small(S, n) : s \in Small(S, n + 1) /\ h[s] = g[s]
    <3>1. \A s \in Small(S, n) : s \in Small(S, n + 1)
      BY <1>1 DEF Small
    <3> QED
      BY <2>1, <3>1 DEF SumUpTo
  <2>5. \A s \in Small(S, n + 1) : h[s] = SumStep(f, h, s)
    <3>1. SUFFICES ASSUME NEW s \in Small(S, n + 1)
                   PROVE  SumStep(f, g, s) = SumStep(f, h, s)
      OBVIOUS
    <3> HIDE DEF h
    <3> QED
      BY <2>2, <2>4 DEF SumStep
  <2> HIDE DEF h
  <2> QED
    BY <2>3, <2>5 DEF SumUpTo
<1> HIDE DEF D
<1>4. Nat \subseteq D
  BY <1>2, <1>3, NatSetInduction
<1> QED
  BY <1>4 DEF D

\* The function of the fold satisfies its equation.
LEMMA SumFcnEquation ==
    ASSUME NEW S, IsFiniteSet(S), NEW f, \A x \in S : f[x] \in Int
    PROVE  /\ SumFcn(f, S) \in [SUBSET S -> Int]
           /\ \A s \in SUBSET S : SumFcn(f, S)[s] = SumStep(f, SumFcn(f, S), s)
<1>1. Cardinality(S) \in Nat /\ Small(S, Cardinality(S)) = SUBSET S
  BY FS_Subset, FS_CardinalityType DEF Small
<1>2. PICK g : SumUpTo(f, S, Cardinality(S), g)
  BY <1>1, SumUpToExists
<1>3. g = [s \in SUBSET S |-> SumStep(f, g, s)]
  BY <1>1, <1>2 DEF SumUpTo
<1>4. SumFcn(f, S) = [s \in SUBSET S |-> SumStep(f, SumFcn(f, S), s)]
  BY <1>3 DEF SumFcn
<1> DEFINE h == SumFcn(f, S)
<1> HIDE DEF h
<1>5. \A s \in SUBSET S : h[s] = SumStep(f, h, s)
  BY <1>4 DEF h
<1> DEFINE D == {n \in Nat : \A s \in SUBSET S : Cardinality(s) = n => h[s] \in Int}
<1>6. 0 \in D
  <2>1. \A s \in SUBSET S : Cardinality(s) = 0 => s = {}
    BY FS_Subset, FS_EmptySet
  <2>2. h[{}] = 0
    BY <1>5 DEF SumStep
  <2> QED
    BY <2>1, <2>2
<1>7. \A n \in Nat : n \in D => n + 1 \in D
  <2>1. SUFFICES ASSUME NEW n \in Nat, n \in D,
                        NEW s \in SUBSET S, Cardinality(s) = n + 1
                 PROVE  h[s] \in Int
    OBVIOUS
  <2>2. IsFiniteSet(s) /\ s # {}
    BY <2>1, FS_Subset, FS_EmptySet
  <2>3. Pick(s) \in s
    BY <2>2, PickIn
  <2>4. Cardinality(s \ {Pick(s)}) = n
    <3>1. Cardinality(s \ {Pick(s)}) = Cardinality(s) - 1
      BY <2>2, <2>3, FS_RemoveElement
    <3> QED
      BY <2>1, <3>1
  <2>5. h[s \ {Pick(s)}] \in Int /\ f[Pick(s)] \in Int
    BY <2>1, <2>3, <2>4
  <2>6. h[s] = f[Pick(s)] + h[s \ {Pick(s)}]
    BY <2>2, <1>5 DEF SumStep
  <2> QED
    BY <2>5, <2>6
<1>8. Nat \subseteq D
  <2> HIDE DEF D
  <2> QED
    BY <1>6, <1>7, NatSetInduction
<1>9. \A s \in SUBSET S : h[s] \in Int
  BY <1>8, FS_Subset, FS_CardinalityType
<1> QED
  BY <1>4, <1>5, <1>9 DEF h

\* The sum over a part of the set is the value of the same function there.
LEMMA SumOfPart ==
    ASSUME NEW S, IsFiniteSet(S), NEW f, \A x \in S : f[x] \in Int, NEW T \in SUBSET S
    PROVE  Sum(f, T) = SumFcn(f, S)[T]
<1> DEFINE g == SumFcn(f, S)
           h == SumFcn(f, T)
           D == {n \in Nat : \A s \in SUBSET T : Cardinality(s) = n => h[s] = g[s]}
<1>1. IsFiniteSet(T)
  BY FS_Subset
<1>2. \A s \in SUBSET T : g[s] = SumStep(f, g, s)
  BY SumFcnEquation
<1>3. \A s \in SUBSET T : h[s] = SumStep(f, h, s)
  BY <1>1, SumFcnEquation
<1> HIDE DEF g, h
<1>4. \A s \in SUBSET T : IsFiniteSet(s) /\ Cardinality(s) \in Nat
  BY <1>1, FS_Subset, FS_CardinalityType
<1>5. 0 \in D
  <2>1. \A s \in SUBSET T : Cardinality(s) = 0 => s = {}
    BY <1>4, FS_EmptySet
  <2>2. h[{}] = 0 /\ g[{}] = 0
    BY <1>2, <1>3 DEF SumStep
  <2> QED
    BY <2>1, <2>2
<1>6. \A n \in Nat : n \in D => n + 1 \in D
  <2>1. SUFFICES ASSUME NEW n \in Nat, n \in D,
                        NEW s \in SUBSET T, Cardinality(s) = n + 1
                 PROVE  h[s] = g[s]
    OBVIOUS
  <2>2. IsFiniteSet(s) /\ s # {}
    BY <2>1, <1>4, FS_EmptySet
  <2>3. Pick(s) \in s
    BY <2>2, PickIn
  <2>4. Cardinality(s \ {Pick(s)}) = n
    <3>1. Cardinality(s \ {Pick(s)}) = Cardinality(s) - 1
      <4>1. PICK p : p = Pick(s)
        OBVIOUS
      <4>2. Cardinality(s \ {p}) = Cardinality(s) - 1
        BY <2>2, <2>3, <4>1, FS_RemoveElement, ZenonT(30)
      <4> QED
        BY <4>1, <4>2
    <3> QED
      BY <2>1, <3>1
  <2>5. h[s \ {Pick(s)}] = g[s \ {Pick(s)}]
    BY <2>1, <2>4
  <2> QED
    BY <2>2, <2>5, <1>2, <1>3 DEF SumStep
<1>7. Nat \subseteq D
  <2> HIDE DEF D
  <2> QED
    BY <1>5, <1>6, NatSetInduction
<1>8. h[T] = g[T]
  BY <1>4, <1>7
<1> QED
  BY <1>8, SumIsFcn DEF g, h

(* What a sum is: 0 of nothing, and any element is added to that of the rest. *)
LEMMA SumEmpty == \A f : Sum(f, {}) = 0
<1>1. SUFFICES ASSUME NEW f
               PROVE  Sum(f, {}) = 0
  OBVIOUS
<1>2. IsFiniteSet({}) /\ \A x \in {} : f[x] \in Int
  BY FS_EmptySet
<1>3. \A s \in SUBSET {} : SumFcn(f, {})[s] = SumStep(f, SumFcn(f, {}), s)
  BY <1>2, SumFcnEquation
<1>4. SumFcn(f, {})[{}] = 0
  BY <1>3 DEF SumStep
<1> QED
  BY <1>4, SumIsFcn

LEMMA SumType ==
    ASSUME NEW S, IsFiniteSet(S), NEW f, \A x \in S : f[x] \in Int, NEW T \in SUBSET S
    PROVE  Sum(f, T) \in Int
<1>1. SumFcn(f, S)[T] \in Int
  BY SumFcnEquation
<1> QED
  BY <1>1, SumOfPart

LEMMA SumPick ==
    ASSUME NEW S, IsFiniteSet(S), NEW f, \A x \in S : f[x] \in Int,
           NEW T \in SUBSET S, T # {}
    PROVE  Sum(f, T) = f[Pick(T)] + Sum(f, T \ {Pick(T)})
<1>1. /\ SumFcn(f, S)[T] = SumStep(f, SumFcn(f, S), T)
      /\ Sum(f, T) = SumFcn(f, S)[T]
  BY SumOfPart, SumFcnEquation, ZenonT(30)
<1>2. T \ {Pick(T)} \in SUBSET S
  OBVIOUS
<1>3. Sum(f, T \ {Pick(T)}) = SumFcn(f, S)[T \ {Pick(T)}]
  BY <1>2, SumOfPart
<1> QED
  BY <1>1, <1>3 DEF SumStep

LEMMA SumAdd ==
    ASSUME NEW S, IsFiniteSet(S), NEW f, \A x \in S : f[x] \in Int
    PROVE  \A s \in SUBSET S : \A x \in S \ s : Sum(f, s \cup {x}) = Sum(f, s) + f[x]
<1> DEFINE D == {n \in Nat : \A s \in SUBSET S : Cardinality(s) = n =>
                    \A x \in S \ s : Sum(f, s \cup {x}) = Sum(f, s) + f[x]}
<1>1. \A s \in SUBSET S : IsFiniteSet(s) /\ Cardinality(s) \in Nat /\ Sum(f, s) \in Int
  BY FS_Subset, FS_CardinalityType, SumType
<1>2. \A n \in Nat : (\A m \in Nat : m < n => m \in D) => n \in D
  <2>1. SUFFICES ASSUME NEW n \in Nat, \A m \in Nat : m < n => m \in D,
                        NEW s \in SUBSET S, Cardinality(s) = n, NEW x \in S \ s
                 PROVE  Sum(f, s \cup {x}) = Sum(f, s) + f[x]
    OBVIOUS
  <2> DEFINE t == s \cup {x}
             y == Pick(t)
  <2>2. t \in SUBSET S /\ t # {} /\ y \in t
    BY PickIn
  <2>3. Sum(f, t) = f[y] + Sum(f, t \ {y})
    BY <2>2, SumPick, SMTT(30)
  <2> HIDE DEF y
  <2>4. CASE y = x
    <3>1. t \ {y} = s
      BY <2>4
    <3>2. Sum(f, t) = f[x] + Sum(f, s)
      BY <2>3, <2>4, <3>1
    <3>3. Sum(f, s) \in Int /\ f[x] \in Int
      BY <1>1
    <3> QED
      BY <3>2, <3>3
  <2>5. CASE y # x
    <3>1. y \in s /\ y \in S
      BY <2>2, <2>5
    <3> DEFINE u == s \ {y}
    <3>2. /\ u \in SUBSET S /\ t \ {y} = u \cup {x} /\ s = u \cup {y}
          /\ x \in S \ u /\ y \in S \ u
      BY <3>1, <2>5
    <3>3. Cardinality(u) = n - 1 /\ n - 1 \in Nat
      <4>1. Cardinality(u) = Cardinality(s) - 1
        BY <3>1, <1>1, FS_RemoveElement
      <4>2. Cardinality(u) \in Nat
        BY <3>2, <1>1
      <4> QED
        BY <2>1, <4>1, <4>2
    <3> HIDE DEF u
    <3>4. \A z \in S \ u : Sum(f, u \cup {z}) = Sum(f, u) + f[z]
      BY <2>1, <3>2, <3>3
    <3>5. Sum(f, t \ {y}) = Sum(f, u) + f[x] /\ Sum(f, s) = Sum(f, u) + f[y]
      BY <3>2, <3>4
    <3>6. Sum(f, u) \in Int /\ f[x] \in Int /\ f[y] \in Int
      BY <3>1, <3>2, <1>1
    <3> HIDE DEF t
    <3> QED
      BY <2>3, <3>5, <3>6 DEF t
  <2> QED
    BY <2>4, <2>5
<1> HIDE DEF D
<1>3. \A n \in Nat : \A m \in Nat : m < n => m \in D
  <2> DEFINE E == {n \in Nat : \A m \in Nat : m < n => m \in D}
  <2>1. 0 \in E
    OBVIOUS
  <2>2. \A n \in Nat : n \in E => n + 1 \in E
    <3>1. SUFFICES ASSUME NEW n \in Nat, n \in E, NEW m \in Nat, m < n + 1
                   PROVE  m \in D
      OBVIOUS
    <3>2. n \in D
      BY <3>1, <1>2
    <3> QED
      BY <3>1, <3>2
  <2>3. Nat \subseteq E
    <3> HIDE DEF E
    <3> QED
      BY <2>1, <2>2, NatSetInduction
  <2> QED
    BY <2>3
<1>4. Nat \subseteq D
  BY <1>2, <1>3
<1> QED
  BY <1>1, <1>4 DEF D

-----------------------------------------------------------------------------
(* How sums change.                                                          *)

(* Functions that differ in one place.                                       *)
LEMMA SumChange ==
    ASSUME NEW S, IsFiniteSet(S), NEW f, NEW g, NEW x \in S,
           \A i \in S : f[i] \in Int /\ g[i] \in Int,
           \A i \in S : i # x => f[i] = g[i]
    PROVE  Sum(g, S) = Sum(f, S) + g[x] - f[x]
<1> DEFINE C == {s \in SUBSET S : Sum(g, s) = Sum(f, s)
                                    + (IF x \in s THEN g[x] - f[x] ELSE 0)}
<1>1. {} \in C
  BY SumEmpty
<1>2. \A s \in SUBSET S : \A y \in S \ s : s \in C => s \cup {y} \in C
  <2>1. SUFFICES ASSUME NEW s \in SUBSET S, NEW y \in S \ s, s \in C
                 PROVE  s \cup {y} \in C
    OBVIOUS
  <2>2. /\ Sum(f, s \cup {y}) = Sum(f, s) + f[y]
        /\ Sum(g, s \cup {y}) = Sum(g, s) + g[y]
    BY SumAdd
  <2>3. Sum(f, s) \in Int /\ Sum(g, s) \in Int
    BY SumType
  <2> QED
    BY <2>1, <2>2, <2>3
<1>3. S \in C
  <2> HIDE DEF C
  <2> QED
    BY <1>1, <1>2, SetInduction
<1>4. Sum(f, S) \in Int
  BY SumType
<1> QED
  BY <1>3, <1>4

(* The sum of sums.                                                          *)
LEMMA SumPlus ==
    ASSUME NEW S, IsFiniteSet(S), NEW f, NEW g, NEW h,
           \A i \in S : f[i] \in Int /\ g[i] \in Int /\ h[i] = f[i] + g[i]
    PROVE  Sum(h, S) = Sum(f, S) + Sum(g, S)
<1> DEFINE C == {s \in SUBSET S : Sum(h, s) = Sum(f, s) + Sum(g, s)}
<1>1. {} \in C
  BY SumEmpty
<1>2. \A s \in SUBSET S : \A y \in S \ s : s \in C => s \cup {y} \in C
  <2>1. SUFFICES ASSUME NEW s \in SUBSET S, NEW y \in S \ s, s \in C
                 PROVE  s \cup {y} \in C
    OBVIOUS
  <2>2. \A i \in S : h[i] \in Int
    OBVIOUS
  <2>3. /\ Sum(f, s \cup {y}) = Sum(f, s) + f[y]
        /\ Sum(g, s \cup {y}) = Sum(g, s) + g[y]
        /\ Sum(h, s \cup {y}) = Sum(h, s) + h[y]
    BY <2>2, SumAdd
  <2>4. Sum(f, s) \in Int /\ Sum(g, s) \in Int
    BY SumType
  <2> QED
    BY <2>1, <2>3, <2>4
<1>3. S \in C
  <2> HIDE DEF C
  <2> QED
    BY <1>1, <1>2, SetInduction
<1> QED
  BY <1>3

(* Functions that agree have the same sum.                                   *)
LEMMA SumSame ==
    ASSUME NEW S, IsFiniteSet(S), NEW f, NEW g,
           \A i \in S : f[i] \in Int /\ g[i] = f[i]
    PROVE  Sum(g, S) = Sum(f, S)
<1> DEFINE C == {s \in SUBSET S : Sum(g, s) = Sum(f, s)}
<1>1. {} \in C
  BY SumEmpty
<1>2. \A s \in SUBSET S : \A y \in S \ s : s \in C => s \cup {y} \in C
  <2>1. SUFFICES ASSUME NEW s \in SUBSET S, NEW y \in S \ s, s \in C
                 PROVE  s \cup {y} \in C
    OBVIOUS
  <2>2. \A i \in S : g[i] \in Int
    OBVIOUS
  <2>3. /\ Sum(f, s \cup {y}) = Sum(f, s) + f[y]
        /\ Sum(g, s \cup {y}) = Sum(g, s) + g[y]
    BY <2>2, SumAdd
  <2> QED
    BY <2>1, <2>3
<1>3. S \in C
  <2> HIDE DEF C
  <2> QED
    BY <1>1, <1>2, SetInduction
<1> QED
  BY <1>3

(* A function that is nowhere greater has no greater sum.                    *)
LEMMA SumMonotonic ==
    ASSUME NEW S, IsFiniteSet(S), NEW f, NEW g,
           \A i \in S : f[i] \in Int /\ g[i] \in Int /\ f[i] <= g[i]
    PROVE  Sum(f, S) <= Sum(g, S)
<1> DEFINE C == {s \in SUBSET S : Sum(f, s) <= Sum(g, s)}
<1>1. {} \in C
  BY SumEmpty
<1>2. \A s \in SUBSET S : \A y \in S \ s : s \in C => s \cup {y} \in C
  <2>1. SUFFICES ASSUME NEW s \in SUBSET S, NEW y \in S \ s, s \in C
                 PROVE  s \cup {y} \in C
    OBVIOUS
  <2>2. /\ Sum(f, s \cup {y}) = Sum(f, s) + f[y]
        /\ Sum(g, s \cup {y}) = Sum(g, s) + g[y]
    BY SumAdd
  <2>3. Sum(f, s) \in Int /\ Sum(g, s) \in Int
    BY SumType
  <2> QED
    BY <2>1, <2>2, <2>3
<1>3. S \in C
  <2> HIDE DEF C
  <2> QED
    BY <1>1, <1>2, SetInduction
<1> QED
  BY <1>3

(* The sum of the same number over and over.                                 *)
LEMMA SumConstant ==
    ASSUME NEW S, IsFiniteSet(S), NEW f, NEW c \in Int, \A i \in S : f[i] = c
    PROVE  Sum(f, S) = c * Cardinality(S)
<1> DEFINE C == {s \in SUBSET S : Sum(f, s) = c * Cardinality(s)}
<1>1. {} \in C
  BY SumEmpty, FS_EmptySet
<1>2. \A s \in SUBSET S : \A y \in S \ s : s \in C => s \cup {y} \in C
  <2>1. SUFFICES ASSUME NEW s \in SUBSET S, NEW y \in S \ s, s \in C
                 PROVE  s \cup {y} \in C
    OBVIOUS
  <2>2. Sum(f, s \cup {y}) = Sum(f, s) + c
    BY SumAdd
  <2>3. IsFiniteSet(s) /\ Cardinality(s) \in Nat
    BY FS_Subset, FS_CardinalityType
  <2>4. Cardinality(s \cup {y}) = Cardinality(s) + 1
    BY <2>3, FS_AddElement
  <2>5. c * (Cardinality(s) + 1) = c * Cardinality(s) + c
    BY <2>3
  <2> QED
    BY <2>1, <2>2, <2>4, <2>5
<1>3. S \in C
  <2> HIDE DEF C
  <2> QED
    BY <1>1, <1>2, SetInduction
<1> QED
  BY <1>3

(* The sum of natural numbers is one, and is at least any of them.           *)
LEMMA SumNat ==
    ASSUME NEW S, IsFiniteSet(S), NEW f, \A i \in S : f[i] \in Nat
    PROVE  /\ Sum(f, S) \in Nat
           /\ \A i \in S : f[i] <= Sum(f, S)
<1> DEFINE z == [i \in S |-> 0]
<1>1. Sum(z, S) = 0 * Cardinality(S)
  BY SumConstant
<1>2. Sum(z, S) = 0
  BY <1>1, FS_CardinalityType
<1>3. Sum(z, S) <= Sum(f, S)
  BY SumMonotonic
<1>4. Sum(f, S) \in Int
  BY SumType
<1>5. ASSUME NEW x \in S
      PROVE  f[x] <= Sum(f, S)
  <2> DEFINE h == [i \in S |-> IF i = x THEN 0 ELSE f[i]]
  <2>1. /\ \A i \in S : z[i] \in Int /\ h[i] \in Int /\ z[i] <= h[i] /\ f[i] \in Int
        /\ \A i \in S : i # x => h[i] = f[i]
        /\ \A i \in S : h[i] \in Int /\ f[i] \in Int
        /\ h[x] = 0
    OBVIOUS
  <2> HIDE DEF h, z
  <2>2. Sum(z, S) <= Sum(h, S)
    BY <2>1, SumMonotonic
  <2>3. Sum(f, S) = Sum(h, S) + f[x] - h[x]
    <3>1. PICK k : k = h
      OBVIOUS
    <3>2. /\ \A i \in S : k[i] \in Int /\ f[i] \in Int
          /\ \A i \in S : i # x => k[i] = f[i]
      BY <2>1, <3>1
    <3>3. Sum(f, S) = Sum(k, S) + f[x] - k[x]
      BY <3>2, SumChange
    <3> QED
      BY <3>1, <3>3
  <2>4. Sum(h, S) \in Int
    BY <2>1, SumType
  <2> QED
    BY <2>1, <2>2, <2>3, <2>4, <1>2
<1> QED
  BY <1>2, <1>3, <1>4, <1>5

(* The number of elements of a part is the sum of ones for them.            *)
LEMMA SumOfOnes ==
    ASSUME NEW S, IsFiniteSet(S), NEW T \in SUBSET S, NEW f,
           \A i \in S : f[i] = IF i \in T THEN 1 ELSE 0
    PROVE  Sum(f, S) = Cardinality(T)
<1> DEFINE C == {s \in SUBSET S : Sum(f, s) = Cardinality(s \cap T)}
<1>1. {} \in C
  <2>1. {} \cap T = {}
    OBVIOUS
  <2>2. Cardinality({}) = 0
    BY FS_EmptySet
  <2> QED
    BY <2>1, <2>2, SumEmpty
<1>2. \A s \in SUBSET S : \A y \in S \ s : s \in C => s \cup {y} \in C
  <2>1. SUFFICES ASSUME NEW s \in SUBSET S, NEW y \in S \ s, s \in C
                 PROVE  s \cup {y} \in C
    OBVIOUS
  <2>2. Sum(f, s \cup {y}) = Sum(f, s) + f[y]
    <3>1. \A i \in S : f[i] \in Int
      OBVIOUS
    <3> QED
      BY <3>1, SumAdd
  <2>3. IsFiniteSet(s \cap T) /\ Cardinality(s \cap T) \in Nat
    <3>1. (s \cap T) \subseteq S
      OBVIOUS
    <3> QED
      BY <3>1, FS_Subset, FS_CardinalityType
  <2>4. CASE y \in T
    <3>1. (s \cup {y}) \cap T = (s \cap T) \cup {y}
      BY <2>4
    <3>2. y \notin s \cap T
      OBVIOUS
    <3>3. Cardinality((s \cap T) \cup {y}) = Cardinality(s \cap T) + 1
      BY <2>3, <3>2, FS_AddElement
    <3>4. f[y] = 1
      BY <2>4
    <3>5. Sum(f, s) = Cardinality(s \cap T)
      BY <2>1
    <3>6. Sum(f, s \cup {y}) = Cardinality((s \cup {y}) \cap T)
      BY <2>2, <2>3, <3>1, <3>3, <3>4, <3>5
    <3>7. s \cup {y} \in SUBSET S
      OBVIOUS
    <3> QED
      BY <3>6, <3>7
  <2>5. CASE y \notin T
    <3>1. (s \cup {y}) \cap T = s \cap T
      BY <2>5
    <3>2. f[y] = 0
      BY <2>5
    <3>3. Sum(f, s) = Cardinality(s \cap T)
      BY <2>1
    <3>6. Sum(f, s \cup {y}) = Cardinality(s \cap T)
      BY <2>2, <2>3, <3>2, <3>3
    <3>4. Sum(f, s \cup {y}) = Cardinality((s \cup {y}) \cap T)
      BY <3>1, <3>6
    <3>5. s \cup {y} \in SUBSET S
      OBVIOUS
    <3> QED
      BY <3>4, <3>5
  <2> QED
    BY <2>4, <2>5
<1>3. S \in C
  <2> HIDE DEF C
  <2> QED
    BY <1>1, <1>2, SetInduction
<1>4. S \cap T = T
  OBVIOUS
<1> QED
  BY <1>3, <1>4

(* The elements of S that a function gives the value r.                     *)
Fibre(v, S, r) == {x \in S : v[x] = r}

LEMMA FibreFinite ==
    ASSUME NEW S, IsFiniteSet(S), NEW v, NEW r
    PROVE  /\ Fibre(v, S, r) \in SUBSET S
           /\ IsFiniteSet(Fibre(v, S, r))
           /\ Cardinality(Fibre(v, S, r)) \in Nat
           /\ Cardinality(Fibre(v, S, r)) <= Cardinality(S)
<1>1. Fibre(v, S, r) \in SUBSET S
  BY DEF Fibre
<1>2. /\ IsFiniteSet(Fibre(v, S, r))
      /\ Cardinality(Fibre(v, S, r)) <= Cardinality(S)
  BY <1>1, FS_Subset
<1> QED
  BY <1>1, <1>2, FS_CardinalityType

(* Every element has one value: the sizes of the fibres add up to that of S. *)
LEMMA SumOfFibres ==
    ASSUME NEW S, IsFiniteSet(S), NEW R, IsFiniteSet(R), NEW v, \A x \in S : v[x] \in R,
           NEW f, \A r \in R : f[r] = Cardinality(Fibre(v, S, r))
    PROVE  Sum(f, R) = Cardinality(S)
<1> DEFINE g(s) == [r \in R |-> Cardinality(Fibre(v, s, r))]
           C == {s \in SUBSET S : Sum(g(s), R) = Cardinality(s)}
<1>1. {} \in C
  <2>1. ASSUME NEW r \in R
        PROVE  g({})[r] = 0
    <3>1. Fibre(v, {}, r) = {}
      BY DEF Fibre
    <3> QED
      BY <3>1, FS_EmptySet
  <2> HIDE DEF g
  <2>2. Sum(g({}), R) = 0 * Cardinality(R)
    BY <2>1, SumConstant
  <2>3. Sum(g({}), R) = 0
    BY <2>2, FS_CardinalityType
  <2> QED
    BY <2>3, FS_EmptySet
<1>2. \A s \in SUBSET S : \A y \in S \ s : s \in C => s \cup {y} \in C
  <2>1. SUFFICES ASSUME NEW s \in SUBSET S, NEW y \in S \ s, s \in C
                 PROVE  s \cup {y} \in C
    OBVIOUS
  <2>2. IsFiniteSet(s) /\ Cardinality(s) \in Nat
    BY FS_Subset, FS_CardinalityType
  <2>3. Cardinality(s \cup {y}) = Cardinality(s) + 1
    BY <2>2, FS_AddElement
  <2>4. ASSUME NEW r \in R
        PROVE  /\ g(s)[r] \in Nat
               /\ g(s \cup {y})[r] = IF r = v[y] THEN g(s)[r] + 1 ELSE g(s)[r]
    <3>1. /\ IsFiniteSet(Fibre(v, s, r))
          /\ Cardinality(Fibre(v, s, r)) \in Nat
      BY <2>2, FibreFinite
    <3>2. CASE r = v[y]
      <4>1. /\ Fibre(v, s \cup {y}, r) = Fibre(v, s, r) \cup {y}
            /\ y \notin Fibre(v, s, r)
        BY <3>2 DEF Fibre
      <4>2. Cardinality(Fibre(v, s, r) \cup {y}) = Cardinality(Fibre(v, s, r)) + 1
        BY <3>1, <4>1, FS_AddElement
      <4> QED
        BY <3>1, <3>2, <4>1, <4>2
    <3>3. CASE r # v[y]
      <4>1. Fibre(v, s \cup {y}, r) = Fibre(v, s, r)
        BY <3>3 DEF Fibre
      <4> QED
        BY <3>1, <3>3, <4>1
    <3> QED
      BY <3>2, <3>3
  <2>5. PICK a : a = g(s)
    OBVIOUS
  <2>6. PICK b : b = g(s \cup {y})
    OBVIOUS
  <2>7. PICK x : x = v[y]
    OBVIOUS
  <2> HIDE DEF g
  <2>8. /\ x \in R
        /\ \A i \in R : a[i] \in Int /\ b[i] \in Int
        /\ \A i \in R : i # x => a[i] = b[i]
        /\ b[x] = a[x] + 1
    <3>1. x \in R
      BY <2>1, <2>7
    <3>2. \A r \in R : a[r] \in Nat /\ b[r] = IF r = x THEN a[r] + 1 ELSE a[r]
      BY <2>4, <2>5, <2>6, <2>7, ZenonT(30)
    <3> QED
      BY <3>1, <3>2, SMTT(30)
  <2>9. Sum(b, R) = Sum(a, R) + b[x] - a[x]
    <3>1. \A i \in R : a[i] \in Int /\ b[i] \in Int
      BY <2>8
    <3>2. \A i \in R : i # x => a[i] = b[i]
      BY <2>8
    <3>3. x \in R
      BY <2>8
    <3> QED
      BY <3>1, <3>2, <3>3, SumChange
  <2>10. Sum(a, R) = Cardinality(s)
    BY <2>1, <2>5
  <2>11. Sum(b, R) = Cardinality(s) + 1
    BY <2>2, <2>8, <2>9, <2>10
  <2> QED
    BY <2>3, <2>6, <2>11
<1>3. S \in C
  <2> HIDE DEF C
  <2> QED
    BY <1>1, <1>2, SetInduction
<1>4. Sum(g(S), R) = Sum(f, R)
  <2>1. \A r \in R : f[r] \in Int /\ g(S)[r] = f[r]
    BY FibreFinite
  <2> HIDE DEF g
  <2> QED
    BY <2>1, SumSame
<1> QED
  BY <1>3, <1>4

\* 1 when the value of x is r.
Counts(v, x, r) == IF v[x] = r THEN 1 ELSE 0

(* What a change of one value does to the size of a fibre.                  *)
LEMMA FibreChange ==
    ASSUME NEW S, IsFiniteSet(S), NEW v, NEW w, NEW x \in S,
           \A i \in S : i # x => v[i] = w[i],
           NEW r
    PROVE  Cardinality(Fibre(w, S, r))
             = Cardinality(Fibre(v, S, r)) + Counts(w, x, r) - Counts(v, x, r)
<1>1. PICK f : f = [i \in S |-> IF i \in Fibre(v, S, r) THEN 1 ELSE 0]
  OBVIOUS
<1>2. PICK g : g = [i \in S |-> IF i \in Fibre(w, S, r) THEN 1 ELSE 0]
  OBVIOUS
<1>3. Sum(f, S) = Cardinality(Fibre(v, S, r))
  <2>1. /\ Fibre(v, S, r) \in SUBSET S
        /\ \A i \in S : f[i] = IF i \in Fibre(v, S, r) THEN 1 ELSE 0
    BY <1>1 DEF Fibre
  <2> QED
    BY <2>1, SumOfOnes
<1>4. Sum(g, S) = Cardinality(Fibre(w, S, r))
  <2>1. /\ Fibre(w, S, r) \in SUBSET S
        /\ \A i \in S : g[i] = IF i \in Fibre(w, S, r) THEN 1 ELSE 0
    BY <1>2 DEF Fibre
  <2> QED
    BY <2>1, SumOfOnes
<1>5. /\ \A i \in S : f[i] \in Int /\ g[i] \in Int
      /\ \A i \in S : i # x => f[i] = g[i]
  BY <1>1, <1>2 DEF Fibre
<1>6. Sum(g, S) = Sum(f, S) + g[x] - f[x]
  BY <1>5, SumChange
<1>7. /\ g[x] = Counts(w, x, r)
      /\ f[x] = Counts(v, x, r)
  BY <1>1, <1>2 DEF Fibre, Counts
<1>8. Sum(f, S) \in Int
  BY <1>5, SumType
<1> QED
  BY <1>3, <1>4, <1>6, <1>7, <1>8

(* Two values exchanged: every fibre has the size it had.                   *)
LEMMA FibreSwap ==
    ASSUME NEW S, IsFiniteSet(S), NEW v, NEW x \in S, NEW y \in S,
           NEW w, w[x] = v[y], w[y] = v[x],
           \A i \in S : i # x /\ i # y => w[i] = v[i],
           NEW r
    PROVE  Cardinality(Fibre(w, S, r)) = Cardinality(Fibre(v, S, r))
<1>1. CASE x = y
  <2>1. Fibre(w, S, r) = Fibre(v, S, r)
    BY <1>1 DEF Fibre
  <2> QED
    BY <2>1
<1>2. CASE x # y
  <2>1. PICK u : u = [i \in S |-> IF i = x THEN v[y] ELSE v[i]]
    OBVIOUS
  <2>2. /\ \A i \in S : i # x => v[i] = u[i]
        /\ \A i \in S : i # y => u[i] = w[i]
        /\ u[x] = v[y] /\ u[y] = v[y]
    BY <1>2, <2>1
  <2>3. Cardinality(Fibre(u, S, r))
             = Cardinality(Fibre(v, S, r)) + Counts(u, x, r) - Counts(v, x, r)
    <3>1. \A i \in S : i # x => v[i] = u[i]
      BY <2>2
    <3> QED
      BY <3>1, FibreChange
  <2>4. Cardinality(Fibre(w, S, r))
             = Cardinality(Fibre(u, S, r)) + Counts(w, y, r) - Counts(u, y, r)
    <3>1. \A i \in S : i # y => u[i] = w[i]
      BY <2>2
    <3> QED
      BY <3>1, FibreChange
  <2>5. Cardinality(Fibre(v, S, r)) \in Nat
    BY FibreFinite
  <2> QED
    BY <2>2, <2>3, <2>4, <2>5 DEF Counts
<1> QED
  BY <1>1, <1>2

\* The column r of a table whose rows are the elements of S.
Column(v, S, r) == [p \in S |-> v[p][r]]

(* The rows of a table add up to what its columns add up to.                *)
LEMMA SumSwap ==
    ASSUME NEW S, IsFiniteSet(S), NEW R, IsFiniteSet(R), NEW v,
           \A p \in S : \A r \in R : v[p][r] \in Int,
           NEW rows, \A p \in S : rows[p] = Sum(v[p], R),
           NEW columns, \A r \in R : columns[r] = Sum(Column(v, S, r), S)
    PROVE  Sum(rows, S) = Sum(columns, R)
<1> DEFINE col(r) == Column(v, S, r)
           k(s) == [r \in R |-> Sum(col(r), s)]
           C == {s \in SUBSET S : Sum(rows, s) = Sum(k(s), R)}
<1>1. \A p \in S : rows[p] \in Int
  BY SumType
<1>2. \A s \in SUBSET S : \A r \in R : Sum(col(r), s) \in Int
  <2>1. SUFFICES ASSUME NEW s \in SUBSET S, NEW r \in R
                 PROVE  Sum(col(r), s) \in Int
    OBVIOUS
  <2>2. IsFiniteSet(s)
    BY FS_Subset
  <2>3. \A p \in s : col(r)[p] \in Int
    BY DEF Column
  <2> HIDE DEF col
  <2> QED
    BY <2>2, <2>3, SumType
<1>3. {} \in C
  <2>1. \A r \in R : k({})[r] = 0
    BY SumEmpty
  <2> HIDE DEF k
  <2>2. Sum(k({}), R) = 0 * Cardinality(R)
    BY <2>1, SumConstant
  <2>3. Sum(k({}), R) = 0
    BY <2>2, FS_CardinalityType
  <2> QED
    BY <2>3, SumEmpty
<1>4. \A s \in SUBSET S : \A y \in S \ s : s \in C => s \cup {y} \in C
  <2>1. SUFFICES ASSUME NEW s \in SUBSET S, NEW y \in S \ s, s \in C
                 PROVE  s \cup {y} \in C
    OBVIOUS
  <2>2. PICK a : a = k(s)
    OBVIOUS
  <2>3. PICK b : b = k(s \cup {y})
    OBVIOUS
  <2>4. Sum(rows, s \cup {y}) = Sum(rows, s) + rows[y]
    BY <1>1, SumAdd
  <2>5. ASSUME NEW r \in R
        PROVE  a[r] \in Int /\ v[y][r] \in Int /\ b[r] = a[r] + v[y][r]
    <3>1. \A p \in S : col(r)[p] \in Int
      BY DEF Column
    <3>2. col(r)[y] = v[y][r]
      BY DEF Column
    <3>3. Sum(col(r), s \cup {y}) = Sum(col(r), s) + col(r)[y]
      <4> HIDE DEF col
      <4> QED
        BY <3>1, SumAdd
    <3>4. a[r] = Sum(col(r), s) /\ b[r] = Sum(col(r), s \cup {y})
      BY <2>2, <2>3
    <3> QED
      BY <1>2, <3>2, <3>3, <3>4
  <2>6. Sum(b, R) = Sum(a, R) + Sum(v[y], R)
    <3>1. PICK c : c = v[y]
      OBVIOUS
    <3>2. \A r \in R : a[r] \in Int /\ c[r] \in Int /\ b[r] = a[r] + c[r]
      BY <2>5, <3>1
    <3>3. Sum(b, R) = Sum(a, R) + Sum(c, R)
      BY <3>2, SumPlus
    <3> QED
      BY <3>1, <3>3
  <2>7. Sum(rows, s) = Sum(a, R)
    BY <2>1, <2>2
  <2>8. Sum(rows, s \cup {y}) = Sum(b, R)
    BY <2>4, <2>6, <2>7
  <2>9. s \cup {y} \in SUBSET S
    OBVIOUS
  <2> HIDE DEF k
  <2> QED
    BY <2>3, <2>8, <2>9
<1>5. S \in C
  <2> HIDE DEF C
  <2> QED
    BY <1>3, <1>4, SetInduction
<1>6. Sum(k(S), R) = Sum(columns, R)
  <2>1. \A r \in R : columns[r] \in Int /\ k(S)[r] = columns[r]
    BY <1>2
  <2> HIDE DEF k
  <2> QED
    BY <2>1, SumSame
<1> QED
  BY <1>5, <1>6

--------------------------------------------------------------------------
(* The same with the hypotheses as predicates, which are easier to apply. *)

DifferAt(S, f, g, x) ==
    /\ \A i \in S : f[i] \in Int /\ g[i] \in Int
    /\ \A i \in S : i # x => f[i] = g[i]
SameBut(S, v, w, x) == \A i \in S : i # x => v[i] = w[i]

LEMMA SumOfChange ==
    ASSUME NEW S, IsFiniteSet(S), NEW f, NEW g, NEW x \in S, DifferAt(S, f, g, x)
    PROVE  Sum(g, S) = Sum(f, S) + g[x] - f[x]
<1>1. \A i \in S : f[i] \in Int /\ g[i] \in Int
  BY DEF DifferAt
<1>2. \A i \in S : i # x => f[i] = g[i]
  BY DEF DifferAt
<1> QED
  BY <1>1, <1>2, SumChange

LEMMA FibreOfChange ==
    ASSUME NEW S, IsFiniteSet(S), NEW v, NEW w, NEW x \in S, SameBut(S, v, w, x), NEW r
    PROVE  Cardinality(Fibre(w, S, r))
             = Cardinality(Fibre(v, S, r)) + Counts(w, x, r) - Counts(v, x, r)
<1>1. \A i \in S : i # x => v[i] = w[i]
  BY DEF SameBut
<1> QED
  BY <1>1, FibreChange

(* Two sets without a common element.                                        *)
LEMMA Together ==
    ASSUME NEW S, IsFiniteSet(S), NEW T, IsFiniteSet(T), S \cap T = {}
    PROVE  /\ IsFiniteSet(S \cup T)
           /\ Cardinality(S \cup T) = Cardinality(S) + Cardinality(T)
           /\ Cardinality(S) \in Nat /\ Cardinality(T) \in Nat
<1>1. /\ IsFiniteSet(S \cup T)
      /\ Cardinality(S \cup T) = Cardinality(S) + Cardinality(T) - Cardinality(S \cap T)
  BY FS_Union
<1>2. Cardinality(S \cap T) = 0
  BY FS_EmptySet
<1>3. Cardinality(S) \in Nat /\ Cardinality(T) \in Nat
  BY FS_CardinalityType
<1> QED
  BY <1>1, <1>2, <1>3

====
