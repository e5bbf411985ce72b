----------------------------- MODULE CardProofs -----------------------------
(* The games that deal cards: Six, Love, Fox and Snitch. For any number of *)
(* players, any decks and any deal the cards stay together, whoever is     *)
(* asked for one holds one, and nobody draws from an empty deck.           *)
(*                                                                         *)
(* The cards are counted in two ways. Where a card is one of its kind, the *)
(* places of the table are disjoint sets and a card goes from one to       *)
(* another (Six, Fox). Where cards are alike, the places are bags, a hand  *)
(* is a fibre of the function that gives every player a card, and a step   *)
(* is a change of one value of a sum or of a fibre (Love, Snitch).         *)
EXTENDS Games, SumProofs, EnumerationProofs

--------------------------------------------------------------------------
(* Around the table *)

LEMMA NextDiffers ==
    ASSUME NEW n \in Nat \ {0}, NEW a \in 0 .. n - 1, NEW b \in 1 .. n - 1
    PROVE  /\ (a + b) % n \in 0 .. n - 1
           /\ (a + b) % n # a
  BY SMT

LEMMA EveryPlaceIsAhead ==
    ASSUME NEW n \in Nat \ {0}, NEW a \in 0 .. n - 1, NEW b \in 0 .. n - 1
    PROVE  \E k \in 1 .. n : b = (a + k) % n
<1>1. CASE b > a
  <2>1. /\ b - a \in 1 .. n
        /\ b = (a + (b - a)) % n
    BY <1>1
  <2> QED
    BY <2>1
<1>2. CASE b =< a
  <2>1. /\ (b - a) + n \in 1 .. n
        /\ b = (a + ((b - a) + n)) % n
    BY <1>2
  <2> QED
    BY <2>1
<1> QED
  BY <1>1, <1>2

(* The next place of a set that is not empty, going round.                  *)
LEMMA FirstAhead ==
    ASSUME NEW n \in Nat \ {0}, NEW a \in 0 .. n - 1, NEW S \in SUBSET (0 .. n - 1), S # {}
    PROVE  \E p \in S : \E k \in 1 .. n :
              /\ p = (a + k) % n
              /\ \A j \in 1 .. k - 1 : (a + j) % n \notin S
<1> DEFINE K == {k \in 1 .. n : (a + k) % n \in S}
<1>1. PICK b \in S : TRUE
  OBVIOUS
<1>2. PICK k \in 1 .. n : b = (a + k) % n
  BY EveryPlaceIsAhead
<1>3. K \in SUBSET Nat /\ k \in K
  BY <1>2
<1>4. Min(K) \in K /\ \A y \in K : Min(K) =< y
  BY <1>3, MinProperties
<1>5. \A j \in 1 .. Min(K) - 1 : (a + j) % n \notin S
  <2>1. SUFFICES ASSUME NEW j \in 1 .. Min(K) - 1, (a + j) % n \in S
                 PROVE  FALSE
    OBVIOUS
  <2>2. Min(K) \in 1 .. n
    BY <1>4
  <2>3. j \in K /\ j < Min(K)
    BY <2>1, <2>2
  <2> QED
    BY <2>3, <2>2, <1>4
<1> QED
  BY <1>4, <1>5

LEMMA UpTo ==
    ASSUME NEW n \in Nat
    PROVE  /\ IsFiniteSet(0 .. n - 1) /\ Cardinality(0 .. n - 1) = n
           /\ IsFiniteSet(1 .. n) /\ Cardinality(1 .. n) = n
<1>1. PICK m \in Int : m = n - 1 /\ m - 0 + 1 = n
  OBVIOUS
<1>2. IsFiniteSet(0 .. m) /\ Cardinality(0 .. m) = IF 0 > m THEN 0 ELSE m - 0 + 1
  BY FS_Interval
<1>3. IsFiniteSet(1 .. n) /\ Cardinality(1 .. n) = IF 1 > n THEN 0 ELSE n - 1 + 1
  BY FS_Interval
<1> QED
  BY <1>1, <1>2, <1>3

\* The first of the best.
LEMMA FirstOfTheBest ==
    ASSUME NEW S \in SUBSET Nat, IsFiniteSet(S), S # {}, NEW f, \A q \in S : f[q] \in Int
    PROVE  \E p \in S : \A q \in S : f[q] < f[p] \/ (f[q] = f[p] /\ p <= q)
<1> DEFINE C == {s \in SUBSET S : s = {} \/
                    \E p \in s : \A q \in s : f[q] < f[p] \/ (f[q] = f[p] /\ p <= q)}
<1>1. {} \in C
  OBVIOUS
<1>2. \A s \in SUBSET S : \A x \in S \ s : s \in C => s \cup {x} \in C
  <2>1. SUFFICES ASSUME NEW s \in SUBSET S, NEW x \in S \ s, s \in C
                 PROVE  s \cup {x} \in C
    OBVIOUS
  <2>2. s \cup {x} \in SUBSET S /\ \A q \in s \cup {x} : q \in Nat /\ f[q] \in Int
    OBVIOUS
  <2>3. CASE s = {}
    <3>1. \A q \in s \cup {x} : f[q] < f[x] \/ (f[q] = f[x] /\ x <= q)
      BY <2>2, <2>3
    <3> QED
      BY <2>2, <3>1
  <2>4. ASSUME NEW p \in s, \A q \in s : f[q] < f[p] \/ (f[q] = f[p] /\ p <= q)
        PROVE  s \cup {x} \in C
    <3>1. CASE f[x] < f[p] \/ (f[x] = f[p] /\ p <= x)
      <4>1. \A q \in s \cup {x} : f[q] < f[p] \/ (f[q] = f[p] /\ p <= q)
        BY <2>4, <3>1
      <4> QED
        BY <2>2, <4>1
    <3>2. CASE ~(f[x] < f[p] \/ (f[x] = f[p] /\ p <= x))
      <4>1. f[x] > f[p] \/ (f[x] = f[p] /\ x <= p)
        BY <2>2, <3>2
      <4>2. \A q \in s \cup {x} : f[q] < f[x] \/ (f[q] = f[x] /\ x <= q)
        BY <2>2, <2>4, <4>1
      <4> QED
        BY <2>2, <4>2
    <3> QED
      BY <3>1, <3>2
  <2> QED
    BY <2>1, <2>3, <2>4
<1>3. S \in C
  <2> HIDE DEF C
  <2> QED
    BY <1>1, <1>2, SetInduction
<1> QED
  BY <1>3

--------------------------------------------------------------------------
(* Six: numbers, rows and the order of the placements *)

SxP == Six!Players
SxC == Six!Cards
SxR == Six!Rows
SxN == SixRules.NPlayers

LEMMA SixNumbers ==
    /\ SxN \in Nat /\ SxN > 0 /\ SixRules.NRows \in Nat /\ SixRules.NRows > 0
    /\ SixRules.RowSize \in Nat /\ SixRules.RowSize > 0
    /\ SixRules.HandSize \in Nat /\ SixRules.HandSize > 0 /\ SixRules.NCards \in Nat
    /\ SxP = 0 .. SxN - 1 /\ SxC = 0 .. SixRules.NCards - 1
    /\ SxR = 0 .. SixRules.NRows - 1
    /\ \A c \in SxC : SixRules.BullHeads[c] \in Nat
    /\ Six!None \notin SxC /\ Six!None \notin SxP
<1>1. /\ SxN \in Nat /\ SxN > 0 /\ SixRules.NRows \in Nat /\ SixRules.NRows > 0
      /\ SixRules.RowSize \in Nat /\ SixRules.RowSize > 0
      /\ SixRules.HandSize \in Nat /\ SixRules.HandSize > 0 /\ SixRules.NCards \in Nat
  BY Setups DEF Setups, Six!Setup, SxN
<1>2. /\ SxP = 0 .. SxN - 1 /\ SxC = 0 .. SixRules.NCards - 1
      /\ SxR = 0 .. SixRules.NRows - 1
  BY DEF SxP, SxC, SxR, SxN, Six!Players, Six!Cards, Six!Rows
<1>3. SixRules.BullHeads \in [SxC -> Nat \ {0}]
  BY Setups DEF Setups, Six!Setup, SxC
<1> QED
  BY <1>1, <1>2, <1>3 DEF Six!None

LEMMA SixSets ==
    /\ IsFiniteSet(SxP) /\ Cardinality(SxP) = SxN
    /\ IsFiniteSet(SxC) /\ IsFiniteSet(SxR) /\ Cardinality(SxR) = SixRules.NRows
    /\ \A S : Six!Cardinality(S) = Cardinality(S)
<1>1. \A S : Six!Cardinality(S) = Cardinality(S)
  BY DEF Six!Cardinality, Cardinality
<1> QED
  BY <1>1, SixNumbers, UpTo

\* The members of a sequence.
SxIn(s) == {s[i] : i \in DOMAIN s}

\* A row that is not empty nor too long, and ascends.
SxRow(row) ==
    /\ row \in Seq(SxC) /\ Len(row) \in 1 .. SixRules.RowSize
    /\ \A i, j \in DOMAIN row : i < j => row[i] < row[j]

LEMMA SixRowGrows ==
    ASSUME NEW row, SxRow(row), NEW c \in SxC, Len(row) < SixRules.RowSize,
           Six!RowTop(row) < c
    PROVE  SxRow(Append(row, c)) /\ SxIn(Append(row, c)) = SxIn(row) \cup {c}
<1>1. PICK t : t = Append(row, c)
  OBVIOUS
<1>2. PICK n \in Nat : n = Len(row) /\ n > 0 /\ n < SixRules.RowSize
  <2>1. row \in Seq(SxC) /\ Len(row) \in 1 .. SixRules.RowSize /\ SixRules.RowSize \in Nat
    BY SixNumbers DEF SxRow
  <2>2. Len(row) \in Nat /\ Len(row) > 0
    BY <2>1
  <2> QED
    BY <2>2
<1>3. /\ t \in Seq(SxC) /\ Len(t) = n + 1 /\ t[n + 1] = c
      /\ DOMAIN t = 1 .. n + 1 /\ DOMAIN row = 1 .. n
      /\ \A i \in 1 .. n : t[i] = row[i] /\ row[i] \in SxC
  BY <1>1, <1>2 DEF SxRow
<1>4. \A i \in 1 .. n : row[i] < c
  <2>1. row[n] < c /\ \A i, j \in 1 .. n : i < j => row[i] < row[j]
    BY <1>2, <1>3 DEF SxRow, Six!RowTop
  <2>2. SUFFICES ASSUME NEW i \in 1 .. n PROVE row[i] < c
    OBVIOUS
  <2>3. row[i] \in Int /\ row[n] \in Int /\ c \in Int
    BY <1>2, <1>3, SixNumbers
  <2>4. CASE i = n
    BY <2>1, <2>4
  <2>5. CASE i < n
    BY <1>2, <2>1, <2>3, <2>5
  <2> QED
    BY <2>4, <2>5
<1>5. \A i, j \in DOMAIN t : i < j => t[i] < t[j]
  <2>1. SUFFICES ASSUME NEW i \in 1 .. n + 1, NEW j \in 1 .. n + 1, i < j
                 PROVE  t[i] < t[j]
    BY <1>3
  <2>2. i \in 1 .. n
    BY <2>1
  <2>3. CASE j = n + 1
    BY <1>3, <1>4, <2>2, <2>3
  <2>4. CASE j # n + 1
    <3>1. j \in 1 .. n
      BY <2>4
    <3> QED
      BY <1>3, <2>1, <2>2, <3>1 DEF SxRow
  <2> QED
    BY <2>3, <2>4
<1>6. SxIn(t) = SxIn(row) \cup {c}
  <2>1. \A x : x \in SxIn(t) <=> \E i \in 1 .. n + 1 : x = t[i]
    BY <1>3 DEF SxIn
  <2>2. \A x : x \in SxIn(row) <=> \E i \in 1 .. n : x = row[i]
    BY <1>3 DEF SxIn
  <2>3. 1 .. n + 1 = (1 .. n) \cup {n + 1}
    OBVIOUS
  <2>4. \A x : x \in SxIn(t) <=> x \in SxIn(row) \/ x = c
    BY <1>3, <2>1, <2>2, <2>3
  <2> QED
    BY <2>4
<1>7. Len(t) \in 1 .. SixRules.RowSize
  BY <1>2, <1>3, SixNumbers
<1> QED
  BY <1>1, <1>3, <1>5, <1>6, <1>7 DEF SxRow

LEMMA SixRowNew ==
    ASSUME NEW c \in SxC
    PROVE  /\ SxRow(<<c>>) /\ SxIn(<<c>>) = {c}
           /\ Append(<<>>, c) = <<c>>
<1>1. /\ <<c>> \in Seq(SxC) /\ Len(<<c>>) = 1 /\ DOMAIN <<c>> = 1 .. 1 /\ <<c>>[1] = c
      /\ Append(<<>>, c) = <<c>>
  OBVIOUS
<1>2. PICK t : t = <<c>>
  OBVIOUS
<1>3. 1 .. 1 = {1}
  OBVIOUS
<1>4. SxIn(t) = {c}
  BY <1>1, <1>2, <1>3 DEF SxIn
<1>5. SxRow(t)
  BY <1>1, <1>2, <1>3, SixNumbers DEF SxRow
<1> QED
  BY <1>1, <1>2, <1>4, <1>5

\* The players to come, in the order of their cards, which they still hold.
SxOrder(order, chosen, hand) ==
    /\ order \in Seq(SxP)
    /\ \A i, j \in DOMAIN order : i < j => chosen[order[i]] < chosen[order[j]]
    /\ \A i \in DOMAIN order : chosen[order[i]] \in hand[order[i]]

\* The first of them places the card.
SxGoesOn(order, chosen, hand, rest, p) ==
    /\ SxOrder(Tail(order), chosen, rest) /\ p \in SxP /\ chosen[p] \in hand[p]
    /\ p \in SxIn(order) /\ SxIn(Tail(order)) = SxIn(order) \ {p}

LEMMA SixOrderGoesOn ==
    ASSUME NEW hand \in [SxP -> SUBSET SxC], NEW chosen, NEW order,
           SxOrder(order, chosen, hand), order # <<>>, NEW p, p = Head(order),
           NEW rest, rest = [hand EXCEPT ![p] = @ \ {chosen[p]}]
    PROVE  SxGoesOn(order, chosen, hand, rest, p)
<1>1. PICK t : t = Tail(order)
  OBVIOUS
<1>2. PICK n \in Nat : n = Len(order) /\ n > 0
  BY DEF SxOrder
<1>3. /\ t \in Seq(SxP) /\ DOMAIN order = 1 .. n /\ DOMAIN t = 1 .. n - 1
      /\ p = order[1]
      /\ \A i \in 1 .. n - 1 : t[i] = order[i + 1]
      /\ \A i \in 1 .. n : order[i] \in SxP
  BY <1>1, <1>2 DEF SxOrder
<1>4. /\ \A i, j \in 1 .. n : i < j => chosen[order[i]] < chosen[order[j]]
      /\ \A i \in 1 .. n : chosen[order[i]] \in hand[order[i]]
  BY <1>3 DEF SxOrder
<1>5. 1 \in 1 .. n
  BY <1>2
<1>6. p \in SxP /\ chosen[p] \in hand[p] /\ chosen[p] \in Int
  <2>1. p \in SxP /\ chosen[p] \in hand[p]
    BY <1>3, <1>4, <1>5
  <2> QED
    BY <2>1, SixNumbers
<1>7. \A i \in 1 .. n - 1 : i + 1 \in 1 .. n /\ order[i + 1] # p
  <2>1. SUFFICES ASSUME NEW i \in 1 .. n - 1 PROVE i + 1 \in 1 .. n /\ order[i + 1] # p
    OBVIOUS
  <2>2. i + 1 \in 1 .. n /\ 1 < i + 1
    OBVIOUS
  <2>3. chosen[order[1]] < chosen[order[i + 1]]
    BY <1>4, <1>5, <2>2
  <2>4. order[i + 1] # order[1]
    BY <1>3, <1>6, <2>3
  <2> QED
    BY <1>3, <2>2, <2>4
<1>8. \A i, j \in DOMAIN t : i < j => chosen[t[i]] < chosen[t[j]]
  <2>1. SUFFICES ASSUME NEW i \in 1 .. n - 1, NEW j \in 1 .. n - 1, i < j
                 PROVE  chosen[t[i]] < chosen[t[j]]
    BY <1>3
  <2>2. i + 1 < j + 1
    BY <2>1
  <2> QED
    BY <1>3, <1>4, <1>7, <2>1, <2>2
<1>9. \A i \in DOMAIN t : chosen[t[i]] \in rest[t[i]]
  <2>1. SUFFICES ASSUME NEW i \in 1 .. n - 1 PROVE chosen[t[i]] \in rest[t[i]]
    BY <1>3
  <2>2. t[i] = order[i + 1] /\ t[i] \in SxP /\ t[i] # p
    BY <1>3, <1>7
  <2>3. chosen[t[i]] \in hand[t[i]]
    BY <1>4, <1>7, <2>2
  <2> QED
    BY <2>2, <2>3
<1>10. SxIn(t) = SxIn(order) \ {p}
  <2>1. \A x : x \in SxIn(t) <=> \E i \in 1 .. n - 1 : x = order[i + 1]
    BY <1>3 DEF SxIn
  <2>2. \A x : x \in SxIn(order) <=> \E i \in 1 .. n : x = order[i]
    BY <1>3 DEF SxIn
  <2>3. ASSUME NEW x \in SxIn(t) PROVE x \in SxIn(order) /\ x # p
    BY <1>7, <2>1, <2>2
  <2>4. ASSUME NEW x \in SxIn(order), x # p PROVE x \in SxIn(t)
    <3>1. PICK i \in 1 .. n : x = order[i]
      BY <2>2
    <3>2. i - 1 \in 1 .. n - 1 /\ (i - 1) + 1 = i
      BY <1>3, <2>4, <3>1
    <3> QED
      BY <2>1, <3>1, <3>2
  <2> QED
    BY <2>3, <2>4
<1>11. p \in SxIn(order)
  BY <1>3, <1>5 DEF SxIn
<1> QED
  BY <1>1, <1>3, <1>6, <1>8, <1>9, <1>10, <1>11 DEF SxOrder, SxGoesOn

\* The order of the reveal exists, and everybody is in it.
LEMMA SixReveals ==
    ASSUME NEW hand \in [SxP -> SUBSET SxC], NEW chosen \in [SxP -> SxC],
           \A p, q \in SxP : p # q => hand[p] \cap hand[q] = {},
           \A p \in SxP : chosen[p] \in hand[p]
    PROVE  /\ SxOrder(Six!RevealOrder(chosen), chosen, hand)
           /\ SxIn(Six!RevealOrder(chosen)) = SxP
<1>1. PICK S : S = {chosen[p] : p \in SxP}
  OBVIOUS
<1>2. S \in SUBSET Nat /\ S \subseteq SxC
  BY <1>1, SixNumbers
<1>3. IsFiniteSet(S)
  BY <1>2, SixSets, FS_Subset
<1>4. \A p, q \in SxP : chosen[p] = chosen[q] => p = q
  OBVIOUS
<1>5. Cardinality(S) = SxN
  <2>1. chosen \in Bijection(SxP, S)
    BY <1>1, <1>4 DEF Bijection, Injection, Surjection, IsInjective
  <2>2. ExistsBijection(SxP, S)
    BY <2>1 DEF ExistsBijection
  <2> QED
    BY <2>2, SixSets, FS_Bijection
<1>6. PICK f : f = Increasing(S)
  OBVIOUS
<1>7. f \in [1 .. SxN -> S]
  BY <1>2, <1>3, <1>5, <1>6, IncreasingProperties
<1>8. \A i, j \in 1 .. SxN : i < j => f[i] < f[j]
  BY <1>2, <1>3, <1>5, <1>6, IncreasingIncreases
<1>9. PICK o : o = [i \in 1 .. SxN |-> CHOOSE p \in SxP : chosen[p] = f[i]]
  OBVIOUS
<1>10. \A i \in 1 .. SxN : o[i] \in SxP /\ chosen[o[i]] = f[i]
  <2>1. \A i \in 1 .. SxN : \E p \in SxP : chosen[p] = f[i]
    BY <1>1, <1>7
  <2> QED
    BY <1>9, <2>1
<1>11. o \in [1 .. SxN -> SxP]
  BY <1>9, <1>10
<1>12. \E r \in [1 .. SxN -> SxP] :
          \A i, j \in 1 .. SxN : i < j => chosen[r[i]] < chosen[r[j]]
  <2>1. \A i, j \in 1 .. SxN : i < j => chosen[o[i]] < chosen[o[j]]
    BY <1>8, <1>10
  <2> QED
    BY <1>11, <2>1
<1>13. PICK r : r = Six!RevealOrder(chosen)
  OBVIOUS
<1>14. /\ r \in [1 .. SxN -> SxP]
       /\ \A i, j \in 1 .. SxN : i < j => chosen[r[i]] < chosen[r[j]]
  BY <1>12, <1>13 DEF Six!RevealOrder, SxN, SxP
<1>15. \A i, j \in 1 .. SxN : r[i] = r[j] => i = j
  <2>1. SUFFICES ASSUME NEW i \in 1 .. SxN, NEW j \in 1 .. SxN, r[i] = r[j], i < j
                 PROVE  FALSE
    OBVIOUS
  <2>2. chosen[r[i]] < chosen[r[j]] /\ chosen[r[i]] \in Int
    BY <1>14, <2>1, SixNumbers
  <2> QED
    BY <2>1, <2>2
<1>16. r \in Surjection(1 .. SxN, SxP)
  <2>1. r \in Injection(1 .. SxN, SxP)
    BY <1>14, <1>15 DEF Injection, IsInjective
  <2>2. Cardinality(1 .. SxN) = Cardinality(SxP) /\ IsFiniteSet(SxP)
    BY SixNumbers, SixSets, UpTo
  <2> QED
    BY <2>1, <2>2, FS_Injection
<1>17. DOMAIN r = 1 .. SxN /\ r \in Seq(SxP)
  <2>1. PICK n \in Nat : n = SxN
    BY SixNumbers
  <2>2. r \in [1 .. n -> SxP]
    BY <1>14, <2>1
  <2>3. r \in Seq(SxP)
    BY <2>2
  <2> QED
    BY <1>14, <2>3
<1>18. SxIn(r) = SxP
  BY <1>14, <1>16, <1>17 DEF SxIn, Surjection
<1>19. \A i \in DOMAIN r : chosen[r[i]] \in hand[r[i]]
  BY <1>14, <1>17
<1> QED
  BY <1>13, <1>14, <1>17, <1>18, <1>19 DEF SxOrder

--------------------------------------------------------------------------
(* Six: the table *)

SxRows(rows) == \A r \in SxR : SxRow(rows[r])

\* No card is in two places.
SxApart(hand, rows) ==
    /\ \A p, q \in SxP : p # q => hand[p] \cap hand[q] = {}
    /\ \A r \in SxR : \A p \in SxP : SxIn(rows[r]) \cap hand[p] = {}
    /\ \A r, s \in SxR : r # s => SxIn(rows[r]) \cap SxIn(rows[s]) = {}

SxCounts(hand, later, n) ==
    \A p \in SxP : Cardinality(hand[p]) = IF p \in later THEN n + 1 ELSE n

\* Who is to choose a row is the next to place; a card is chosen from the hand.
SxPhase(g) ==
    /\ g.choosing # Six!None => /\ g.order # <<>> /\ g.choosing = Head(g.order)
                                /\ ~g.placing
    /\ g.choosing = Six!None /\ ~g.placing =>
          /\ g.order = <<>>
          /\ \A p \in SxP : g.chosen[p] # Six!None => g.chosen[p] \in g.hand[p]

SixHolds(g) ==
    /\ g \in Six!Table
    /\ SxRows(g.rows)
    /\ SxApart(g.hand, g.rows)
    /\ SxOrder(g.order, g.chosen, g.hand)
    /\ \E n \in 0 .. SixRules.HandSize : SxCounts(g.hand, SxIn(g.order), n)
    /\ SxPhase(g)

LEMMA SixTable ==
    ASSUME NEW g \in Six!Table
    PROVE  /\ g.hand \in [SxP -> SUBSET SxC] /\ g.chosen \in [SxP -> SxC \cup {Six!None}]
           /\ g.rows \in [SxR -> Seq(SxC)] /\ g.order \in Seq(SxP)
           /\ g.score \in [SxP -> Nat] /\ g.round \in [SxP -> Nat]
           /\ g.choosing \in SxP \cup {Six!None}
BY DEF Six!Table, SxP, SxC, SxR

LEMMA SixTableMoves ==
    ASSUME NEW g \in Six!Table, NEW rows \in [SxR -> Seq(SxC)],
           NEW round \in [SxP -> Nat], NEW hand \in [SxP -> SUBSET SxC],
           NEW order \in Seq(SxP)
    PROVE  [g EXCEPT !.rows = rows, !.round = round, !.hand = hand, !.order = order,
                     !.choosing = Six!None, !.placing = TRUE] \in Six!Table
BY DEF Six!Table, SxP, SxC, SxR

LEMMA SixNobodyLater ==
    /\ SxIn(<<>>) = {}
    /\ \A chosen, hand : SxOrder(<<>>, chosen, hand)
<1>1. DOMAIN <<>> = {} /\ <<>> \in Seq(SxP)
  OBVIOUS
<1> QED
  BY <1>1 DEF SxIn, SxOrder

\* A card goes from a hand to a row.
LEMMA SixApartStill ==
    ASSUME NEW hand \in [SxP -> SUBSET SxC], NEW rows \in [SxR -> Seq(SxC)],
           SxApart(hand, rows), NEW p \in SxP, NEW c \in hand[p], NEW r \in SxR,
           NEW x \in Seq(SxC), SxIn(x) \subseteq SxIn(rows[r]) \cup {c}
    PROVE  SxApart([hand EXCEPT ![p] = @ \ {c}], [rows EXCEPT ![r] = x])
<1>1. PICK h : h = [hand EXCEPT ![p] = @ \ {c}]
  OBVIOUS
<1>2. PICK w : w = [rows EXCEPT ![r] = x]
  OBVIOUS
<1>3. /\ h[p] = hand[p] \ {c} /\ \A q \in SxP : q # p => h[q] = hand[q]
      /\ w[r] = x /\ \A s \in SxR : s # r => w[s] = rows[s]
  BY <1>1, <1>2
<1>4. /\ \A a, b \in SxP : a # b => hand[a] \cap hand[b] = {}
      /\ \A s \in SxR : \A q \in SxP : SxIn(rows[s]) \cap hand[q] = {}
      /\ \A s, t \in SxR : s # t => SxIn(rows[s]) \cap SxIn(rows[t]) = {}
  BY DEF SxApart
<1>5. \A q \in SxP : h[q] \subseteq hand[q] /\ c \notin h[q]
  BY <1>3, <1>4
<1>6. \A a, b \in SxP : a # b => h[a] \cap h[b] = {}
  BY <1>4, <1>5
<1>7. \A s \in SxR : SxIn(w[s]) \subseteq SxIn(rows[s]) \cup {c}
  BY <1>3
<1>8. \A s \in SxR : \A q \in SxP : SxIn(w[s]) \cap h[q] = {}
  BY <1>4, <1>5, <1>7
<1>9. \A s \in SxR : c \notin SxIn(rows[s])
  BY <1>4
<1>10. \A s, t \in SxR : s # t => SxIn(w[s]) \cap SxIn(w[t]) = {}
  <2>1. SUFFICES ASSUME NEW s \in SxR, NEW t \in SxR, s # t
                 PROVE  SxIn(w[s]) \cap SxIn(w[t]) = {}
    OBVIOUS
  <2>2. SxIn(rows[s]) \cap SxIn(rows[t]) = {} /\ c \notin SxIn(rows[s])
        /\ c \notin SxIn(rows[t])
    BY <1>4, <1>9, <2>1
  <2>3. CASE s = r
    <3>1. w[t] = rows[t] /\ SxIn(w[s]) \subseteq SxIn(rows[s]) \cup {c}
      BY <1>3, <1>7, <2>1, <2>3
    <3> QED
      BY <2>2, <3>1
  <2>4. CASE s # r
    <3>1. w[s] = rows[s] /\ SxIn(w[t]) \subseteq SxIn(rows[t]) \cup {c}
      BY <1>3, <1>7, <2>4
    <3> QED
      BY <2>2, <3>1
  <2> QED
    BY <2>3, <2>4
<1>11. SxApart(h, w)
  BY <1>6, <1>8, <1>10 DEF SxApart
<1> QED
  BY <1>1, <1>2, <1>11

\* A hand is a card smaller.
LEMMA SixHandShrinks ==
    ASSUME NEW hand \in [SxP -> SUBSET SxC], NEW p \in SxP, NEW c \in hand[p],
           NEW later, p \in later, NEW n \in Nat, SxCounts(hand, later, n)
    PROVE  SxCounts([hand EXCEPT ![p] = @ \ {c}], later \ {p}, n)
<1>1. PICK h : h = [hand EXCEPT ![p] = @ \ {c}]
  OBVIOUS
<1>2. h[p] = hand[p] \ {c} /\ \A q \in SxP : q # p => h[q] = hand[q]
  BY <1>1
<1>3. Cardinality(hand[p]) = n + 1
  BY DEF SxCounts
<1>4. PICK S : S = hand[p]
  OBVIOUS
<1>5. IsFiniteSet(S)
  <2>1. S \subseteq SxC
    BY <1>4
  <2> QED
    BY <2>1, SixSets, FS_Subset
<1>6. Cardinality(S \ {c}) = Cardinality(S) - 1
  BY <1>4, <1>5, FS_RemoveElement
<1>7. Cardinality(h[p]) = n
  BY <1>2, <1>3, <1>4, <1>6
<1>8. SxCounts(h, later \ {p}, n)
  <2>1. SUFFICES ASSUME NEW q \in SxP
                 PROVE  Cardinality(h[q]) = IF q \in later \ {p} THEN n + 1 ELSE n
    BY DEF SxCounts
  <2>2. CASE q = p
    BY <1>7, <2>2
  <2>3. CASE q # p
    BY <1>2, <2>3 DEF SxCounts
  <2> QED
    BY <2>2, <2>3
<1> QED
  BY <1>1, <1>8

LEMMA SixRowScore ==
    ASSUME NEW row \in Seq(SxC)
    PROVE  Six!RowScore(row) \in Nat
<1>1. PICK n \in Nat : n = Len(row) /\ DOMAIN row = 1 .. n
  OBVIOUS
<1>2. PICK f : f = [i \in 1 .. n |-> SixRules.BullHeads[row[i]]]
  OBVIOUS
<1>3. \A i \in 1 .. n : row[i] \in SxC
  BY <1>1
<1>4. \A i \in 1 .. n : f[i] \in Nat
  BY <1>2, <1>3, SixNumbers
<1>5. IsFiniteSet(1 .. n)
  BY UpTo
<1>6. Sum(f, 1 .. n) \in Nat
  BY <1>4, <1>5, SumNat
<1>7. Six!RowScore(row) = Sum(f, 1 .. n)
  BY <1>1, <1>2, ZenonT(30) DEF Six!RowScore, Sum, Six!MapThenSumSet, MapThenSumSet,
     Six!MapThenFoldSet, MapThenFoldSet
<1> QED
  BY <1>6, <1>7

\* place_card_in_row: the card of the next player, in a row that is taken or fits.
LEMMA SixPlaced ==
    ASSUME NEW g, SixHolds(g), g.order # <<>>, NEW p, p = Head(g.order), NEW r \in SxR,
           NEW take \in BOOLEAN,
           take \/ (Len(g.rows[r]) < SixRules.RowSize /\ Six!RowTop(g.rows[r]) < g.chosen[p]),
           NEW x, x = Append(IF take THEN <<>> ELSE g.rows[r], g.chosen[p]),
           NEW round, round = [g.round EXCEPT ![p] =
                                  IF take THEN @ + Six!RowScore(g.rows[r]) ELSE @],
           NEW h, h = [g EXCEPT !.rows = [g.rows EXCEPT ![r] = x], !.round = round,
                                !.hand = [g.hand EXCEPT ![p] = @ \ {g.chosen[p]}],
                                !.order = Tail(g.order), !.choosing = Six!None,
                                !.placing = TRUE]
    PROVE  SixHolds(h)
<1>1. g \in Six!Table
  BY DEF SixHolds
<1>2. PICK hand \in [SxP -> SUBSET SxC] : hand = g.hand
  BY <1>1, SixTable
<1>3. PICK rows \in [SxR -> Seq(SxC)] : rows = g.rows
  BY <1>1, SixTable
<1>4. PICK rest : rest = [hand EXCEPT ![p] = @ \ {g.chosen[p]}]
  OBVIOUS
<1>5. PICK order : order = g.order
  OBVIOUS
<1>6. PICK chosen : chosen = g.chosen
  OBVIOUS
<1>7. /\ SxOrder(Tail(order), chosen, rest) /\ p \in SxP /\ chosen[p] \in hand[p]
      /\ p \in SxIn(order) /\ SxIn(Tail(order)) = SxIn(order) \ {p}
  <2>1. SxOrder(order, chosen, hand) /\ order # <<>> /\ p = Head(order)
    BY <1>2, <1>5, <1>6 DEF SixHolds
  <2>2. rest = [hand EXCEPT ![p] = @ \ {chosen[p]}]
    BY <1>4, <1>6
  <2>3. SxGoesOn(order, chosen, hand, rest, p)
    BY <1>2, <2>1, <2>2, SixOrderGoesOn
  <2> QED
    BY <2>3 DEF SxGoesOn
<1>8. PICK c \in SxC : c = chosen[p]
  BY <1>7
<1>9. SxRow(x) /\ SxIn(x) \subseteq SxIn(rows[r]) \cup {c}
  <2>1. CASE take
    <3>1. x = <<c>>
      BY <1>6, <1>8, <2>1, SixRowNew
    <3> QED
      BY <3>1, SixRowNew
  <2>2. CASE ~take
    <3>1. PICK row : row = rows[r]
      OBVIOUS
    <3>2. /\ SxRow(row) /\ Len(row) < SixRules.RowSize /\ Six!RowTop(row) < c
          /\ x = Append(row, c)
      BY <1>3, <1>6, <1>8, <2>2, <3>1 DEF SixHolds, SxRows
    <3>3. SxRow(x) /\ SxIn(x) = SxIn(row) \cup {c}
      BY <3>2, SixRowGrows
    <3> QED
      BY <3>1, <3>3
  <2> QED
    BY <2>1, <2>2
<1>10. x \in Seq(SxC)
  BY <1>9 DEF SxRow
<1>11. PICK board : board = [rows EXCEPT ![r] = x]
  OBVIOUS
<1>12. board \in [SxR -> Seq(SxC)] /\ SxRows(board)
  <2>1. SxRows(rows)
    BY <1>3 DEF SixHolds
  <2> QED
    BY <1>9, <1>10, <1>11, <2>1 DEF SxRows
<1>13. SxApart(rest, board)
  <2>1. SxApart(hand, rows)
    BY <1>2, <1>3 DEF SixHolds
  <2>2. rest = [hand EXCEPT ![p] = @ \ {c}] /\ c \in hand[p]
    BY <1>4, <1>6, <1>7, <1>8
  <2>3. SxApart([hand EXCEPT ![p] = @ \ {c}], [rows EXCEPT ![r] = x])
    BY <1>7, <1>9, <1>10, <2>1, <2>2, SixApartStill
  <2> QED
    BY <1>11, <2>2, <2>3
<1>14. \E n \in 0 .. SixRules.HandSize : SxCounts(rest, SxIn(Tail(order)), n)
  <2>1. PICK n \in 0 .. SixRules.HandSize : SxCounts(hand, SxIn(order), n)
    BY <1>2, <1>5 DEF SixHolds
  <2>2. n \in Nat
    BY SixNumbers
  <2>3. rest = [hand EXCEPT ![p] = @ \ {c}] /\ c \in hand[p]
    BY <1>4, <1>6, <1>7, <1>8
  <2>4. PICK later : later = SxIn(order)
    OBVIOUS
  <2>5. SxCounts(rest, later \ {p}, n)
    BY <1>7, <2>1, <2>2, <2>3, <2>4, SixHandShrinks
  <2> QED
    BY <1>7, <2>4, <2>5
<1>15. rest \in [SxP -> SUBSET SxC]
  BY <1>4
<1>16. round \in [SxP -> Nat]
  <2>1. Six!RowScore(rows[r]) \in Nat
    BY SixRowScore
  <2>2. g.round \in [SxP -> Nat]
    BY <1>1, SixTable
  <2> QED
    BY <1>3, <1>7, <2>1, <2>2
<1>17. h = [g EXCEPT !.rows = board, !.round = round, !.hand = rest,
                     !.order = Tail(order), !.choosing = Six!None, !.placing = TRUE]
  BY <1>2, <1>3, <1>4, <1>5, <1>11
<1>18. Tail(order) \in Seq(SxP)
  BY <1>7 DEF SxOrder
<1>19. h \in Six!Table
  <2>1. PICK later : later = Tail(order)
    OBVIOUS
  <2>2. board \in [SxR -> Seq(SxC)]
    BY <1>12
  <2>3. later \in Seq(SxP)
    BY <1>18, <2>1
  <2>4. [g EXCEPT !.rows = board, !.round = round, !.hand = rest, !.order = later,
                  !.choosing = Six!None, !.placing = TRUE] \in Six!Table
    BY ONLY <1>1, <1>15, <1>16, <2>2, <2>3, SixTableMoves
  <2> QED
    BY ONLY <1>17, <2>1, <2>4
<1>20. /\ h.rows = board /\ h.hand = rest /\ h.order = Tail(order) /\ h.chosen = chosen
       /\ h.choosing = Six!None /\ h.placing = TRUE
  BY <1>1, <1>6, <1>17 DEF Six!Table
<1>21. SxPhase(h)
  BY <1>20 DEF SxPhase
<1> QED
  BY <1>7, <1>12, <1>13, <1>14, <1>19, <1>20, <1>21 DEF SixHolds

--------------------------------------------------------------------------
(* Six: deals *)

\* The card that is the next after n others.
LEMMA SixNth ==
    ASSUME NEW S \in SUBSET SxC, Cardinality(S) = SixRules.NRows, NEW r \in SxR
    PROVE  \E c \in S : Cardinality({d \in S : d < c}) = r
<1>1. S \in SUBSET Nat /\ IsFiniteSet(S)
  <2>1. S \in SUBSET Nat
    BY SixNumbers
  <2>2. IsFiniteSet(S)
    BY SixSets, FS_Subset
  <2> QED
    BY <2>1, <2>2
<1>2. r \in Nat /\ r + 1 \in 1 .. Cardinality(S)
  BY SixNumbers
<1>3. PICK c \in S : Rank(S, c) = r + 1
  <2>1. PICK j \in 1 .. Cardinality(S) : j = r + 1
    BY <1>2
  <2>2. PICK f : f = Increasing(S)
    OBVIOUS
  <2>3. f \in [1 .. Cardinality(S) -> S] /\ Rank(S, f[j]) = j
    BY <1>1, <2>2, IncreasingProperties
  <2> QED
    BY <2>1, <2>3
<1>4. c \in Nat /\ \A d \in S : d \in Nat
  BY <1>1
<1>5. PICK B : B = {d \in S : d =< c}
  OBVIOUS
<1>6. IsFiniteSet(B) /\ c \in B /\ Cardinality(B) = r + 1
  <2>1. IsFiniteSet(B)
    BY <1>1, <1>5, FS_Subset
  <2>2. c \in B
    BY <1>4, <1>5
  <2> QED
    BY <1>3, <1>5, <2>1, <2>2 DEF Rank
<1>7. Cardinality(B \ {c}) = r
  <2>1. Cardinality(B \ {c}) = Cardinality(B) - 1
    BY <1>6, FS_RemoveElement
  <2> QED
    BY <1>2, <1>6, <2>1
<1>8. B \ {c} = {d \in S : d < c}
  <2>1. \A d \in S : d =< c /\ d # c <=> d < c
    BY <1>4
  <2> QED
    BY <1>5, <2>1
<1> QED
  BY <1>7, <1>8

SxFirst(first, r) == CHOOSE c \in first : Six!Cardinality({d \in first : d < c}) = r

\* A table after a deal.
SxFresh(g, score) ==
    /\ \E first \in SUBSET SxC, hand \in [SxP -> SUBSET SxC] :
          /\ Cardinality(first) = SixRules.NRows
          /\ \A p \in SxP : Cardinality(hand[p]) = SixRules.HandSize
                            /\ hand[p] \cap first = {}
          /\ \A p, q \in SxP : p # q => hand[p] \cap hand[q] = {}
          /\ g = [hand |-> hand, chosen |-> [p \in SxP |-> Six!None],
                  rows |-> [r \in SxR |-> <<SxFirst(first, r)>>],
                  order |-> <<>>, placing |-> FALSE, choosing |-> Six!None,
                  score |-> score, round |-> [p \in SxP |-> 0],
                  ending |-> FALSE, over |-> FALSE]

LEMMA SixDeals ==
    ASSUME NEW score, NEW g \in Six!Dealt(score)
    PROVE  SxFresh(g, score)
<1>1. PICK first \in Six!kSubset(SixRules.NRows, Six!Cards) :
        g \in {[hand |-> hand, chosen |-> [p \in Six!Players |-> Six!None],
             rows |-> [r \in Six!Rows |-> <<CHOOSE c \in first :
                          Six!Cardinality({d \in first : d < c}) = r>>],
             order |-> <<>>, placing |-> FALSE, choosing |-> Six!None, score |-> score,
             round |-> [p \in Six!Players |-> 0], ending |-> FALSE, over |-> FALSE] :
              hand \in {h \in [Six!Players ->
                                 Six!kSubset(SixRules.HandSize, Six!Cards \ first)] :
                          \A p, q \in Six!Players : p # q => h[p] \cap h[q] = {}}}
  BY DEF Six!Dealt
<1>2. PICK hand \in {h \in [Six!Players ->
                                 Six!kSubset(SixRules.HandSize, Six!Cards \ first)] :
                          \A p, q \in Six!Players : p # q => h[p] \cap h[q] = {}} :
        g = [hand |-> hand, chosen |-> [p \in Six!Players |-> Six!None],
             rows |-> [r \in Six!Rows |-> <<CHOOSE c \in first :
                          Six!Cardinality({d \in first : d < c}) = r>>],
             order |-> <<>>, placing |-> FALSE, choosing |-> Six!None, score |-> score,
             round |-> [p \in Six!Players |-> 0], ending |-> FALSE, over |-> FALSE]
  BY <1>1
<1>3. first \in SUBSET SxC /\ Cardinality(first) = SixRules.NRows
  BY <1>1, SixSets DEF Six!kSubset, SxC
<1>4. \A p \in SxP : hand[p] \subseteq SxC \ first /\ Cardinality(hand[p]) = SixRules.HandSize
  BY <1>2, SixSets DEF Six!kSubset, SxC, SxP
<1>5. hand \in [SxP -> SUBSET SxC] /\ \A p \in SxP : hand[p] \cap first = {}
  BY <1>2, <1>4 DEF SxP
<1>6. \A p, q \in SxP : p # q => hand[p] \cap hand[q] = {}
  BY <1>2 DEF SxP
<1>7. g = [hand |-> hand, chosen |-> [p \in SxP |-> Six!None],
           rows |-> [r \in SxR |-> <<SxFirst(first, r)>>],
           order |-> <<>>, placing |-> FALSE, choosing |-> Six!None,
           score |-> score, round |-> [p \in SxP |-> 0],
           ending |-> FALSE, over |-> FALSE]
  BY <1>2 DEF SxP, SxR, SxFirst
<1> QED
  BY <1>3, <1>4, <1>5, <1>6, <1>7 DEF SxFresh

LEMMA SixDealt ==
    ASSUME NEW score \in [SxP -> Nat], NEW g \in Six!Dealt(score)
    PROVE  SixHolds(g)
<1>1. SxFresh(g, score)
  BY SixDeals
<1>2. PICK first \in SUBSET SxC, hand \in [SxP -> SUBSET SxC] :
          /\ Cardinality(first) = SixRules.NRows
          /\ \A p \in SxP : Cardinality(hand[p]) = SixRules.HandSize
                            /\ hand[p] \cap first = {}
          /\ \A p, q \in SxP : p # q => hand[p] \cap hand[q] = {}
          /\ g = [hand |-> hand, chosen |-> [p \in SxP |-> Six!None],
                  rows |-> [r \in SxR |-> <<SxFirst(first, r)>>],
                  order |-> <<>>, placing |-> FALSE, choosing |-> Six!None,
                  score |-> score, round |-> [p \in SxP |-> 0],
                  ending |-> FALSE, over |-> FALSE]
  BY <1>1 DEF SxFresh
<1>3. \A r \in SxR : /\ SxFirst(first, r) \in first
                     /\ Cardinality({d \in first : d < SxFirst(first, r)}) = r
  <2>1. SUFFICES ASSUME NEW r \in SxR
                 PROVE  /\ SxFirst(first, r) \in first
                        /\ Cardinality({d \in first : d < SxFirst(first, r)}) = r
    OBVIOUS
  <2>2. \E c \in first : Cardinality({d \in first : d < c}) = r
    BY <1>2, SixNth
  <2>3. \E c \in first : Six!Cardinality({d \in first : d < c}) = r
    BY <2>2, SixSets
  <2>4. PICK y : y = SxFirst(first, r)
    OBVIOUS
  <2>5. y \in first /\ Six!Cardinality({d \in first : d < y}) = r
    BY <2>3, <2>4 DEF SxFirst
  <2> QED
    BY <2>4, <2>5, SixSets
<1>4. PICK rows : rows = [r \in SxR |-> <<SxFirst(first, r)>>]
  OBVIOUS
<1>5. \A r \in SxR : SxRow(rows[r]) /\ SxIn(rows[r]) = {SxFirst(first, r)}
  <2>1. SUFFICES ASSUME NEW r \in SxR
                 PROVE  SxRow(rows[r]) /\ SxIn(rows[r]) = {SxFirst(first, r)}
    OBVIOUS
  <2>2. PICK y \in SxC : y = SxFirst(first, r)
    BY <1>2, <1>3
  <2>3. rows[r] = <<y>>
    BY <1>4, <2>2
  <2> QED
    BY <2>2, <2>3, SixRowNew
<1>6. rows \in [SxR -> Seq(SxC)] /\ SxRows(rows)
  BY <1>4, <1>5 DEF SxRows, SxRow
<1>7. SxApart(hand, rows)
  <2>1. ASSUME NEW r \in SxR, NEW p \in SxP PROVE SxIn(rows[r]) \cap hand[p] = {}
    <3>1. PICK y \in first : y = SxFirst(first, r)
      BY <1>3
    <3>2. SxIn(rows[r]) = {y} /\ hand[p] \cap first = {}
      BY <1>2, <1>5, <3>1
    <3> QED
      BY <3>2
  <2>2. \A r, s \in SxR : r # s => SxIn(rows[r]) \cap SxIn(rows[s]) = {}
    BY <1>3, <1>5
  <2> QED
    BY <1>2, <2>1, <2>2 DEF SxApart
<1>8. PICK chosen : chosen = [p \in SxP |-> Six!None]
  OBVIOUS
<1>9. PICK round : round = [p \in SxP |-> 0]
  OBVIOUS
<1>10. g = [hand |-> hand, chosen |-> chosen, rows |-> rows,
            order |-> <<>>, placing |-> FALSE, choosing |-> Six!None,
            score |-> score, round |-> round, ending |-> FALSE, over |-> FALSE]
  BY <1>2, <1>4, <1>8, <1>9
<1>11. g \in Six!Table
  <2>1. chosen \in [SxP -> SxC \cup {Six!None}] /\ round \in [SxP -> Nat]
    BY <1>8, <1>9
  <2>2. <<>> \in Seq(SxP)
    OBVIOUS
  <2>3. /\ hand \in [SxP -> SUBSET Six!Cards] /\ rows \in [SxR -> Seq(Six!Cards)]
        /\ chosen \in [SxP -> Six!Cards \cup {Six!None}]
    BY <1>2, <1>6, <2>1 DEF SxC
  <2> QED
    BY <1>10, <2>1, <2>2, <2>3 DEF Six!Table, SxP, SxR
<1>12. SxCounts(hand, SxIn(<<>>), SixRules.HandSize)
  BY <1>2, SixNobodyLater DEF SxCounts
<1>13. SixRules.HandSize \in 0 .. SixRules.HandSize
  BY SixNumbers
<1>14. SxPhase(g)
  BY <1>8, <1>10 DEF SxPhase
<1>15. SxOrder(<<>>, chosen, hand)
  BY SixNobodyLater
<1>16. /\ g.rows = rows /\ g.hand = hand /\ g.order = <<>> /\ g.chosen = chosen
  BY <1>10
<1> QED
  BY <1>6, <1>7, <1>11, <1>12, <1>13, <1>14, <1>15, <1>16 DEF SixHolds

--------------------------------------------------------------------------
(* Six: the invariant *)

SixInv == SixHolds(game)

LEMMA SixInitially == Six!Init => SixInv
<1>1. SUFFICES ASSUME game \in Six!Dealt([p \in SxP |-> 0]) PROVE SixHolds(game)
  BY DEF Six!Init, SixInv, SxP
<1>2. PICK score : score = [p \in SxP |-> 0]
  OBVIOUS
<1>3. score \in [SxP -> Nat]
  BY <1>2
<1> QED
  BY <1>1, <1>2, <1>3, SixDealt

\* play_card
LEMMA SixPlays ==
    ASSUME NEW g, SixHolds(g), NEW p \in SxP, NEW c \in g.hand[p], ~g.placing,
           g.choosing = Six!None,
           NEW chosen, chosen = [g.chosen EXCEPT ![p] = c],
           NEW all \in BOOLEAN, all <=> \A q \in SxP : chosen[q] # Six!None,
           NEW h, h = [g EXCEPT !.chosen = chosen, !.placing = all,
                               !.order = IF all THEN Six!RevealOrder(chosen) ELSE <<>>]
    PROVE  SixHolds(h)
<1>1. g \in Six!Table
  BY DEF SixHolds
<1>2. PICK hand \in [SxP -> SUBSET SxC] : hand = g.hand
  BY <1>1, SixTable
<1>3. g.chosen \in [SxP -> SxC \cup {Six!None}] /\ c \in SxC
  BY <1>1, <1>2, SixTable
<1>4. /\ chosen \in [SxP -> SxC \cup {Six!None}]
      /\ chosen[p] = c /\ \A q \in SxP : q # p => chosen[q] = g.chosen[q]
  BY <1>3
<1>5. \A q \in SxP : chosen[q] # Six!None => chosen[q] \in hand[q]
  <2>1. \A q \in SxP : g.chosen[q] # Six!None => g.chosen[q] \in g.hand[q]
    BY DEF SixHolds, SxPhase
  <2> QED
    BY <1>2, <1>4, <2>1
<1>6. PICK order : order = IF all THEN Six!RevealOrder(chosen) ELSE <<>>
  OBVIOUS
<1>7. SxApart(hand, g.rows) /\ SxRows(g.rows)
  BY <1>2 DEF SixHolds
<1>8. PICK n \in 0 .. SixRules.HandSize : \A q \in SxP : Cardinality(hand[q]) = n
  <2>1. g.order = <<>>
    BY DEF SixHolds, SxPhase
  <2> QED
    BY <1>2, <2>1, SixNobodyLater DEF SixHolds, SxCounts
<1>9. /\ SxOrder(order, chosen, hand)
      /\ SxIn(order) = IF all THEN SxP ELSE {}
  <2>1. CASE all
    <3>1. chosen \in [SxP -> SxC]
      BY <1>4, <2>1
    <3>2. \A q \in SxP : chosen[q] \in hand[q]
      BY <1>5, <2>1
    <3>3. \A q, r \in SxP : q # r => hand[q] \cap hand[r] = {}
      BY <1>7 DEF SxApart
    <3>4. order = Six!RevealOrder(chosen)
      BY <1>6, <2>1
    <3>5. SxOrder(order, chosen, hand) /\ SxIn(order) = SxP
      BY <1>2, <3>1, <3>2, <3>3, <3>4, SixReveals
    <3> QED
      BY <2>1, <3>5
  <2>2. CASE ~all
    BY <1>6, <2>2, SixNobodyLater
  <2> QED
    BY <2>1, <2>2
<1>10. h = [g EXCEPT !.chosen = chosen, !.placing = all, !.order = order]
  BY <1>6
<1>11. order \in Seq(SxP)
  BY <1>9 DEF SxOrder
<1>12. h \in Six!Table
  BY <1>1, <1>4, <1>10, <1>11 DEF Six!Table, SxP, SxC
<1>13. /\ h.rows = g.rows /\ h.hand = hand /\ h.order = order /\ h.chosen = chosen
       /\ h.choosing = Six!None /\ (h.placing <=> all)
  BY <1>1, <1>2, <1>10 DEF Six!Table
<1>14. \E m \in 0 .. SixRules.HandSize : SxCounts(hand, SxIn(order), m)
  <2>1. CASE all
    <3>1. n > 0
      <4>1. IsFiniteSet(hand[p])
        <5>1. hand[p] \subseteq SxC
          BY <1>2
        <5> QED
          BY <5>1, SixSets, FS_Subset
      <4>2. Cardinality(hand[p]) # 0
        BY <1>2, <4>1, FS_EmptySet
      <4> QED
        BY <1>8, <4>2
    <3>2. n - 1 \in 0 .. SixRules.HandSize /\ (n - 1) + 1 = n
      BY <3>1, SixNumbers
    <3>3. SxCounts(hand, SxP, n - 1)
      BY <1>8, <3>2 DEF SxCounts
    <3> QED
      BY <1>9, <2>1, <3>2, <3>3
  <2>2. CASE ~all
    <3>1. SxCounts(hand, {}, n)
      BY <1>8 DEF SxCounts
    <3> QED
      BY <1>9, <2>2, <3>1
  <2> QED
    BY <2>1, <2>2
<1>15. SxPhase(h)
  BY <1>5, <1>6, <1>13 DEF SxPhase
<1> QED
  BY <1>7, <1>9, <1>12, <1>13, <1>14, <1>15 DEF SixHolds

\* The row of a card is one that it fits.
LEMMA SixRowFound ==
    ASSUME game \in Six!Table, SxRows(game.rows), NEW c, Six!RowsFor(c) # {}
    PROVE  Six!RowForCard(c) \in SxR /\ Six!RowTop(game.rows[Six!RowForCard(c)]) < c
<1>1. PICK S : S = Six!RowsFor(c)
  OBVIOUS
<1>2. S \in SUBSET SxR /\ S # {} /\ \A r \in S : Six!RowTop(game.rows[r]) < c
  BY <1>1 DEF Six!RowsFor, SxR
<1>3. S \in SUBSET Nat /\ IsFiniteSet(S)
  <2>1. S \in SUBSET Nat
    BY <1>2, SixNumbers
  <2>2. IsFiniteSet(S)
    BY <1>2, SixSets, FS_Subset
  <2> QED
    BY <2>1, <2>2
<1>4. PICK f : f = [r \in S |-> Six!RowTop(game.rows[r])]
  OBVIOUS
<1>5. \A r \in S : f[r] \in Int
  <2>1. SUFFICES ASSUME NEW r \in S PROVE f[r] \in Int
    OBVIOUS
  <2>2. PICK row \in Seq(SxC) : row = game.rows[r] /\ Len(row) \in 1 .. SixRules.RowSize
    BY <1>2 DEF SxRows, SxRow
  <2>3. row[Len(row)] \in SxC
    <3>1. Len(row) \in DOMAIN row
      BY <2>2, SixNumbers
    <3> QED
      BY <2>2, <3>1
  <2>4. f[r] \in SxC
    BY <1>4, <2>2, <2>3 DEF Six!RowTop
  <2> QED
    BY <2>4, SixNumbers
<1>6. PICK p \in S : \A q \in S : f[q] < f[p] \/ (f[q] = f[p] /\ p <= q)
  BY <1>2, <1>3, <1>5, FirstOfTheBest
<1>7. \A q \in S : f[q] <= f[p]
  BY <1>5, <1>6
<1>8. \E r \in Six!RowsFor(c) : \A s \in Six!RowsFor(c) :
          Six!RowTop(game.rows[s]) <= Six!RowTop(game.rows[r])
  BY <1>1, <1>4, <1>7
<1>9. Six!RowForCard(c) \in Six!RowsFor(c)
  BY <1>8 DEF Six!RowForCard
<1> QED
  BY <1>1, <1>2, <1>9

LEMMA SixPlaceStep ==
    ASSUME SixInv, game.order # <<>>, NEW p, p = Head(game.order), NEW r \in SxR,
           NEW take \in BOOLEAN,
           take \/ (Len(game.rows[r]) < SixRules.RowSize
                        /\ Six!RowTop(game.rows[r]) < game.chosen[p]),
           Six!Place(p, r, take)
    PROVE  SixInv'
<1>1. PICK g : g = game
  OBVIOUS
<1>2. PICK e : e = game'
  OBVIOUS
<1>3. PICK x : x = Append(IF take THEN <<>> ELSE g.rows[r], g.chosen[p])
  OBVIOUS
<1>4. PICK round : round = [g.round EXCEPT ![p] =
                                  IF take THEN @ + Six!RowScore(g.rows[r]) ELSE @]
  OBVIOUS
<1>5. PICK h : h = [g EXCEPT !.rows = [g.rows EXCEPT ![r] = x], !.round = round,
                                !.hand = [g.hand EXCEPT ![p] = @ \ {g.chosen[p]}],
                                !.order = Tail(g.order), !.choosing = Six!None,
                                !.placing = TRUE]
  OBVIOUS
<1>6. SixHolds(h)
  <2>1. /\ SixHolds(g) /\ g.order # <<>> /\ p = Head(g.order)
        /\ take \/ (Len(g.rows[r]) < SixRules.RowSize /\ Six!RowTop(g.rows[r]) < g.chosen[p])
    BY <1>1 DEF SixInv
  <2> QED
    BY <1>3, <1>4, <1>5, <2>1, SixPlaced, ZenonT(30)
<1>7. e = h
  <2>1. g \in Six!Table
    BY <1>1 DEF SixInv, SixHolds
  <2>2. /\ g.rows \in [SxR -> Seq(SxC)] /\ g.round \in [SxP -> Nat]
        /\ g.hand \in [SxP -> SUBSET SxC]
    BY <2>1, SixTable
  <2>3. e = [g EXCEPT !.rows[r] = Append(IF take THEN <<>> ELSE @, g.chosen[p]),
                      !.round[p] = IF take THEN @ + Six!RowScore(g.rows[r]) ELSE @,
                      !.hand[p] = @ \ {g.chosen[p]},
                      !.order = Tail(@), !.choosing = Six!None, !.placing = TRUE]
    BY <1>1, <1>2 DEF Six!Place
  <2> QED
    BY <1>3, <1>4, <1>5, <2>3
<1> QED
  BY <1>2, <1>6, <1>7 DEF SixInv

\* A deal is over, or the next cards are asked for.
LEMMA SixRoundStep ==
    ASSUME SixInv, game.placing, game.order = <<>>, Six!StartRound
    PROVE  SixInv'
<1>1. PICK g : g = game
  OBVIOUS
<1>2. PICK e : e = game'
  OBVIOUS
<1>3. g \in Six!Table /\ SixHolds(g) /\ g.placing /\ g.order = <<>>
  BY <1>1 DEF SixInv, SixHolds
<1>4. g.choosing = Six!None
  BY <1>3 DEF SixHolds, SxPhase
<1>5. PICK chosen : chosen = [p \in SxP |-> Six!None]
  OBVIOUS
<1>6. chosen \in [SxP -> SxC \cup {Six!None}]
  BY <1>5
<1>7. PICK score : score = [p \in SxP |-> g.score[p] + g.round[p]]
  OBVIOUS
<1>8. score \in [SxP -> Nat]
  <2>1. g.score \in [SxP -> Nat] /\ g.round \in [SxP -> Nat]
    BY <1>3, SixTable
  <2> QED
    BY <1>7, <2>1
<1>9. PICK round : round = [p \in SxP |-> 0]
  OBVIOUS
<1>10. round \in [SxP -> Nat]
  BY <1>9
<1>11. \/ e = [g EXCEPT !.score = score, !.round = round, !.chosen = chosen,
                        !.placing = FALSE, !.ending = TRUE]
       \/ e \in Six!Dealt(score)
       \/ e = [g EXCEPT !.chosen = chosen, !.placing = FALSE]
  BY <1>1, <1>2, <1>5, <1>7, <1>9 DEF Six!StartRound, Six!EndOfDeal, SxP
<1>12. CASE e \in Six!Dealt(score)
  <2>1. SixHolds(e)
    BY <1>8, <1>12, SixDealt
  <2> QED
    BY <1>2, <2>1 DEF SixInv
<1>13. CASE \/ e = [g EXCEPT !.score = score, !.round = round, !.chosen = chosen,
                             !.placing = FALSE, !.ending = TRUE]
            \/ e = [g EXCEPT !.chosen = chosen, !.placing = FALSE]
  <2>1. e \in Six!Table
    <3>1. CASE e = [g EXCEPT !.score = score, !.round = round, !.chosen = chosen,
                             !.placing = FALSE, !.ending = TRUE]
      BY <1>3, <1>6, <1>8, <1>10, <3>1 DEF Six!Table, SxP, SxC
    <3>2. CASE e = [g EXCEPT !.chosen = chosen, !.placing = FALSE]
      BY <1>3, <1>6, <3>2 DEF Six!Table, SxP, SxC
    <3> QED
      BY <1>13, <3>1, <3>2
  <2>2. /\ e.rows = g.rows /\ e.hand = g.hand /\ e.order = <<>> /\ e.chosen = chosen
        /\ e.choosing = Six!None /\ ~e.placing
    BY <1>3, <1>4, <1>13 DEF Six!Table
  <2>3. SxPhase(e)
    BY <1>5, <2>2 DEF SxPhase
  <2>4. SxOrder(e.order, e.chosen, e.hand)
    BY <2>2, SixNobodyLater
  <2>5. SixHolds(e)
    BY <1>3, <2>1, <2>2, <2>3, <2>4 DEF SixHolds
  <2> QED
    BY <1>2, <2>5 DEF SixInv
<1> QED
  BY <1>11, <1>12, <1>13

LEMMA SixTimerStep ==
    ASSUME SixInv, Six!PlacementTimer
    PROVE  SixInv'
<1>1. game.placing
  BY DEF Six!PlacementTimer
<1>2. game \in Six!Table /\ SxRows(game.rows)
  BY DEF SixInv, SixHolds
<1>3. CASE game.order = <<>>
  <2>1. Six!StartRound
    BY <1>3 DEF Six!PlacementTimer
  <2> QED
    BY <1>1, <1>3, <2>1, SixRoundStep
<1>4. CASE game.order # <<>>
  <2>1. PICK p : p = Head(game.order)
    OBVIOUS
  <2>2. PICK c : c = game.chosen[p]
    OBVIOUS
  <2>3. PICK r : r = Six!RowForCard(c)
    OBVIOUS
  <2>4. IF Six!RowsFor(c) = {}
        THEN game' = [game EXCEPT !.placing = FALSE, !.choosing = p]
        ELSE Six!Place(p, r, Len(game.rows[r]) >= SixRules.RowSize)
    BY <1>4, <2>1, <2>2, <2>3 DEF Six!PlacementTimer
  <2>5. CASE Six!RowsFor(c) = {}
    <3>1. PICK e : e = game'
      OBVIOUS
    <3>2. e = [game EXCEPT !.placing = FALSE, !.choosing = p]
      BY <2>4, <2>5, <3>1
    <3>3. p \in SxP
      <4>1. game.order \in Seq(SxP)
        BY <1>2, SixTable
      <4> QED
        BY <1>4, <2>1, <4>1
    <3>4. e \in Six!Table
      BY <1>2, <3>2, <3>3 DEF Six!Table, SxP
    <3>5. /\ e.rows = game.rows /\ e.hand = game.hand /\ e.order = game.order
          /\ e.chosen = game.chosen /\ e.choosing = p /\ ~e.placing
      BY <1>2, <3>2 DEF Six!Table
    <3>6. SxPhase(e)
      BY <1>4, <2>1, <3>3, <3>5, SixNumbers DEF SxPhase
    <3>7. SixHolds(e)
      BY <3>4, <3>5, <3>6 DEF SixHolds, SixInv
    <3> QED
      BY <3>1, <3>7 DEF SixInv
  <2>6. CASE Six!RowsFor(c) # {}
    <3>1. r \in SxR /\ Six!RowTop(game.rows[r]) < c
      BY <1>2, <2>3, <2>6, SixRowFound
    <3>2. PICK take \in BOOLEAN : take <=> Len(game.rows[r]) >= SixRules.RowSize
      OBVIOUS
    <3>3. Six!Place(p, r, take)
      <4>1. take = (Len(game.rows[r]) >= SixRules.RowSize)
        BY <3>2
      <4> QED
        BY <2>4, <2>6, <4>1
    <3>4. take \/ Len(game.rows[r]) < SixRules.RowSize
      <4>1. Len(game.rows[r]) \in 1 .. SixRules.RowSize
        BY <1>2, <3>1 DEF SxRows, SxRow
      <4> QED
        BY <3>2, <4>1, SixNumbers
    <3> QED
      BY <1>4, <2>1, <2>2, <3>1, <3>3, <3>4, SixPlaceStep
  <2> QED
    BY <2>5, <2>6
<1> QED
  BY <1>3, <1>4

LEMMA SixStep == SixInv /\ [Six!Next]_game => SixInv'
<1>1. SUFFICES ASSUME SixInv, [Six!Next]_game PROVE SixInv'
  OBVIOUS
<1>2. CASE UNCHANGED game
  BY <1>1, <1>2 DEF SixInv
<1>3. CASE Six!PlacementTimer
  BY <1>1, <1>3, SixTimerStep
<1>4. CASE Six!GameOver
  <2>1. PICK e : e = game'
    OBVIOUS
  <2>2. game \in Six!Table /\ e = [game EXCEPT !.ending = FALSE, !.over = TRUE]
    BY <1>1, <1>4, <2>1 DEF SixInv, SixHolds, Six!GameOver
  <2>3. e \in Six!Table
    BY <2>2 DEF Six!Table
  <2>4. /\ e.rows = game.rows /\ e.hand = game.hand /\ e.order = game.order
        /\ e.chosen = game.chosen /\ e.choosing = game.choosing
        /\ e.placing = game.placing
    BY <2>2 DEF Six!Table
  <2>5. SixHolds(e)
    BY <1>1, <2>3, <2>4 DEF SixInv, SixHolds, SxPhase
  <2> QED
    BY <2>1, <2>5 DEF SixInv
<1>5. ASSUME NEW p \in SxP, NEW c, Six!PlayCard(p, c) PROVE SixInv'
  <2>1. PICK g : g = game
    OBVIOUS
  <2>2. PICK e : e = game'
    OBVIOUS
  <2>3. PICK chosen : chosen = [g.chosen EXCEPT ![p] = c]
    OBVIOUS
  <2>4. PICK all \in BOOLEAN : all <=> \A q \in SxP : chosen[q] # Six!None
    OBVIOUS
  <2>5. SixHolds(g) /\ c \in g.hand[p] /\ ~g.placing /\ g.choosing = Six!None
    BY <1>1, <1>5, <2>1 DEF SixInv, Six!PlayCard
  <2>6. e = [g EXCEPT !.chosen = chosen, !.placing = all,
                      !.order = IF all THEN Six!RevealOrder(chosen) ELSE <<>>]
    <3>1. all = (\A q \in SxP : chosen[q] # Six!None)
      BY <2>4
    <3> QED
      BY <1>5, <2>1, <2>2, <2>3, <3>1 DEF Six!PlayCard, SxP
  <2>7. SixHolds(e)
    BY <2>3, <2>4, <2>5, <2>6, SixPlays
  <2> QED
    BY <2>2, <2>7 DEF SixInv
<1>6. ASSUME NEW p \in SxP, NEW r \in SxR, Six!ChooseRow(p, r) PROVE SixInv'
  <2>1. game.choosing = p /\ Six!Place(p, r, TRUE)
    BY <1>6 DEF Six!ChooseRow
  <2>2. game.order # <<>> /\ p = Head(game.order)
    BY <1>1, <2>1, SixNumbers DEF SixInv, SixHolds, SxPhase
  <2>3. PICK take \in BOOLEAN : take = TRUE
    OBVIOUS
  <2>4. Six!Place(p, r, take) /\ take
    BY <2>1, <2>3
  <2> QED
    BY <1>1, <2>2, <2>4, SixPlaceStep
<1> QED
  BY <1>1, <1>2, <1>3, <1>4, <1>5, <1>6
     DEF Six!Next, Six!Timers, Six!Press, SxP, SxC, SxR

LEMMA SixMeans == SixInv => Six!TypeOK /\ Six!CardsOnce /\ Six!InTurn
<1>1. SUFFICES ASSUME SixInv PROVE Six!TypeOK /\ Six!CardsOnce /\ Six!InTurn
  OBVIOUS
<1>2. PICK g : g = game
  OBVIOUS
<1>3. SixHolds(g) /\ g \in Six!Table
  BY <1>1, <1>2 DEF SixInv, SixHolds
<1>4. Six!TypeOK
  BY <1>2, <1>3 DEF Six!TypeOK
<1>5. Six!CardsOnce
  <2>1. \A p, q \in Six!Players : p # q => game.hand[p] \cap game.hand[q] = {}
    BY <1>2, <1>3 DEF SixHolds, SxApart, SxP
  <2>2. ASSUME NEW r \in Six!Rows
        PROVE  /\ Len(game.rows[r]) \in 1 .. SixRules.RowSize
               /\ \A i, j \in DOMAIN game.rows[r] :
                      i < j => game.rows[r][i] < game.rows[r][j]
    BY <1>2, <1>3, <2>2 DEF SixHolds, SxRows, SxRow, SxR
  <2>3. ASSUME NEW r \in Six!Rows, NEW i \in DOMAIN game.rows[r]
        PROVE  /\ \A p \in Six!Players : game.rows[r][i] \notin game.hand[p]
               /\ \A s \in Six!Rows \ {r} : \A j \in DOMAIN game.rows[s] :
                      game.rows[r][i] # game.rows[s][j]
    <3>1. game.rows[r][i] \in SxIn(g.rows[r])
      BY <1>2 DEF SxIn
    <3>2. \A s \in Six!Rows : \A j \in DOMAIN game.rows[s] :
              game.rows[s][j] \in SxIn(g.rows[s])
      BY <1>2 DEF SxIn
    <3>3. \A p \in Six!Players : SxIn(g.rows[r]) \cap g.hand[p] = {}
      BY <1>3, <2>3 DEF SixHolds, SxApart, SxP, SxR
    <3>4. \A s \in Six!Rows : s # r => SxIn(g.rows[r]) \cap SxIn(g.rows[s]) = {}
      BY <1>3, <2>3 DEF SixHolds, SxApart, SxR
    <3>5. \A p \in Six!Players : game.rows[r][i] \notin game.hand[p]
      BY <1>2, <3>1, <3>3
    <3>6. \A s \in Six!Rows \ {r} : \A j \in DOMAIN game.rows[s] :
                      game.rows[r][i] # game.rows[s][j]
      BY <3>1, <3>2, <3>4
    <3> QED
      BY <3>5, <3>6
  <2> QED
    BY <2>1, <2>2, <2>3 DEF Six!CardsOnce
<1>6. Six!InTurn
  <2>1. PICK n \in 0 .. SixRules.HandSize : SxCounts(g.hand, SxIn(g.order), n)
    BY <1>3 DEF SixHolds
  <2>2. \A p \in Six!Players :
          Six!Cardinality(game.hand[p]) = IF p \in Six!Range(game.order) THEN n + 1 ELSE n
    BY <1>2, <2>1, SixSets DEF SxCounts, SxIn, Six!Range, SxP
  <2>3. /\ \A i, j \in DOMAIN game.order :
             i < j => game.chosen[game.order[i]] < game.chosen[game.order[j]]
        /\ \A i \in DOMAIN game.order :
             game.chosen[game.order[i]] \in game.hand[game.order[i]]
    BY <1>2, <1>3 DEF SixHolds, SxOrder
  <2>4. game.choosing # Six!None => game.order # <<>> /\ game.choosing = Head(game.order)
    BY <1>2, <1>3 DEF SixHolds, SxPhase
  <2> QED
    BY <2>2, <2>3, <2>4 DEF Six!InTurn
<1> QED
  BY <1>4, <1>5, <1>6

--------------------------------------------------------------------------
(* Love: numbers, bags and sums *)

LvP == Love!Players
LvN == LoveRules.NPlayers
LvC == Love!Characters

One(x, c) == IF x = c THEN 1 ELSE 0

LEMMA LoveNumbers ==
    /\ LvN \in Nat /\ LvN > 1 /\ LvP = 0 .. LvN - 1 /\ 0 \in LvP
    /\ LoveRules.NVisible \in Nat /\ LoveRules.LateMax \in Nat /\ LoveRules.NHearts \in Nat
    /\ LoveRules.Decks \subseteq Love!Bags
    /\ LvC = 1 .. 8 /\ Love!None \notin LvC /\ Love!None \notin LvP
<1>1. /\ LvN \in Nat /\ LvN > 1
      /\ LoveRules.NVisible \in Nat /\ LoveRules.LateMax \in Nat /\ LoveRules.NHearts \in Nat
      /\ LoveRules.Decks \subseteq Love!Bags
  BY Setups DEF Setups, Love!Setup, LvN
<1>2. LvP = 0 .. LvN - 1
  BY DEF LvP, LvN, Love!Players
<1> QED
  BY <1>1, <1>2 DEF LvC, Love!Characters, Love!None

LEMMA LoveSets ==
    /\ IsFiniteSet(LvP) /\ Cardinality(LvP) = LvN
    /\ IsFiniteSet(LvC)
    /\ \A S : Love!Cardinality(S) = Cardinality(S)
<1> DEFINE m == LvN - 1
<1>1. 0 \in Int /\ m \in Int /\ m >= 0 /\ m - 0 + 1 = LvN
  BY LoveNumbers
<1>2. IsFiniteSet(0 .. m) /\ Cardinality(0 .. m) = m - 0 + 1
  <2> HIDE DEF m
  <2> QED
    BY <1>1, FS_Interval
<1>3. IsFiniteSet(1 .. 8)
  <2>1. 1 \in Int /\ 8 \in Int
    OBVIOUS
  <2> QED
    BY <2>1, FS_Interval
<1>4. \A S : Love!Cardinality(S) = Cardinality(S)
  BY DEF Love!Cardinality, Cardinality
<1> QED
  BY <1>1, <1>2, <1>3, <1>4, LoveNumbers

LEMMA LoveSums ==
    /\ \A bag : Love!Size(bag) = Sum([c \in LvC |-> bag[c]], LvC)
    /\ \A pile, c : Love!MapThenSumSet(LAMBDA p : pile[p][c], Love!Players)
                        = Sum(Column(pile, LvP, c), LvP)
<1>1. ASSUME NEW bag
      PROVE  Love!Size(bag) = Sum([c \in LvC |-> bag[c]], LvC)
  BY DEF Love!Size, LvC, Sum, Love!MapThenSumSet, MapThenSumSet, Love!MapThenFoldSet,
     MapThenFoldSet
<1>2. ASSUME NEW pile, NEW c
      PROVE  Love!MapThenSumSet(LAMBDA p : pile[p][c], Love!Players)
                        = Sum(Column(pile, LvP, c), LvP)
  BY DEF LvP, Column, Sum, Love!MapThenSumSet, MapThenSumSet, Love!MapThenFoldSet,
     MapThenFoldSet
<1> QED
  BY <1>1, <1>2

--------------------------------------------------------------------------
(* Love: where the cards are *)

\* The cards of a character that are on the table, in a hand or in a pile.
LvIn(g, c) ==
    g.deck[c] + g.visible[c] + One(g.aside, c) + Cardinality(Fibre(g.card, LvP, c))
        + Sum(Column(g.pile, LvP, c), LvP)

\* All the cards of the deck are there, but the card x.
LvKept(g, x) == \A c \in LvC : g.copies[c] = LvIn(g, c) + One(x, c)

LvNumbers(g) == \A c \in LvC :
    /\ g.copies[c] \in Nat /\ g.deck[c] \in Nat /\ g.visible[c] \in Nat
    /\ Cardinality(Fibre(g.card, LvP, c)) \in Nat
    /\ Sum(Column(g.pile, LvP, c), LvP) \in Nat
    /\ LvIn(g, c) \in Nat

LEMMA LoveCounts ==
    ASSUME NEW g \in Love!Table
    PROVE  LvNumbers(g)
<1>1. SUFFICES ASSUME NEW c \in LvC
               PROVE  /\ g.copies[c] \in Nat /\ g.deck[c] \in Nat /\ g.visible[c] \in Nat
                      /\ Cardinality(Fibre(g.card, LvP, c)) \in Nat
                      /\ Sum(Column(g.pile, LvP, c), LvP) \in Nat
                      /\ LvIn(g, c) \in Nat
  BY DEF LvNumbers
<1>2. g.copies[c] \in Nat /\ g.deck[c] \in Nat /\ g.visible[c] \in Nat
  BY DEF LvC, Love!Table, Love!Bags
<1>3. Cardinality(Fibre(g.card, LvP, c)) \in Nat
  BY LoveSets, FibreFinite
<1>4. Sum(Column(g.pile, LvP, c), LvP) \in Nat
  <2>1. PICK f : f = Column(g.pile, LvP, c)
    OBVIOUS
  <2>2. \A p \in LvP : f[p] \in Nat
    BY <2>1 DEF Column, LvP, LvC, Love!Table, Love!Bags
  <2>3. Sum(f, LvP) \in Nat
    BY <2>2, LoveSets, SumNat
  <2> QED
    BY <2>1, <2>3
<1> QED
  BY <1>2, <1>3, <1>4 DEF LvIn, One

\* A card more in a pile.
LEMMA LovePileGrows ==
    ASSUME NEW g \in Love!Table, NEW p \in LvP, NEW x \in LvC,
           NEW pile, pile = [g.pile EXCEPT ![p][x] = @ + 1], NEW c \in LvC
    PROVE  Sum(Column(pile, LvP, c), LvP) = Sum(Column(g.pile, LvP, c), LvP) + One(x, c)
<1>1. g.pile \in [LvP -> [LvC -> Nat]]
  BY DEF LvP, LvC, Love!Table, Love!Bags
<1>2. PICK a : a = Column(g.pile, LvP, c)
  OBVIOUS
<1>3. PICK b : b = Column(pile, LvP, c)
  OBVIOUS
<1>4. PICK q : q = [g.pile[p] EXCEPT ![x] = @ + 1]
  OBVIOUS
<1>5. pile = [g.pile EXCEPT ![p] = q]
  BY <1>4
<1>6. /\ \A i \in LvP : i # p => pile[i] = g.pile[i]
      /\ pile[p] = q
  BY <1>1, <1>5
<1>7. g.pile[p] \in [LvC -> Nat]
  BY <1>1
<1>8. q[c] = g.pile[p][c] + One(x, c) /\ q[c] \in Int
  BY <1>4, <1>7 DEF One
<1>9. \A i \in LvP : a[i] \in Int /\ b[i] \in Int
  BY <1>1, <1>2, <1>3, <1>6, <1>8 DEF Column
<1>10. \A i \in LvP : i # p => a[i] = b[i]
  BY <1>2, <1>3, <1>6 DEF Column
<1>11. Sum(b, LvP) = Sum(a, LvP) + b[p] - a[p]
  <2>1. DifferAt(LvP, a, b, p) /\ IsFiniteSet(LvP)
    BY <1>9, <1>10, LoveSets DEF DifferAt
  <2> QED
    BY <2>1, SumOfChange
<1>12. b[p] = a[p] + One(x, c)
  BY <1>2, <1>3, <1>6, <1>8 DEF Column
<1>13. Sum(a, LvP) \in Int
  BY <1>9, LoveSets, SumType
<1>14. One(x, c) \in Int
  BY DEF One
<1> QED
  BY <1>2, <1>3, <1>9, <1>11, <1>12, <1>13, <1>14

\* Another card in a hand.
LEMMA LoveHandChanges ==
    ASSUME NEW g \in Love!Table, NEW p \in LvP, NEW x,
           NEW card, card = [g.card EXCEPT ![p] = x], NEW c \in LvC
    PROVE  Cardinality(Fibre(card, LvP, c))
             = Cardinality(Fibre(g.card, LvP, c)) + One(x, c) - One(g.card[p], c)
<1>1. g.card \in [LvP -> LvC \cup {Love!None}]
  BY DEF LvP, LvC, Love!Table
<1>2. PICK v : v = g.card
  OBVIOUS
<1>3. \A i \in LvP : i # p => v[i] = card[i]
  BY <1>1, <1>2
<1>4. Cardinality(Fibre(card, LvP, c))
             = Cardinality(Fibre(v, LvP, c)) + Counts(card, p, c) - Counts(v, p, c)
  <2>1. SameBut(LvP, v, card, p) /\ IsFiniteSet(LvP)
    BY <1>3, LoveSets DEF SameBut
  <2> QED
    BY <2>1, FibreOfChange
<1>5. card[p] = x
  BY <1>1
<1> QED
  BY <1>2, <1>4, <1>5 DEF Counts, One

--------------------------------------------------------------------------
(* Love: what the effects of the cards are made of *)

\* What neither a discard nor a death changes.
LvSame(g, h) ==
    /\ h \in Love!Table
    /\ h.copies = g.copies /\ h.deck = g.deck /\ h.visible = g.visible
    /\ h.aside = g.aside /\ h.pending = g.pending /\ h.current = g.current
    /\ h.ending = g.ending /\ h.over = g.over

\* x is put on a pile.
LvPiled(g, h, x) ==
    /\ LvSame(g, h)
    /\ h.card = g.card /\ h.alive = g.alive /\ h.protected = g.protected
    /\ x \in LvC => \A c \in LvC : LvIn(h, c) = LvIn(g, c) + One(x, c)

LEMMA LovePiled ==
    ASSUME NEW g \in Love!Table, NEW p \in LvP, NEW x, NEW h, h = Love!Piled(g, p, x)
    PROVE  LvPiled(g, h, x)
<1>1. h = [g EXCEPT !.pile[p][x] = @ + 1]
  BY DEF Love!Piled
<1>2. PICK pile : pile = [g.pile EXCEPT ![p][x] = @ + 1]
  OBVIOUS
<1>3. h = [g EXCEPT !.pile = pile]
  BY <1>1, <1>2
<1>4. pile \in [LvP -> [LvC -> Nat]]
  <2>1. g.pile \in [LvP -> [LvC -> Nat]]
    BY DEF Love!Table, Love!Bags, LvP, LvC
  <2>2. PICK q : q = [g.pile[p] EXCEPT ![x] = @ + 1]
    OBVIOUS
  <2>3. q \in [LvC -> Nat]
    <3>1. PICK r \in [LvC -> Nat] : r = g.pile[p]
      BY <2>1
    <3>2. q = [r EXCEPT ![x] = r[x] + 1]
      BY <2>2, <3>1
    <3>3. CASE x \in LvC
      BY <3>2, <3>3
    <3>4. CASE x \notin LvC
      <4>1. q = r
        BY <3>2, <3>4
      <4> QED
        BY <4>1
    <3> QED
      BY <3>3, <3>4
  <2>4. pile = [g.pile EXCEPT ![p] = q]
    BY <1>2, <2>2
  <2> QED
    BY <2>1, <2>3, <2>4
<1>5. h \in Love!Table
  BY <1>3, <1>4 DEF Love!Table, Love!Bags, LvP, LvC
<1>6. /\ h.copies = g.copies /\ h.deck = g.deck /\ h.visible = g.visible
      /\ h.aside = g.aside /\ h.pending = g.pending /\ h.current = g.current
      /\ h.ending = g.ending /\ h.over = g.over
      /\ h.card = g.card /\ h.alive = g.alive /\ h.protected = g.protected
      /\ h.pile = pile
  BY <1>3 DEF Love!Table
<1>7. ASSUME x \in LvC, NEW c \in LvC
      PROVE  LvIn(h, c) = LvIn(g, c) + One(x, c)
  <2>1. Sum(Column(pile, LvP, c), LvP) = Sum(Column(g.pile, LvP, c), LvP) + One(x, c)
    BY <1>2, <1>7, LovePileGrows
  <2>2. LvNumbers(g)
    BY LoveCounts
  <2>3. /\ g.deck[c] \in Int /\ g.visible[c] \in Int
        /\ Cardinality(Fibre(g.card, LvP, c)) \in Int
        /\ Sum(Column(g.pile, LvP, c), LvP) \in Int
    BY <2>2 DEF LvNumbers
  <2>4. One(g.aside, c) \in Int /\ One(x, c) \in Int
    BY DEF One
  <2> QED
    BY <1>6, <2>1, <2>3, <2>4 DEF LvIn
<1> QED
  BY <1>5, <1>6, <1>7 DEF LvPiled, LvSame

\* The hand of p becomes y.
LvHandIs(g, h, p, y) ==
    /\ LvSame(g, h)
    /\ h.card = [g.card EXCEPT ![p] = y] /\ h.alive = g.alive /\ h.protected = g.protected
    /\ \A c \in LvC : LvIn(h, c) = LvIn(g, c) + One(y, c) - One(g.card[p], c)

LEMMA LoveHandIs ==
    ASSUME NEW g \in Love!Table, NEW p \in LvP, NEW y \in LvC \cup {Love!None},
           NEW h, h = [g EXCEPT !.card = [g.card EXCEPT ![p] = y]]
    PROVE  LvHandIs(g, h, p, y)
<1>1. PICK card : card = [g.card EXCEPT ![p] = y]
  OBVIOUS
<1>2. card \in [LvP -> LvC \cup {Love!None}]
  BY <1>1 DEF Love!Table, LvP, LvC
<1>3. h = [g EXCEPT !.card = card]
  BY <1>1
<1>4. h \in Love!Table
  BY <1>2, <1>3 DEF Love!Table, LvP, LvC
<1>5. /\ h.copies = g.copies /\ h.deck = g.deck /\ h.visible = g.visible
      /\ h.aside = g.aside /\ h.pending = g.pending /\ h.current = g.current
      /\ h.ending = g.ending /\ h.over = g.over
      /\ h.pile = g.pile /\ h.alive = g.alive /\ h.protected = g.protected
      /\ h.card = card
  BY <1>3 DEF Love!Table
<1>6. ASSUME NEW c \in LvC
      PROVE  LvIn(h, c) = LvIn(g, c) + One(y, c) - One(g.card[p], c)
  <2>1. Cardinality(Fibre(card, LvP, c))
             = Cardinality(Fibre(g.card, LvP, c)) + One(y, c) - One(g.card[p], c)
    BY <1>1, <1>6, LoveHandChanges
  <2>2. LvNumbers(g)
    BY LoveCounts
  <2>3. /\ g.deck[c] \in Int /\ g.visible[c] \in Int
        /\ Cardinality(Fibre(g.card, LvP, c)) \in Int
        /\ Sum(Column(g.pile, LvP, c), LvP) \in Int
    BY <2>2 DEF LvNumbers
  <2>4. One(g.aside, c) \in Int /\ One(y, c) \in Int /\ One(g.card[p], c) \in Int
    BY DEF One
  <2> QED
    BY <1>5, <2>1, <2>3, <2>4 DEF LvIn
<1> QED
  BY <1>1, <1>4, <1>5, <1>6 DEF LvHandIs, LvSame

\* The current player discards one of two cards and keeps the other.
LvStarted(g, h, x) ==
    /\ LvSame(g, h)
    /\ h.card = [g.card EXCEPT ![g.current] = IF x = g.pending THEN @ ELSE g.pending]
    /\ h.alive = g.alive /\ h.protected = g.protected
    /\ \A c \in LvC : LvIn(h, c) = LvIn(g, c) + One(g.pending, c)

LEMMA LoveStarted ==
    ASSUME NEW g \in Love!Table, NEW x \in LvC, x \in {g.card[g.current], g.pending},
           NEW h, h = Love!Started(g, x)
    PROVE  LvStarted(g, h, x)
<1>1. PICK y : y = IF x = g.pending THEN g.card[g.current] ELSE g.pending
  OBVIOUS
<1>2. PICK k : k = [g EXCEPT !.card = [g.card EXCEPT ![g.current] = y]]
  OBVIOUS
<1>3. h = Love!Piled(k, g.current, x)
  BY <1>1, <1>2 DEF Love!Started
<1>4. g.current \in LvP /\ y \in LvC \cup {Love!None} /\ g.pending \in LvC
  BY <1>1 DEF Love!Table, LvP, LvC
<1>5. LvHandIs(g, k, g.current, y)
  BY <1>2, <1>4, LoveHandIs
<1>6. k \in Love!Table
  BY <1>5 DEF LvHandIs, LvSame
<1>7. LvPiled(k, h, x)
  BY <1>3, <1>4, <1>6, LovePiled
<1>8. LvSame(g, h)
  BY <1>5, <1>7 DEF LvHandIs, LvPiled, LvSame
<1>9. /\ h.card = [g.card EXCEPT ![g.current] = y]
      /\ h.alive = g.alive /\ h.protected = g.protected
  BY <1>5, <1>7 DEF LvHandIs, LvPiled
<1>10. ASSUME NEW c \in LvC
       PROVE  LvIn(h, c) = LvIn(g, c) + One(g.pending, c)
  <2>1. LvIn(k, c) = LvIn(g, c) + One(y, c) - One(g.card[g.current], c)
    BY <1>5 DEF LvHandIs
  <2>2. LvIn(h, c) = LvIn(k, c) + One(x, c)
    BY <1>7 DEF LvPiled
  <2>3. LvIn(g, c) \in Int
    BY LoveCounts DEF LvNumbers
  <2>4. One(y, c) \in Int /\ One(x, c) \in Int /\ One(g.pending, c) \in Int
        /\ One(g.card[g.current], c) \in Int
    BY DEF One
  <2>5. One(y, c) + One(x, c) = One(g.pending, c) + One(g.card[g.current], c)
    BY <1>1, <2>4
  <2> QED
    BY <2>1, <2>2, <2>3, <2>4, <2>5
<1> QED
  BY <1>1, <1>8, <1>9, <1>10 DEF LvStarted

\* A player dies.
LvKilled(g, h, p) ==
    /\ LvSame(g, h)
    /\ h.card = [g.card EXCEPT ![p] = Love!None] /\ h.alive = g.alive \ {p}
    /\ h.protected = g.protected
    /\ g.card[p] \in LvC => \A c \in LvC : LvIn(h, c) = LvIn(g, c)

LEMMA LoveKilled ==
    ASSUME NEW g \in Love!Table, NEW p \in LvP, NEW h, h = Love!Killed(g, p)
    PROVE  LvKilled(g, h, p)
<1>1. PICK x : x = g.card[p]
  OBVIOUS
<1>2. PICK k : k = Love!Piled(g, p, x)
  OBVIOUS
<1>3. PICK l : l = [k EXCEPT !.card = [k.card EXCEPT ![p] = Love!None]]
  OBVIOUS
<1>4. LvPiled(g, k, x)
  BY <1>2, LovePiled
<1>5. k \in Love!Table
  BY <1>4 DEF LvPiled, LvSame
<1>6. LvHandIs(k, l, p, Love!None)
  BY <1>3, <1>5, LoveHandIs
<1>7. l \in Love!Table
  BY <1>6 DEF LvHandIs, LvSame
<1>8. h = [l EXCEPT !.alive = l.alive \ {p}]
  <2>1. h = [k EXCEPT !.card[p] = Love!None, !.alive = @ \ {p}]
    BY <1>1, <1>2 DEF Love!Killed
  <2> QED
    BY <1>3, <1>5, <2>1 DEF Love!Table
<1>9. /\ h \in Love!Table
      /\ h.copies = l.copies /\ h.deck = l.deck /\ h.visible = l.visible
      /\ h.aside = l.aside /\ h.pending = l.pending /\ h.current = l.current
      /\ h.ending = l.ending /\ h.over = l.over /\ h.card = l.card /\ h.pile = l.pile
      /\ h.alive = l.alive \ {p} /\ h.protected = l.protected
  BY <1>7, <1>8 DEF Love!Table
<1>10. LvSame(g, h)
  BY <1>4, <1>6, <1>9 DEF LvHandIs, LvPiled, LvSame
<1>11. /\ h.card = [g.card EXCEPT ![p] = Love!None]
       /\ h.alive = g.alive \ {p} /\ h.protected = g.protected
  BY <1>4, <1>6, <1>9 DEF LvHandIs, LvPiled
<1>12. ASSUME x \in LvC, NEW c \in LvC
       PROVE  LvIn(h, c) = LvIn(g, c)
  <2>1. LvIn(k, c) = LvIn(g, c) + One(x, c)
    BY <1>4, <1>12 DEF LvPiled
  <2>2. LvIn(l, c) = LvIn(k, c) + One(Love!None, c) - One(k.card[p], c)
    BY <1>6 DEF LvHandIs
  <2>3. k.card[p] = x
    BY <1>1, <1>4 DEF LvPiled
  <2>4. LvIn(h, c) = LvIn(l, c)
    BY <1>9 DEF LvIn
  <2>5. LvIn(g, c) \in Int
    BY LoveCounts DEF LvNumbers
  <2>6. One(Love!None, c) = 0 /\ One(x, c) \in Int
    BY LoveNumbers DEF One
  <2> QED
    BY <2>1, <2>2, <2>3, <2>4, <2>5, <2>6
<1> QED
  BY <1>1, <1>10, <1>11, <1>12 DEF LvKilled

--------------------------------------------------------------------------
(* Love: the effects *)

\* The living hold the cards.
LvHands(g) == g \in Love!Table /\ g.alive = {p \in LvP : g.card[p] # Love!None}

\* A turn: a card is drawn, the player is alive and the prince finds a card.
LvTurn(g) ==
    /\ LvHands(g)
    /\ LvKept(g, g.pending)
    /\ g.current \in g.alive
    /\ g.aside # Love!None

\* Between two turns: the card that was drawn is gone.
LvMid(g) ==
    /\ LvHands(g)
    /\ LvKept(g, Love!None)
    /\ g.aside = Love!None => Love!Size(g.deck) = 0

\* What is left of a game by an effect.
LvAfter(g, h) ==
    /\ h \in Love!Table
    /\ h.copies = g.copies /\ h.current = g.current
    /\ h.ending = g.ending /\ h.over = g.over
    /\ LvTurn(g) => LvMid(h)

\* A discard alone.
LEMMA LoveDiscarded ==
    ASSUME NEW g, NEW h, NEW x, LvStarted(g, h, x), LvTurn(g)
    PROVE  LvMid(h)
<1>1. g \in Love!Table /\ h \in Love!Table
  BY DEF LvStarted, LvSame, LvTurn, LvHands
<1>2. PICK a : a = g.current
  OBVIOUS
<1>3. /\ h.card = [g.card EXCEPT ![a] = IF x = g.pending THEN g.card[a] ELSE g.pending]
      /\ h.alive = g.alive /\ a \in g.alive
  BY <1>2 DEF LvStarted, LvTurn
<1>4. g.card \in [LvP -> LvC \cup {Love!None}] /\ g.pending \in LvC /\ a \in LvP
  BY <1>1, <1>2 DEF Love!Table, LvP, LvC
<1>5. g.alive = {p \in LvP : g.card[p] # Love!None}
  BY DEF LvTurn, LvHands
<1>6. h.card[a] # Love!None /\ \A p \in LvP : p # a => h.card[p] = g.card[p]
  BY <1>3, <1>4, <1>5, LoveNumbers
<1>7. h.alive = {p \in LvP : h.card[p] # Love!None}
  BY <1>3, <1>5, <1>6
<1>8. LvKept(h, Love!None)
  <2>1. SUFFICES ASSUME NEW c \in LvC
                 PROVE  h.copies[c] = LvIn(h, c) + One(Love!None, c)
    BY DEF LvKept
  <2>2. g.copies[c] = LvIn(g, c) + One(g.pending, c)
    BY DEF LvTurn, LvKept
  <2>3. LvIn(h, c) = LvIn(g, c) + One(g.pending, c) /\ h.copies = g.copies
    BY DEF LvStarted, LvSame
  <2>4. One(Love!None, c) = 0 /\ LvIn(h, c) \in Int
    <3>1. LvNumbers(h)
      BY <1>1, LoveCounts
    <3>2. LvIn(h, c) \in Nat
      BY <3>1 DEF LvNumbers
    <3> QED
      BY <3>2, LoveNumbers DEF One
  <2> QED
    BY <2>2, <2>3, <2>4
<1>9. h.aside # Love!None
  BY DEF LvStarted, LvSame, LvTurn
<1> QED
  BY <1>1, <1>7, <1>8, <1>9 DEF LvMid, LvHands

\* A death leaves the hands and the cards as they have to be.
LEMMA LoveDead ==
    ASSUME NEW g, NEW h, NEW p \in LvP, LvKilled(g, h, p), LvHands(g), p \in g.alive
    PROVE  /\ LvHands(h)
           /\ \A x : LvKept(g, x) => LvKept(h, x)
<1>1. g \in Love!Table /\ h \in Love!Table
  BY DEF LvKilled, LvSame, LvHands
<1>2. /\ h.card = [g.card EXCEPT ![p] = Love!None] /\ h.alive = g.alive \ {p}
      /\ g.alive = {q \in LvP : g.card[q] # Love!None}
  BY DEF LvKilled, LvHands
<1>3. g.card \in [LvP -> LvC \cup {Love!None}]
  BY <1>1 DEF Love!Table, LvP, LvC
<1>4. h.card[p] = Love!None /\ \A q \in LvP : q # p => h.card[q] = g.card[q]
  BY <1>2, <1>3
<1>5. h.alive = {q \in LvP : h.card[q] # Love!None}
  BY <1>2, <1>4
<1>6. g.card[p] \in LvC
  BY <1>2, <1>3
<1>7. \A c \in LvC : LvIn(h, c) = LvIn(g, c) /\ h.copies = g.copies
  BY <1>6 DEF LvKilled, LvSame
<1> QED
  BY <1>1, <1>5, <1>7 DEF LvHands, LvKept

LEMMA LoveMidDeath ==
    ASSUME NEW g, NEW h, NEW p \in LvP, LvKilled(g, h, p), LvMid(g), p \in g.alive
    PROVE  LvMid(h)
<1>1. LvHands(g) /\ LvKept(g, Love!None)
  BY DEF LvMid
<1>2. LvHands(h) /\ LvKept(h, Love!None)
  BY <1>1, LoveDead
<1>3. h.aside = g.aside /\ h.deck = g.deck
  BY DEF LvKilled, LvSame
<1> QED
  BY <1>2, <1>3 DEF LvMid

LEMMA LoveTurnDeath ==
    ASSUME NEW g, NEW h, NEW p \in LvP, LvKilled(g, h, p), LvTurn(g), p \in g.alive,
           p # g.current
    PROVE  LvTurn(h)
<1>1. LvHands(g) /\ LvKept(g, g.pending)
  BY DEF LvTurn
<1>2. LvHands(h) /\ LvKept(h, g.pending)
  BY <1>1, LoveDead
<1>3. /\ h.aside = g.aside /\ h.pending = g.pending /\ h.current = g.current
      /\ h.alive = g.alive \ {p}
  BY DEF LvKilled, LvSame
<1> QED
  BY <1>2, <1>3 DEF LvTurn

\* What a discard, and a discard after a death, leave.
LEMMA LoveStartedAfter ==
    ASSUME NEW g, NEW h, NEW x, LvStarted(g, h, x)
    PROVE  LvAfter(g, h)
<1>1. LvSame(g, h)
  BY DEF LvStarted
<1> QED
  BY <1>1, LoveDiscarded DEF LvAfter, LvSame

\* discard_guard
LEMMA LoveGuess ==
    ASSUME NEW g \in Love!Table, NEW t \in g.alive \ {g.current}, NEW guess,
           Love!Guard \in {g.card[g.current], g.pending},
           NEW h, h = Love!Guess(g, t, guess)
    PROVE  LvAfter(g, h)
<1>1. t \in LvP /\ Love!Guard \in LvC /\ g.current \in LvP
  BY DEF Love!Table, LvP, LvC, Love!Guard, Love!Characters
<1>2. CASE g.card[t] = guess
  <2>1. PICK k : k = Love!Killed(g, t)
    OBVIOUS
  <2>2. LvKilled(g, k, t)
    BY <1>1, <2>1, LoveKilled
  <2>3. /\ k \in Love!Table /\ k.current = g.current /\ k.pending = g.pending
        /\ k.copies = g.copies /\ k.ending = g.ending /\ k.over = g.over
    BY <2>2 DEF LvKilled, LvSame
  <2>4. k.card[g.current] = g.card[g.current]
    <3>1. k.card = [g.card EXCEPT ![t] = Love!None]
      BY <2>2 DEF LvKilled
    <3>2. g.card \in [LvP -> LvC \cup {Love!None}]
      BY DEF Love!Table, LvP, LvC
    <3> QED
      BY <1>1, <3>1, <3>2
  <2>5. h = Love!Started(k, Love!Guard)
    BY <1>2, <2>1 DEF Love!Guess
  <2>6. LvStarted(k, h, Love!Guard)
    <3>1. Love!Guard \in {k.card[k.current], k.pending}
      BY <2>3, <2>4
    <3> QED
      BY <1>1, <2>3, <2>5, <3>1, LoveStarted
  <2>7. LvAfter(k, h)
    BY <2>6, LoveStartedAfter
  <2>8. LvTurn(g) => LvTurn(k)
    BY <1>1, <2>2, LoveTurnDeath
  <2> QED
    BY <2>3, <2>7, <2>8 DEF LvAfter
<1>3. CASE g.card[t] # guess
  <2>1. h = Love!Started(g, Love!Guard)
    BY <1>3 DEF Love!Guess
  <2>2. LvStarted(g, h, Love!Guard)
    BY <1>1, <2>1, LoveStarted
  <2> QED
    BY <2>2, LoveStartedAfter
<1> QED
  BY <1>2, <1>3

\* discard_baron
LEMMA LoveCompare ==
    ASSUME NEW g \in Love!Table, NEW t \in g.alive \ {g.current},
           Love!Baron \in {g.card[g.current], g.pending},
           NEW h, h = Love!Compare(g, t)
    PROVE  LvAfter(g, h)
<1>1. t \in LvP /\ Love!Baron \in LvC /\ g.current \in LvP
  BY DEF Love!Table, LvP, LvC, Love!Baron, Love!Characters
<1>2. PICK k : k = Love!Started(g, Love!Baron)
  OBVIOUS
<1>3. LvStarted(g, k, Love!Baron)
  BY <1>1, <1>2, LoveStarted
<1>4. LvAfter(g, k) /\ k.alive = g.alive /\ k \in Love!Table
  <2>1. LvAfter(g, k)
    BY <1>3, LoveStartedAfter
  <2>2. k.alive = g.alive /\ k \in Love!Table
    BY <1>3 DEF LvStarted, LvSame
  <2> QED
    BY <2>1, <2>2
<1>5. \/ h = k
      \/ \E p \in {t, g.current} : h = Love!Killed(k, p)
  BY <1>2 DEF Love!Compare
<1>6. ASSUME NEW p \in {t, g.current}, h = Love!Killed(k, p)
      PROVE  LvAfter(g, h)
  <2>1. p \in LvP
    BY <1>1
  <2>2. LvKilled(k, h, p)
    BY <1>4, <1>6, <2>1, LoveKilled
  <2>3. /\ h \in Love!Table /\ h.copies = k.copies /\ h.current = k.current
        /\ h.ending = k.ending /\ h.over = k.over
    BY <2>2 DEF LvKilled, LvSame
  <2>4. ASSUME LvTurn(g) PROVE LvMid(h)
    <3>1. LvMid(k) /\ p \in k.alive
      BY <1>4, <2>4 DEF LvAfter, LvTurn
    <3> QED
      BY <2>1, <2>2, <3>1, LoveMidDeath
  <2> QED
    BY <1>4, <2>3, <2>4 DEF LvAfter
<1> QED
  BY <1>4, <1>5, <1>6

\* discard_king
LEMMA LoveExchange ==
    ASSUME NEW g \in Love!Table, NEW t \in g.alive \ {g.current},
           Love!King \in {g.card[g.current], g.pending},
           NEW h, h = Love!Exchange(g, t)
    PROVE  LvAfter(g, h)
<1>1. t \in LvP /\ Love!King \in LvC /\ g.current \in LvP
  BY DEF Love!Table, LvP, LvC, Love!King, Love!Characters
<1>2. PICK k : k = Love!Started(g, Love!King)
  OBVIOUS
<1>3. LvStarted(g, k, Love!King)
  BY <1>1, <1>2, LoveStarted
<1>4. LvAfter(g, k) /\ k \in Love!Table
  BY <1>3, LoveStartedAfter DEF LvStarted, LvSame
<1>5. PICK a : a = g.current
  OBVIOUS
<1>6. PICK v \in [LvP -> LvC \cup {Love!None}] : v = k.card
  BY <1>4 DEF Love!Table, LvP, LvC
<1>7. PICK w : w = [v EXCEPT ![a] = v[t], ![t] = v[a]]
  OBVIOUS
<1>8. a \in LvP /\ t \in LvP /\ a # t
  BY <1>1, <1>5
<1>9. /\ w \in [LvP -> LvC \cup {Love!None}]
      /\ w[a] = v[t] /\ w[t] = v[a] /\ \A i \in LvP : i # a /\ i # t => w[i] = v[i]
  BY <1>6, <1>7, <1>8
<1>10. h = [k EXCEPT !.card = w]
  BY <1>2, <1>5, <1>6, <1>7 DEF Love!Exchange
<1>11. h \in Love!Table
  BY <1>4, <1>9, <1>10 DEF Love!Table, LvP, LvC
<1>12. /\ h.copies = k.copies /\ h.current = k.current /\ h.ending = k.ending
       /\ h.over = k.over /\ h.deck = k.deck /\ h.aside = k.aside
       /\ h.visible = k.visible /\ h.pile = k.pile /\ h.alive = k.alive /\ h.card = w
  BY <1>4, <1>10 DEF Love!Table
<1>13. ASSUME LvTurn(g) PROVE LvMid(h)
  <2>1. LvMid(k)
    BY <1>4, <1>13 DEF LvAfter
  <2>2. a \in k.alive /\ t \in k.alive
    BY <1>3, <1>5, <1>13 DEF LvTurn, LvStarted
  <2>3. k.alive = {p \in LvP : v[p] # Love!None}
    BY <1>6, <2>1 DEF LvMid, LvHands
  <2>4. h.alive = {p \in LvP : w[p] # Love!None}
    <3>1. \A p \in LvP : w[p] # Love!None <=> v[p] # Love!None
      BY <1>9, <2>2, <2>3
    <3> QED
      BY <1>12, <2>3, <3>1
  <2>5. ASSUME NEW c \in LvC
        PROVE  Cardinality(Fibre(w, LvP, c)) = Cardinality(Fibre(v, LvP, c))
    <3>1. \A i \in LvP : i # a /\ i # t => w[i] = v[i]
      BY <1>9
    <3> QED
      BY <1>8, <1>9, <3>1, LoveSets, FibreSwap
  <2>6. \A c \in LvC : LvIn(h, c) = LvIn(k, c)
    BY <1>6, <1>12, <2>5 DEF LvIn
  <2>7. LvKept(h, Love!None)
    BY <1>12, <2>1, <2>6 DEF LvMid, LvKept
  <2> QED
    BY <1>11, <1>12, <2>1, <2>4, <2>7 DEF LvMid, LvHands
<1> QED
  BY <1>4, <1>11, <1>12, <1>13 DEF LvAfter

\* A card is taken off the table.
LvTakes(g, k, y) ==
    /\ y \in LvC /\ k \in Love!Table
    /\ k.copies = g.copies /\ k.visible = g.visible
    /\ k.pending = g.pending /\ k.current = g.current /\ k.ending = g.ending
    /\ k.over = g.over /\ k.card = g.card /\ k.pile = g.pile
    /\ k.alive = g.alive /\ k.protected = g.protected
    /\ \A c \in LvC : LvIn(g, c) = LvIn(k, c) + One(y, c)

LEMMA LoveTaken ==
    ASSUME NEW g \in Love!Table, NEW y \in Love!Left(g),
           NEW k, k = Love!Taken(g, y)
    PROVE  LvTakes(g, k, y) /\ k.aside = g.aside
<1>1. y \in LvC /\ g.deck[y] > 0
  BY DEF Love!Left, LvC
<1>2. PICK d \in [LvC -> Nat] : d = g.deck
  BY DEF Love!Table, Love!Bags, LvC
<1>3. PICK e : e = [d EXCEPT ![y] = d[y] - 1]
  OBVIOUS
<1>4. e \in [LvC -> Nat] /\ \A c \in LvC : d[c] = e[c] + One(y, c)
  BY <1>1, <1>2, <1>3 DEF One
<1>5. k = [g EXCEPT !.deck = e]
  BY <1>2, <1>3 DEF Love!Taken
<1>6. k \in Love!Table
  BY <1>4, <1>5 DEF Love!Table, Love!Bags, LvC
<1>7. /\ k.copies = g.copies /\ k.visible = g.visible /\ k.aside = g.aside
      /\ k.pending = g.pending /\ k.current = g.current /\ k.ending = g.ending
      /\ k.over = g.over /\ k.card = g.card /\ k.pile = g.pile
      /\ k.alive = g.alive /\ k.protected = g.protected /\ k.deck = e
  BY <1>5 DEF Love!Table
<1>8. ASSUME NEW c \in LvC PROVE LvIn(g, c) = LvIn(k, c) + One(y, c)
  <2>1. LvNumbers(g)
    BY LoveCounts
  <2>2. /\ g.visible[c] \in Int
        /\ Cardinality(Fibre(g.card, LvP, c)) \in Int
        /\ Sum(Column(g.pile, LvP, c), LvP) \in Int
    BY <2>1 DEF LvNumbers
  <2>3. One(g.aside, c) \in Int /\ One(y, c) \in Int
    BY DEF One
  <2>4. g.deck[c] = k.deck[c] + One(y, c) /\ k.deck[c] \in Int
    BY <1>2, <1>4, <1>7
  <2> QED
    BY <1>7, <2>2, <2>3, <2>4 DEF LvIn
<1> QED
  BY <1>1, <1>6, <1>7, <1>8 DEF LvTakes

\* The card that was set aside is taken.
LEMMA LoveAsideTaken ==
    ASSUME NEW g \in Love!Table, g.aside # Love!None,
           NEW k, k = [g EXCEPT !.aside = Love!None]
    PROVE  LvTakes(g, k, g.aside) /\ k.deck = g.deck /\ k.aside = Love!None
<1>1. g.aside \in LvC
  BY DEF Love!Table, LvC
<1>2. k \in Love!Table
  BY DEF Love!Table
<1>3. /\ k.copies = g.copies /\ k.visible = g.visible /\ k.deck = g.deck
      /\ k.pending = g.pending /\ k.current = g.current /\ k.ending = g.ending
      /\ k.over = g.over /\ k.card = g.card /\ k.pile = g.pile
      /\ k.alive = g.alive /\ k.protected = g.protected /\ k.aside = Love!None
  BY DEF Love!Table
<1>4. ASSUME NEW c \in LvC PROVE LvIn(g, c) = LvIn(k, c) + One(g.aside, c)
  <2>1. LvNumbers(g)
    BY LoveCounts
  <2>2. /\ g.visible[c] \in Int /\ g.deck[c] \in Int
        /\ Cardinality(Fibre(g.card, LvP, c)) \in Int
        /\ Sum(Column(g.pile, LvP, c), LvP) \in Int
    BY <2>1 DEF LvNumbers
  <2>3. One(g.aside, c) \in Int /\ One(Love!None, c) = 0
    BY LoveNumbers DEF One
  <2> QED
    BY <1>3, <2>2, <2>3 DEF LvIn
<1> QED
  BY <1>1, <1>2, <1>3, <1>4 DEF LvTakes

\* The card of a player is piled and replaced by the card y.
LvReplaced(g, h, p, y) ==
    /\ h \in Love!Table
    /\ h.copies = g.copies /\ h.current = g.current
    /\ h.ending = g.ending /\ h.over = g.over /\ h.alive = g.alive
    /\ h.card = [g.card EXCEPT ![p] = y]
    /\ g.card[p] \in LvC => \A c \in LvC : LvIn(h, c) = LvIn(g, c)

LEMMA LoveReplaced ==
    ASSUME NEW g \in Love!Table, NEW k, NEW y, LvTakes(g, k, y), NEW p \in LvP,
           NEW r, r = [k EXCEPT !.card[p] = y],
           NEW h, h = Love!Piled(r, p, g.card[p])
    PROVE  LvReplaced(g, h, p, y) /\ h.deck = k.deck /\ h.aside = k.aside
<1>1. k \in Love!Table /\ y \in LvC /\ k.card = g.card
  BY DEF LvTakes
<1>2. r = [k EXCEPT !.card = [k.card EXCEPT ![p] = y]]
  OBVIOUS
<1>3. LvHandIs(k, r, p, y)
  BY <1>1, <1>2, LoveHandIs
<1>4. r \in Love!Table
  BY <1>3 DEF LvHandIs, LvSame
<1>5. PICK x : x = g.card[p]
  OBVIOUS
<1>6. LvPiled(r, h, x)
  BY <1>4, <1>5, LovePiled
<1>7. /\ h \in Love!Table
      /\ h.copies = k.copies /\ h.current = k.current
      /\ h.ending = k.ending /\ h.over = k.over /\ h.alive = k.alive
      /\ h.card = [k.card EXCEPT ![p] = y] /\ h.deck = k.deck /\ h.aside = k.aside
  BY <1>3, <1>6 DEF LvHandIs, LvPiled, LvSame
<1>8. ASSUME x \in LvC, NEW c \in LvC
      PROVE  LvIn(h, c) = LvIn(g, c)
  <2>1. LvIn(g, c) = LvIn(k, c) + One(y, c)
    BY DEF LvTakes
  <2>2. LvIn(r, c) = LvIn(k, c) + One(y, c) - One(x, c)
    BY <1>1, <1>3, <1>5 DEF LvHandIs
  <2>3. LvIn(h, c) = LvIn(r, c) + One(x, c)
    BY <1>6, <1>8 DEF LvPiled
  <2>4. LvNumbers(k)
    BY <1>1, LoveCounts
  <2>5. LvIn(k, c) \in Nat
    BY <2>4 DEF LvNumbers
  <2>6. One(y, c) \in Int /\ One(x, c) \in Int
    BY DEF One
  <2> QED
    BY <2>1, <2>2, <2>3, <2>5, <2>6
<1> QED
  BY <1>5, <1>7, <1>8 DEF LvReplaced, LvTakes

LEMMA LoveMidReplaced ==
    ASSUME NEW g, NEW h, NEW p \in LvP, NEW y \in LvC, LvReplaced(g, h, p, y),
           LvMid(g), p \in g.alive, h.aside = Love!None => Love!Size(h.deck) = 0
    PROVE  LvMid(h)
<1>1. PICK v \in [LvP -> LvC \cup {Love!None}] : v = g.card
  BY DEF LvMid, LvHands, Love!Table, LvP, LvC
<1>2. g.alive = {q \in LvP : v[q] # Love!None}
  BY <1>1 DEF LvMid, LvHands
<1>3. v[p] \in LvC
  BY <1>1, <1>2
<1>4. h.card = [v EXCEPT ![p] = y] /\ h.alive = g.alive
  BY <1>1 DEF LvReplaced
<1>5. h.alive = {q \in LvP : h.card[q] # Love!None}
  BY <1>1, <1>2, <1>3, <1>4, LoveNumbers
<1>6. \A c \in LvC : LvIn(h, c) = LvIn(g, c) /\ h.copies = g.copies
  BY <1>1, <1>3 DEF LvReplaced
<1>7. LvKept(h, Love!None)
  BY <1>6 DEF LvMid, LvKept
<1> QED
  BY <1>5, <1>7 DEF LvMid, LvHands, LvReplaced

LEMMA LoveSize ==
    ASSUME NEW g \in Love!Table
    PROVE  Love!Size(g.deck) \in Nat
<1>1. PICK f : f = [c \in LvC |-> g.deck[c]]
  OBVIOUS
<1>2. \A c \in LvC : f[c] \in Nat
  BY <1>1 DEF Love!Table, Love!Bags, LvC
<1>3. Sum(f, LvC) \in Nat
  BY <1>2, LoveSets, SumNat
<1> QED
  BY <1>1, <1>3, LoveSums

\* discard_prince
LEMMA LoveReplace ==
    ASSUME NEW g \in Love!Table, NEW t \in g.alive \cup {g.current},
           Love!Prince \in {g.card[g.current], g.pending},
           NEW h \in Love!Replace(g, t)
    PROVE  LvAfter(g, h)
<1>1. t \in LvP /\ Love!Prince \in LvC /\ g.current \in LvP
  BY DEF Love!Table, LvP, LvC, Love!Prince, Love!Characters
<1>2. PICK k : k = Love!Started(g, Love!Prince)
  OBVIOUS
<1>3. LvStarted(g, k, Love!Prince)
  BY <1>1, <1>2, LoveStarted
<1>4. LvAfter(g, k) /\ k.alive = g.alive /\ k \in Love!Table
  <2>1. LvAfter(g, k)
    BY <1>3, LoveStartedAfter
  <2>2. k.alive = g.alive /\ k \in Love!Table
    BY <1>3 DEF LvStarted, LvSame
  <2> QED
    BY <2>1, <2>2
<1>5. PICK old : old = k.card[t]
  OBVIOUS
<1>6. PICK r \in IF Love!Size(k.deck) > 0
                 THEN {[Love!Taken(k, c) EXCEPT !.card[t] = c] : c \in Love!Left(k)}
                 ELSE {[k EXCEPT !.card[t] = k.aside, !.aside = Love!None] :
                              c \in {k.aside} \ {Love!None}} :
            h = IF old = Love!Princess THEN Love!Killed(Love!Piled(r, t, old), t)
                ELSE Love!Piled(r, t, old)
  BY <1>2, <1>5 DEF Love!Replace
<1>7. PICK l : l = Love!Piled(r, t, old)
  OBVIOUS
<1>8. \E y \in LvC : LvReplaced(k, l, t, y)
                     /\ (LvMid(k) => (l.aside = Love!None => Love!Size(l.deck) = 0))
  <2>1. CASE Love!Size(k.deck) > 0
    <3>1. PICK y \in Love!Left(k) : r = [Love!Taken(k, y) EXCEPT !.card[t] = y]
      BY <1>6, <2>1
    <3>2. PICK j : j = Love!Taken(k, y)
      OBVIOUS
    <3>3. LvTakes(k, j, y) /\ j.aside = k.aside
      BY <1>4, <3>2, LoveTaken
    <3>4. r = [j EXCEPT !.card[t] = y]
      BY <3>1, <3>2
    <3>5. l = Love!Piled(r, t, k.card[t])
      BY <1>5, <1>7
    <3>6. LvReplaced(k, l, t, y) /\ l.aside = j.aside
      BY <1>1, <1>4, <3>3, <3>4, <3>5, LoveReplaced
    <3>7. y \in LvC
      BY <3>3 DEF LvTakes
    <3>8. ASSUME LvMid(k) PROVE l.aside # Love!None
      <4>1. k.aside = Love!None => Love!Size(k.deck) = 0
        BY <3>8 DEF LvMid
      <4>2. Love!Size(k.deck) # 0
        BY <2>1
      <4> QED
        BY <3>3, <3>6, <4>1, <4>2
    <3> QED
      BY <3>6, <3>7, <3>8
  <2>2. CASE ~(Love!Size(k.deck) > 0)
    <3>1. r = [k EXCEPT !.card[t] = k.aside, !.aside = Love!None] /\ k.aside # Love!None
      BY <1>6, <2>2
    <3>2. PICK j : j = [k EXCEPT !.aside = Love!None]
      OBVIOUS
    <3>3. PICK y : y = k.aside
      OBVIOUS
    <3>4. LvTakes(k, j, y) /\ j.deck = k.deck /\ j.aside = Love!None
      BY <1>4, <3>1, <3>2, <3>3, LoveAsideTaken
    <3>5. r = [j EXCEPT !.card[t] = y]
      BY <1>4, <3>1, <3>2, <3>3 DEF Love!Table
    <3>6. l = Love!Piled(r, t, k.card[t])
      BY <1>5, <1>7
    <3>7. LvReplaced(k, l, t, y) /\ l.deck = j.deck
      BY <1>1, <1>4, <3>4, <3>5, <3>6, LoveReplaced
    <3>8. y \in LvC
      BY <3>4 DEF LvTakes
    <3>9. Love!Size(l.deck) = 0
      <4>1. Love!Size(k.deck) \in Nat
        BY <1>4, LoveSize
      <4>2. Love!Size(k.deck) = 0
        BY <2>2, <4>1
      <4> QED
        BY <3>4, <3>7, <4>2
    <3> QED
      BY <3>7, <3>8, <3>9
  <2> QED
    BY <2>1, <2>2
<1>9. PICK y \in LvC : LvReplaced(k, l, t, y)
                     /\ (LvMid(k) => (l.aside = Love!None => Love!Size(l.deck) = 0))
  BY <1>8
<1>10. LvTurn(g) => LvMid(l) /\ t \in l.alive
  <2>1. SUFFICES ASSUME LvTurn(g) PROVE LvMid(l) /\ t \in l.alive
    OBVIOUS
  <2>2. LvMid(k)
    BY <1>4, <2>1 DEF LvAfter
  <2>3. t \in k.alive /\ l.alive = k.alive
    BY <1>4, <1>9, <2>1 DEF LvTurn, LvReplaced
  <2>4. l.aside = Love!None => Love!Size(l.deck) = 0
    BY <1>9, <2>2
  <2>5. LvMid(l)
    BY <1>1, <1>9, <2>2, <2>3, <2>4, LoveMidReplaced
  <2> QED
    BY <2>3, <2>5
<1>11. /\ l \in Love!Table /\ l.copies = g.copies /\ l.current = g.current
       /\ l.ending = g.ending /\ l.over = g.over
  BY <1>4, <1>9 DEF LvAfter, LvReplaced
<1>12. CASE h = l
  BY <1>10, <1>11, <1>12 DEF LvAfter
<1>13. CASE h = Love!Killed(l, t)
  <2>1. LvKilled(l, h, t)
    BY <1>1, <1>11, <1>13, LoveKilled
  <2>2. LvTurn(g) => LvMid(h)
    BY <1>1, <1>10, <2>1, LoveMidDeath
  <2> QED
    BY <1>11, <2>1, <2>2 DEF LvAfter, LvKilled, LvSame
<1> QED
  BY <1>6, <1>7, <1>12, <1>13

\* The card that is discarded is one of the two, and its target is alive.
LEMMA LoveEffects ==
    ASSUME NEW g \in Love!Table, NEW x \in LvC, x \in {g.card[g.current], g.pending},
           NEW t, x \in {Love!Guard, Love!Baron, Love!King} => t \in g.alive \ {g.current},
           x = Love!Prince => t \in g.alive \cup {g.current},
           NEW guess, NEW h \in Love!Effects(g, x, t, guess)
    PROVE  LvAfter(g, h)
<1>1. g.current \in LvP
  BY DEF Love!Table, LvP
<1>2. CASE x = Love!Guard
  <2>1. h = Love!Guess(g, t, guess)
    BY <1>2
       DEF Love!Effects, Love!Guard, Love!Baron, Love!Prince, Love!King, Love!Handmaid,
           Love!Princess
  <2> QED
    BY <1>2, <2>1, LoveGuess
<1>3. CASE x = Love!Baron
  <2>1. h = Love!Compare(g, t)
    BY <1>3
       DEF Love!Effects, Love!Guard, Love!Baron, Love!Prince, Love!King, Love!Handmaid,
           Love!Princess
  <2> QED
    BY <1>3, <2>1, LoveCompare
<1>4. CASE x = Love!Prince
  <2>1. h \in Love!Replace(g, t)
    BY <1>4
       DEF Love!Effects, Love!Guard, Love!Baron, Love!Prince, Love!King, Love!Handmaid,
           Love!Princess
  <2> QED
    BY <1>4, <2>1, LoveReplace
<1>5. CASE x = Love!King
  <2>1. h = Love!Exchange(g, t)
    BY <1>5
       DEF Love!Effects, Love!Guard, Love!Baron, Love!Prince, Love!King, Love!Handmaid,
           Love!Princess
  <2> QED
    BY <1>5, <2>1, LoveExchange
<1>6. CASE x = Love!Handmaid
  <2>1. PICK k : k = [g EXCEPT !.protected = @ \cup {g.current}]
    OBVIOUS
  <2>2. h = Love!Started(k, x)
    BY <1>6, <2>1
       DEF Love!Effects, Love!Guard, Love!Baron, Love!Prince, Love!King, Love!Handmaid,
           Love!Princess
  <2>3. k \in Love!Table
    BY <1>1, <2>1 DEF Love!Table, LvP
  <2>4. /\ k.copies = g.copies /\ k.visible = g.visible /\ k.deck = g.deck
        /\ k.pending = g.pending /\ k.current = g.current /\ k.ending = g.ending
        /\ k.over = g.over /\ k.card = g.card /\ k.pile = g.pile
        /\ k.alive = g.alive /\ k.aside = g.aside
    BY <2>1 DEF Love!Table
  <2>5. x \in {k.card[k.current], k.pending}
    BY <2>4
  <2>6. LvStarted(k, h, x)
    BY <2>2, <2>3, <2>5, LoveStarted
  <2>7. LvAfter(k, h)
    BY <2>6, LoveStartedAfter
  <2>8. LvTurn(g) => LvTurn(k)
    BY <2>3, <2>4 DEF LvTurn, LvHands, LvKept, LvIn
  <2> QED
    BY <2>4, <2>7, <2>8 DEF LvAfter
<1>7. CASE x = Love!Princess
  <2>1. PICK k : k = Love!Started(g, x)
    OBVIOUS
  <2>2. h = Love!Killed(k, g.current)
    BY <1>7, <2>1
       DEF Love!Effects, Love!Guard, Love!Baron, Love!Prince, Love!King, Love!Handmaid,
           Love!Princess
  <2>3. LvStarted(g, k, x)
    BY <2>1, LoveStarted
  <2>4. LvAfter(g, k) /\ k.alive = g.alive /\ k \in Love!Table
    BY <2>3, LoveStartedAfter DEF LvStarted, LvSame
  <2>5. LvKilled(k, h, g.current)
    BY <1>1, <2>2, <2>4, LoveKilled
  <2>6. LvTurn(g) => LvMid(h)
    <3>1. SUFFICES ASSUME LvTurn(g) PROVE LvMid(h)
      OBVIOUS
    <3>2. LvMid(k) /\ g.current \in k.alive
      BY <2>4, <3>1 DEF LvAfter, LvTurn
    <3> QED
      BY <1>1, <2>5, <3>2, LoveMidDeath
  <2> QED
    BY <2>4, <2>5, <2>6 DEF LvAfter, LvKilled, LvSame
<1>8. CASE x \in {Love!Spy, Love!Comtesse}
  <2>1. h = Love!Started(g, x)
    BY <1>8
       DEF Love!Effects, Love!Guard, Love!Baron, Love!Prince, Love!King, Love!Handmaid,
           Love!Princess, Love!Spy, Love!Comtesse
  <2>2. LvStarted(g, h, x)
    BY <2>1, LoveStarted
  <2> QED
    BY <2>2, LoveStartedAfter
<1>9. x \in {Love!Guard, Love!Spy, Love!Baron, Love!Handmaid, Love!Prince, Love!King,
             Love!Comtesse, Love!Princess}
  BY DEF LvC, Love!Characters, Love!Guard, Love!Baron, Love!Prince, Love!King,
     Love!Handmaid, Love!Princess, Love!Spy, Love!Comtesse
<1> QED
  BY <1>2, <1>3, <1>4, <1>5, <1>6, <1>7, <1>8, <1>9

--------------------------------------------------------------------------
(* Love: rounds *)

\* What there is when a player has to discard.
LvDrawn(g) ==
    /\ LvTurn(g)
    /\ g.current \notin g.protected

\* A player draws.
LEMMA LoveDrawn ==
    ASSUME NEW g \in Love!Table, NEW h \in Love!Drawn(g)
    PROVE  /\ h \in Love!Table /\ h.copies = g.copies
           /\ h.ending = g.ending /\ h.over = g.over /\ h.alive = g.alive
           /\ h.current = g.current /\ h.protected = g.protected \ {g.current}
           /\ LvHands(g) /\ LvKept(g, Love!None) /\ g.aside # Love!None
                 /\ g.current \in g.alive => LvDrawn(h)
<1>1. PICK y \in Love!Left(g) :
         h = [Love!Taken(g, y) EXCEPT !.pending = y, !.protected = @ \ {g.current}]
  BY DEF Love!Drawn
<1>2. PICK k : k = Love!Taken(g, y)
  OBVIOUS
<1>3. LvTakes(g, k, y) /\ k.aside = g.aside
  BY <1>2, LoveTaken
<1>4. k \in Love!Table /\ y \in LvC
  BY <1>3 DEF LvTakes
<1>5. h = [k EXCEPT !.pending = y, !.protected = @ \ {g.current}]
  BY <1>1, <1>2
<1>6. h \in Love!Table
  BY <1>4, <1>5 DEF Love!Table, LvC
<1>7. /\ h.copies = k.copies /\ h.visible = k.visible /\ h.aside = k.aside
      /\ h.deck = k.deck /\ h.pending = y /\ h.current = k.current
      /\ h.ending = k.ending /\ h.over = k.over /\ h.card = k.card
      /\ h.pile = k.pile /\ h.alive = k.alive
      /\ h.protected = k.protected \ {g.current}
  BY <1>4, <1>5 DEF Love!Table
<1>8. /\ k.copies = g.copies /\ k.ending = g.ending /\ k.over = g.over
      /\ k.alive = g.alive /\ k.card = g.card /\ k.current = g.current
      /\ k.protected = g.protected
  BY <1>3 DEF LvTakes
<1>9. ASSUME LvHands(g), LvKept(g, Love!None), g.aside # Love!None, g.current \in g.alive
      PROVE  LvDrawn(h)
  <2>1. LvHands(h)
    BY <1>6, <1>7, <1>8, <1>9 DEF LvHands
  <2>2. LvKept(h, h.pending)
    <3>1. SUFFICES ASSUME NEW c \in LvC PROVE h.copies[c] = LvIn(h, c) + One(y, c)
      BY <1>7 DEF LvKept
    <3>2. LvIn(g, c) = LvIn(k, c) + One(y, c)
      BY <1>3 DEF LvTakes
    <3>3. LvIn(h, c) = LvIn(k, c)
      BY <1>7 DEF LvIn
    <3>4. g.copies[c] = LvIn(g, c) + One(Love!None, c)
      BY <1>9 DEF LvKept
    <3>5. One(Love!None, c) = 0
      BY LoveNumbers DEF One
    <3>6. LvNumbers(g)
      BY LoveCounts
    <3>7. LvIn(g, c) \in Nat
      BY <3>6 DEF LvNumbers
    <3> QED
      BY <1>7, <1>8, <3>2, <3>3, <3>4, <3>5, <3>7
  <2> QED
    BY <1>3, <1>7, <1>8, <1>9, <2>1, <2>2 DEF LvDrawn, LvTurn
<1> QED
  BY <1>6, <1>7, <1>8, <1>9

\* The cards of a deal at some of its places.
LvCut(s, I, c) == {i \in I : s[i] = c}

LEMMA LoveCut ==
    ASSUME NEW n \in Nat, NEW m \in Nat, n < m, NEW s, NEW c
    PROVE  /\ \A I \in {0 .. m - 1, 0 .. n - 1, n + 1 .. m - 1} :
                    IsFiniteSet(LvCut(s, I, c)) /\ Cardinality(LvCut(s, I, c)) \in Nat
           /\ Cardinality(LvCut(s, 0 .. m - 1, c))
                 = Cardinality(LvCut(s, 0 .. n - 1, c)) + One(s[n], c)
                     + Cardinality(LvCut(s, n + 1 .. m - 1, c))
<1>1. IsFiniteSet(0 .. m - 1)
  <2>1. PICK k \in Int : k = m - 1
    OBVIOUS
  <2>2. IsFiniteSet(0 .. k)
    BY FS_Interval
  <2> QED
    BY <2>1, <2>2
<1>2. \A I \in SUBSET (0 .. m - 1) :
         IsFiniteSet(LvCut(s, I, c)) /\ Cardinality(LvCut(s, I, c)) \in Nat
  <2>1. SUFFICES ASSUME NEW I \in SUBSET (0 .. m - 1)
                 PROVE  IsFiniteSet(LvCut(s, I, c)) /\ Cardinality(LvCut(s, I, c)) \in Nat
    OBVIOUS
  <2>2. LvCut(s, I, c) \in SUBSET (0 .. m - 1)
    BY DEF LvCut
  <2>3. IsFiniteSet(LvCut(s, I, c))
    BY <1>1, <2>2, FS_Subset
  <2> QED
    BY <2>3, FS_CardinalityType
<1>3. PICK A : A = LvCut(s, 0 .. n - 1, c)
  OBVIOUS
<1>4. PICK B : B = LvCut(s, {n}, c)
  OBVIOUS
<1>5. PICK D : D = LvCut(s, n + 1 .. m - 1, c)
  OBVIOUS
<1>6. /\ 0 .. n - 1 \in SUBSET (0 .. m - 1) /\ {n} \in SUBSET (0 .. m - 1)
      /\ n + 1 .. m - 1 \in SUBSET (0 .. m - 1) /\ 0 .. m - 1 \in SUBSET (0 .. m - 1)
  OBVIOUS
<1>7. IsFiniteSet(A) /\ IsFiniteSet(B) /\ IsFiniteSet(D)
  BY <1>2, <1>3, <1>4, <1>5, <1>6
<1>8. A \cap B = {} /\ (A \cup B) \cap D = {}
  BY <1>3, <1>4, <1>5 DEF LvCut
<1>9. LvCut(s, 0 .. m - 1, c) = (A \cup B) \cup D
  BY <1>3, <1>4, <1>5 DEF LvCut
<1>10. IsFiniteSet(A \cup B) /\ Cardinality(A \cup B) = Cardinality(A) + Cardinality(B)
  BY <1>7, <1>8, Together
<1>11. Cardinality((A \cup B) \cup D) = Cardinality(A \cup B) + Cardinality(D)
  BY <1>7, <1>8, <1>10, Together
<1>12. Cardinality(B) = One(s[n], c)
  <2>1. CASE s[n] = c
    <3>1. B = {n}
      BY <1>4, <2>1 DEF LvCut
    <3>2. Cardinality({n}) = 1
      BY FS_Singleton
    <3> QED
      BY <2>1, <3>1, <3>2 DEF One
  <2>2. CASE s[n] # c
    <3>1. B = {}
      BY <1>4, <2>2 DEF LvCut
    <3>2. Cardinality({}) = 0
      BY FS_EmptySet
    <3> QED
      BY <2>2, <3>1, <3>2 DEF One
  <2> QED
    BY <2>1, <2>2
<1>13. \A I \in {0 .. m - 1, 0 .. n - 1, n + 1 .. m - 1} :
                    IsFiniteSet(LvCut(s, I, c)) /\ Cardinality(LvCut(s, I, c)) \in Nat
  BY <1>2, <1>6
<1>14. Cardinality(LvCut(s, 0 .. m - 1, c))
                 = Cardinality(A) + One(s[n], c) + Cardinality(D)
  BY <1>9, <1>10, <1>11, <1>12
<1> QED
  BY <1>3, <1>5, <1>13, <1>14

\* The table after a deal s.
LvTable(copies, s) ==
    [copies |-> copies,
     deck |-> [c \in LvC |-> copies[c] - Love!Count(s, DOMAIN s)[c]],
     visible |-> Love!Count(s, LvN + 1 .. Love!NDealt - 1),
     aside |-> s[LvN], pending |-> Love!Guard,
     card |-> [p \in LvP |-> s[p]],
     pile |-> [p \in LvP |-> Love!NoCards],
     hearts |-> [p \in LvP |-> 0], alive |-> LvP,
     protected |-> {}, current |-> 0,
     ending |-> FALSE, over |-> FALSE, late |-> 0]

LvFresh(copies, g) ==
    /\ g \in Love!Table /\ g.copies = copies /\ g.alive = LvP
    /\ LvHands(g) /\ LvKept(g, Love!None) /\ g.aside # Love!None
    /\ ~g.ending /\ ~g.over /\ g.current = 0
    /\ g.protected = {}

LEMMA LoveDealt ==
    ASSUME NEW copies \in LoveRules.Decks, NEW s \in Love!Deals(copies)
    PROVE  LvFresh(copies, LvTable(copies, s))
<1> PICK g : g = LvTable(copies, s)
  OBVIOUS
<1> SUFFICES LvFresh(copies, g)
  OBVIOUS
<1>1. PICK m : m = Love!NDealt
  OBVIOUS
<1>2. m \in Nat /\ LvN \in Nat /\ LvN < m /\ 0 \in LvP /\ LvP = 0 .. LvN - 1
  BY <1>1, LoveNumbers, SMTT(30) DEF Love!NDealt, LvN
<1>3. /\ s \in [0 .. m - 1 -> LvC] /\ copies \in [LvC -> Nat]
      /\ \A c \in LvC : Love!Cardinality({i \in DOMAIN s : s[i] = c}) <= copies[c]
  BY <1>1, LoveNumbers DEF Love!Deals, LvC, Love!Bags
<1>4. DOMAIN s = 0 .. m - 1
  BY <1>3
<1>5. \A I, c : c \in LvC => Love!Count(s, I)[c] = Cardinality(LvCut(s, I, c))
  BY LoveSets DEF Love!Count, LvC, LvCut
<1>6. \A c \in LvC : /\ \A I \in {0 .. m - 1, 0 .. LvN - 1, LvN + 1 .. m - 1} :
                            Cardinality(LvCut(s, I, c)) \in Nat
                     /\ Cardinality(LvCut(s, 0 .. m - 1, c))
                           = Cardinality(LvCut(s, 0 .. LvN - 1, c)) + One(s[LvN], c)
                               + Cardinality(LvCut(s, LvN + 1 .. m - 1, c))
  <2>1. PICK n : n = LvN
    OBVIOUS
  <2>2. n \in Nat /\ m \in Nat /\ n < m
    BY <1>2, <2>1
  <2>3. ASSUME NEW c \in LvC
        PROVE  /\ \A I \in {0 .. m - 1, 0 .. n - 1, n + 1 .. m - 1} :
                            Cardinality(LvCut(s, I, c)) \in Nat
               /\ Cardinality(LvCut(s, 0 .. m - 1, c))
                     = Cardinality(LvCut(s, 0 .. n - 1, c)) + One(s[n], c)
                         + Cardinality(LvCut(s, n + 1 .. m - 1, c))
    BY <2>2, LoveCut
  <2> QED
    BY <2>1, <2>3
<1>7. PICK deck : deck = [c \in LvC |-> copies[c] - Love!Count(s, DOMAIN s)[c]]
  OBVIOUS
<1>8. \A c \in LvC : /\ deck[c] = copies[c] - Cardinality(LvCut(s, 0 .. m - 1, c))
                     /\ Cardinality(LvCut(s, 0 .. m - 1, c)) <= copies[c]
  <2>1. \A c \in LvC : Cardinality(LvCut(s, DOMAIN s, c)) <= copies[c]
    BY <1>3, LoveSets DEF LvCut
  <2> QED
    BY <1>4, <1>5, <1>7, <2>1
<1>9. deck \in [LvC -> Nat]
  <2>1. \A c \in LvC : deck[c] \in Nat
    BY <1>3, <1>6, <1>8
  <2> QED
    BY <1>7, <2>1
<1>10. PICK visible : visible = Love!Count(s, LvN + 1 .. m - 1)
  OBVIOUS
<1>11. \A c \in LvC : visible[c] = Cardinality(LvCut(s, LvN + 1 .. m - 1, c))
  BY <1>5, <1>10
<1>12. visible \in [LvC -> Nat]
  <2>1. \A c \in LvC : visible[c] \in Nat
    BY <1>6, <1>11
  <2>2. visible = [c \in LvC |-> visible[c]]
    BY <1>10 DEF Love!Count, LvC
  <2> QED
    BY <2>1, <2>2
<1>13. PICK card : card = [p \in LvP |-> s[p]]
  OBVIOUS
<1>14. card \in [LvP -> LvC] /\ s[LvN] \in LvC
  BY <1>2, <1>3, <1>13
<1>15. PICK pile : pile = [p \in LvP |-> Love!NoCards]
  OBVIOUS
<1>16. pile \in [LvP -> [LvC -> Nat]] /\ \A p \in LvP, c \in LvC : pile[p][c] = 0
  BY <1>15 DEF Love!NoCards, LvC
<1>17. g = [copies |-> copies, deck |-> deck, visible |-> visible,
            aside |-> s[LvN], pending |-> Love!Guard, card |-> card, pile |-> pile,
            hearts |-> [p \in LvP |-> 0], alive |-> LvP,
            protected |-> {}, current |-> 0,
            ending |-> FALSE, over |-> FALSE, late |-> 0]
  BY <1>1, <1>7, <1>10, <1>13, <1>15 DEF LvTable
<1>18. Love!Guard \in LvC
  BY DEF LvC, Love!Characters, Love!Guard
<1>19. g \in Love!Table
  <2>1. 0 \in 0 .. LoveRules.LateMax
    BY LoveNumbers
  <2>2. [p \in LvP |-> 0] \in [LvP -> Nat]
    OBVIOUS
  <2>3. /\ copies \in Love!Bags /\ deck \in Love!Bags /\ visible \in Love!Bags
        /\ s[LvN] \in Love!Characters \cup {Love!None} /\ Love!Guard \in Love!Characters
        /\ card \in [LvP -> Love!Characters \cup {Love!None}]
        /\ pile \in [LvP -> Love!Bags]
    BY <1>3, <1>9, <1>12, <1>14, <1>16, <1>18 DEF Love!Bags, LvC
  <2> QED
    BY <1>2, <1>17, <2>1, <2>2, <2>3 DEF Love!Table, LvP
<1>20. g.alive = {p \in LvP : g.card[p] # Love!None} /\ g.aside # Love!None
  BY <1>14, <1>17, LoveNumbers
<1>21. LvKept(g, Love!None)
  <2>1. SUFFICES ASSUME NEW c \in LvC
                 PROVE  g.copies[c] = LvIn(g, c) + One(Love!None, c)
    BY DEF LvKept
  <2>2. Cardinality(Fibre(g.card, LvP, c)) = Cardinality(LvCut(s, 0 .. LvN - 1, c))
    <3>1. Fibre(card, LvP, c) = LvCut(s, 0 .. LvN - 1, c)
      BY <1>2, <1>13 DEF Fibre, LvCut
    <3> QED
      BY <1>17, <3>1
  <2>3. Sum(Column(g.pile, LvP, c), LvP) = 0
    <3>1. PICK f : f = Column(pile, LvP, c)
      OBVIOUS
    <3>2. \A p \in LvP : f[p] = 0
      BY <1>16, <3>1 DEF Column
    <3>3. Sum(f, LvP) = 0 * Cardinality(LvP)
      BY <3>2, LoveSets, SumConstant
    <3>4. Cardinality(LvP) \in Nat
      BY LoveSets, LoveNumbers
    <3> QED
      BY <1>17, <3>1, <3>3, <3>4
  <2>4. One(Love!None, c) = 0 /\ One(s[LvN], c) \in Int
    BY LoveNumbers DEF One
  <2>5. /\ g.deck[c] = copies[c] - Cardinality(LvCut(s, 0 .. m - 1, c))
        /\ g.visible[c] = Cardinality(LvCut(s, LvN + 1 .. m - 1, c))
        /\ g.aside = s[LvN] /\ g.copies[c] = copies[c] /\ copies[c] \in Nat
    BY <1>3, <1>8, <1>11, <1>17
  <2>6. PICK a, b, d \in Nat : /\ a = Cardinality(LvCut(s, 0 .. m - 1, c))
                               /\ b = Cardinality(LvCut(s, 0 .. LvN - 1, c))
                               /\ d = Cardinality(LvCut(s, LvN + 1 .. m - 1, c))
    BY <1>6
  <2>7. a = b + One(s[LvN], c) + d
    BY <1>6, <2>6
  <2>8. LvIn(g, c) = (copies[c] - a) + d + One(s[LvN], c) + b + 0
    BY <2>2, <2>3, <2>5, <2>6 DEF LvIn
  <2>9. PICK x \in Int : x = One(s[LvN], c)
    BY <2>4
  <2>10. PICK y \in Nat : y = copies[c]
    BY <2>5
  <2>11. LvIn(g, c) = (y - a) + d + x + b + 0 /\ a = b + x + d
    BY <2>7, <2>8, <2>9, <2>10
  <2>12. LvIn(g, c) = y
    BY <2>11
  <2>13. g.copies[c] = y
    BY <2>5, <2>10
  <2> QED
    BY <2>4, <2>12, <2>13
<1> QED
  BY <1>17, <1>19, <1>20, <1>21 DEF LvHands, LvFresh

\* The game between two steps.
LoveHolds(g) ==
    /\ g \in Love!Table /\ g.copies \in LoveRules.Decks
    /\ ~g.ending /\ ~g.over => LvDrawn(g) /\ Cardinality(g.alive) > 1

LEMMA LoveRound ==
    ASSUME NEW copies \in LoveRules.Decks, NEW hearts \in [LvP -> Nat], NEW p \in LvP,
           NEW h \in Love!Rounds(copies, hearts, p)
    PROVE  LoveHolds(h)
<1>1. PICK r \in Love!NewRounds[copies] : h = [r EXCEPT !.hearts = hearts, !.current = p]
  BY DEF Love!Rounds
<1>2. PICK s \in Love!Deals(copies) : r \in Love!Drawn(LvTable(copies, s))
  BY <1>1 DEF Love!NewRounds, LvTable, LvC, LvN, LvP
<1>3. PICK g : g = LvTable(copies, s)
  OBVIOUS
<1>4. /\ g \in Love!Table /\ g.copies = copies /\ g.alive = LvP
      /\ LvHands(g) /\ LvKept(g, Love!None) /\ g.aside # Love!None
      /\ ~g.ending /\ ~g.over /\ g.current = 0
      /\ g.protected = {}
  <2>1. LvFresh(copies, LvTable(copies, s))
    BY <1>2, LoveDealt
  <2> QED
    BY <1>3, <2>1 DEF LvFresh
<1>5. r \in Love!Drawn(g)
  BY <1>2, <1>3
<1>6. g.current \in g.alive
  BY <1>4, LoveNumbers
<1>7. /\ r \in Love!Table /\ r.copies = g.copies
      /\ r.ending = g.ending /\ r.over = g.over /\ r.alive = g.alive
      /\ r.current = g.current /\ r.protected = g.protected \ {g.current}
  BY <1>4, <1>5, LoveDrawn
<1>8. LvDrawn(r)
  BY <1>4, <1>5, <1>6, LoveDrawn
<1>9. h \in Love!Table
  BY <1>1, <1>7 DEF Love!Table, LvP
<1>10. /\ h.copies = r.copies /\ h.visible = r.visible /\ h.aside = r.aside
       /\ h.deck = r.deck /\ h.pending = r.pending /\ h.current = p
       /\ h.card = r.card /\ h.pile = r.pile /\ h.alive = r.alive
       /\ h.protected = r.protected
  BY <1>1, <1>7 DEF Love!Table
<1>11. LvTurn(h)
  <2>1. p \in h.alive
    BY <1>4, <1>7, <1>10
  <2>2. LvHands(h)
    BY <1>8, <1>9, <1>10 DEF LvDrawn, LvTurn, LvHands
  <2>3. LvKept(h, h.pending)
    <3>1. \A c \in LvC : LvIn(h, c) = LvIn(r, c)
      BY <1>10 DEF LvIn
    <3> QED
      BY <1>8, <1>10, <3>1 DEF LvDrawn, LvTurn, LvKept
  <2> QED
    BY <1>8, <1>10, <2>1, <2>2, <2>3 DEF LvDrawn, LvTurn
<1>12. LvDrawn(h)
  BY <1>4, <1>7, <1>10, <1>11 DEF LvDrawn
<1>13. Cardinality(h.alive) > 1
  BY <1>4, <1>7, <1>10, LoveSets, LoveNumbers
<1> QED
  BY <1>4, <1>7, <1>9, <1>10, <1>12, <1>13 DEF LoveHolds

LEMMA LoveScore ==
    ASSUME NEW g \in Love!Table, NEW p \in LvP
    PROVE  Love!Score(g, p) \in Int
<1>1. PICK f : f = [c \in LvC |-> c * g.pile[p][c]]
  OBVIOUS
<1>2. g.pile[p] \in [LvC -> Nat]
  BY DEF Love!Table, Love!Bags, LvP, LvC
<1>3. \A c \in LvC : f[c] \in Int
  <2>1. SUFFICES ASSUME NEW c \in LvC PROVE f[c] \in Int
    OBVIOUS
  <2>2. PICK n \in Nat : n = g.pile[p][c]
    BY <1>2
  <2>3. c \in Int /\ f[c] = c * n
    BY <1>1, <2>2, LoveNumbers
  <2> QED
    BY <2>3
<1>4. Sum(f, LvC) \in Int
  BY <1>3, LoveSets, SumType
<1>5. Love!MapThenSumSet(LAMBDA c : c * g.pile[p][c], Love!Characters) = Sum(f, LvC)
  BY <1>1, ZenonT(30) DEF LvC, Sum, Love!MapThenSumSet, MapThenSumSet, Love!MapThenFoldSet,
     MapThenFoldSet
<1>6. g.card[p] \in Int
  <2>1. g.card \in [LvP -> LvC \cup {Love!None}]
    BY DEF Love!Table, LvP, LvC
  <2>2. \A c \in LvC \cup {Love!None} : c \in Int
    BY LoveNumbers DEF Love!None
  <2> QED
    BY <2>1, <2>2
<1>7. Love!Score(g, p) = g.card[p] * 256 + Sum(f, LvC)
  BY <1>5 DEF Love!Score
<1> QED
  BY <1>4, <1>6, <1>7

\* get_winner
LEMMA LoveWinner ==
    ASSUME NEW g \in Love!Table
    PROVE  /\ Love!Winner(g) \in LvP \cup {Love!None}
           /\ Love!Winner(g) = Love!None
                 => Love!Size(g.deck) # 0 /\ Cardinality(g.alive) > 1
<1>1. g.alive \in SUBSET LvP
  BY DEF Love!Table, LvP
<1>2. IsFiniteSet(g.alive)
  BY <1>1, LoveSets, FS_Subset
<1>3. ASSUME g.alive # {} PROVE Love!Highest(g) \in LvP
  <2>1. PICK S : S = g.alive
    OBVIOUS
  <2>2. PICK f : f = [q \in S |-> Love!Score(g, q)]
    OBVIOUS
  <2>3. S \in SUBSET Nat /\ S # {} /\ IsFiniteSet(S)
    BY <1>1, <1>2, <1>3, <2>1, LoveNumbers
  <2>4. \A q \in S : f[q] \in Int
    BY <1>1, <2>1, <2>2, LoveScore
  <2>5. \E p \in S : \A q \in S : f[q] < f[p] \/ (f[q] = f[p] /\ p <= q)
    BY <2>3, <2>4, FirstOfTheBest
  <2>6. \E p \in g.alive : \A q \in g.alive :
            \/ Love!Score(g, q) < Love!Score(g, p)
            \/ Love!Score(g, q) = Love!Score(g, p) /\ p <= q
    BY <2>1, <2>2, <2>5
  <2>7. Love!Highest(g) \in g.alive
    BY <1>3, <2>6 DEF Love!Highest
  <2> QED
    BY <1>1, <2>7
<1>4. Love!Highest(g) \in LvP
  <2>1. CASE g.alive = {}
    BY <2>1, LoveNumbers DEF Love!Highest
  <2> QED
    BY <1>3, <2>1
<1>5. Love!Cardinality(g.alive) = Cardinality(g.alive)
  BY LoveSets
<1>6. CASE Love!Size(g.deck) = 0
  <2>1. Love!Winner(g) = Love!Highest(g)
    BY <1>6 DEF Love!Winner
  <2> QED
    BY <1>4, <2>1, LoveNumbers
<1>7. CASE Love!Size(g.deck) # 0 /\ Cardinality(g.alive) > 1
  <2>1. Love!Winner(g) = Love!None
    BY <1>5, <1>7 DEF Love!Winner
  <2> QED
    BY <1>7, <2>1
<1>8. CASE Love!Size(g.deck) # 0 /\ ~(Cardinality(g.alive) > 1)
  <2>1. Love!Winner(g) = IF g.alive = {} THEN 0 ELSE CHOOSE p \in g.alive : TRUE
    BY <1>5, <1>8 DEF Love!Winner
  <2>2. g.alive # {} => (CHOOSE p \in g.alive : TRUE) \in g.alive
    OBVIOUS
  <2>3. Love!Winner(g) \in LvP
    BY <1>1, <2>1, <2>2, LoveNumbers
  <2> QED
    BY <2>3, LoveNumbers
<1> QED
  BY <1>6, <1>7, <1>8

\* take_turn
LvReady(g) ==
    /\ g \in Love!Table /\ g.copies \in LoveRules.Decks
    /\ ~g.ending /\ ~g.over => LvMid(g) /\ (Cardinality(g.alive) > 1 => g.current \in g.alive)

LEMMA LoveTakesTurn ==
    ASSUME NEW g, LvReady(g), NEW h \in Love!TakeTurn(g)
    PROVE  LoveHolds(h)
<1>1. g \in Love!Table /\ g.copies \in LoveRules.Decks
  BY DEF LvReady
<1>2. PICK w : w = Love!Winner(g)
  OBVIOUS
<1>3. h \in IF w = Love!None THEN Love!Drawn(g)
           ELSE UNION {Love!RoundWon(k, w) : k \in {[g EXCEPT !.hearts[w] = @ + 1]}}
  BY <1>2 DEF Love!TakeTurn
<1>4. /\ w \in LvP \cup {Love!None}
      /\ w = Love!None => Love!Size(g.deck) # 0 /\ Cardinality(g.alive) > 1
  BY <1>1, <1>2, LoveWinner
<1>5. CASE w = Love!None
  <2>1. h \in Love!Drawn(g)
    BY <1>3, <1>5
  <2>2. /\ h \in Love!Table /\ h.copies = g.copies
        /\ h.ending = g.ending /\ h.over = g.over /\ h.alive = g.alive
    BY <1>1, <2>1, LoveDrawn
  <2>3. ASSUME ~h.ending, ~h.over PROVE LvDrawn(h) /\ Cardinality(h.alive) > 1
    <3>1. LvMid(g) /\ g.current \in g.alive
      BY <1>4, <1>5, <2>2, <2>3 DEF LvReady
    <3>2. LvHands(g) /\ LvKept(g, Love!None) /\ g.aside # Love!None
      BY <1>4, <1>5, <3>1 DEF LvMid
    <3>3. LvDrawn(h)
      BY <1>1, <2>1, <3>1, <3>2, LoveDrawn
    <3> QED
      BY <1>4, <1>5, <2>2, <3>3
  <2> QED
    BY <1>1, <2>2, <2>3 DEF LoveHolds
<1>6. CASE w # Love!None
  <2>1. PICK k : k = [g EXCEPT !.hearts[w] = @ + 1]
    OBVIOUS
  <2>2. h \in Love!RoundWon(k, w) /\ w \in LvP
    BY <1>3, <1>4, <1>6, <2>1
  <2>3. k \in Love!Table
    BY <1>1, <2>1, <2>2 DEF Love!Table, LvP
  <2>4. k.hearts \in [LvP -> Nat] /\ k.copies = g.copies
    BY <1>1, <2>1, <2>3 DEF Love!Table, LvP
  <2>5. \/ h = [k EXCEPT !.ending = TRUE]
        \/ h \in Love!Rounds(k.copies, k.hearts, w)
    BY <2>2 DEF Love!RoundWon
  <2>6. CASE h = [k EXCEPT !.ending = TRUE]
    <3>1. h \in Love!Table /\ h.ending = TRUE /\ h.copies = g.copies
      BY <2>3, <2>4, <2>6 DEF Love!Table
    <3> QED
      BY <1>1, <3>1 DEF LoveHolds
  <2>7. CASE h \in Love!Rounds(k.copies, k.hearts, w)
    BY <1>1, <2>2, <2>4, <2>7, LoveRound
  <2> QED
    BY <2>5, <2>6, <2>7
<1> QED
  BY <1>5, <1>6

\* finish_discard
LEMMA LoveNext ==
    ASSUME NEW g \in Love!Table, NEW p \in Love!NextPlayers(g)
    PROVE  p \in LvP /\ (g.alive # {} => p \in g.alive)
<1>1. p \in LvP
  BY DEF Love!NextPlayers, LvP
<1>2. PICK a \in 0 .. LvN - 1 : a = g.current
  BY LoveNumbers DEF Love!Table, LvP
<1>3. PICK n \in 1 .. LvN : /\ p = (a + n) % LvN
                            /\ n = LvN \/ p \in g.alive
                            /\ \A i \in 1 .. n - 1 : (a + i) % LvN \notin g.alive
  BY <1>2 DEF Love!NextPlayers, LvN
<1>4. ASSUME NEW q \in g.alive, p \notin g.alive PROVE FALSE
  <2>1. n = LvN
    BY <1>3, <1>4
  <2>2. q \in 0 .. LvN - 1 /\ LvN \in Nat \ {0}
    BY LoveNumbers DEF Love!Table, LvP
  <2>3. PICK k \in 1 .. LvN : q = (a + k) % LvN
    BY <2>2, EveryPlaceIsAhead
  <2>4. k # LvN
    BY <1>3, <1>4, <2>1, <2>3
  <2>5. k \in 1 .. n - 1
    BY <2>1, <2>2, <2>4
  <2> QED
    BY <1>3, <1>4, <2>3, <2>5
<1> QED
  BY <1>1, <1>4

LEMMA LoveFinished ==
    ASSUME NEW g, LoveHolds(g), NEW h, LvAfter(g, h), NEW e \in Love!Finished(h)
    PROVE  LoveHolds(e)
<1>1. /\ h \in Love!Table /\ h.copies = g.copies /\ h.copies \in LoveRules.Decks
      /\ h.ending = g.ending /\ h.over = g.over
  BY DEF LoveHolds, LvAfter
<1>2. PICK p \in Love!NextPlayers(h) : e \in Love!TakeTurn([h EXCEPT !.current = p])
  BY DEF Love!Finished
<1>3. PICK k : k = [h EXCEPT !.current = p]
  OBVIOUS
<1>4. p \in LvP /\ (h.alive # {} => p \in h.alive)
  BY <1>1, <1>2, LoveNext
<1>5. k \in Love!Table
  BY <1>1, <1>3, <1>4 DEF Love!Table, LvP
<1>6. /\ k.copies = h.copies /\ k.visible = h.visible /\ k.aside = h.aside
      /\ k.deck = h.deck /\ k.current = p
      /\ k.card = h.card /\ k.pile = h.pile /\ k.alive = h.alive
      /\ k.ending = h.ending /\ k.over = h.over
  BY <1>1, <1>3 DEF Love!Table
<1>7. ASSUME ~k.ending, ~k.over
      PROVE  LvMid(k) /\ (Cardinality(k.alive) > 1 => k.current \in k.alive)
  <2>1. LvTurn(g)
    BY <1>1, <1>6, <1>7 DEF LoveHolds, LvDrawn
  <2>2. LvMid(h)
    BY <2>1 DEF LvAfter
  <2>3. LvMid(k)
    <3>1. \A c \in LvC : LvIn(k, c) = LvIn(h, c)
      BY <1>6 DEF LvIn
    <3> QED
      BY <1>5, <1>6, <2>2, <3>1 DEF LvMid, LvHands, LvKept
  <2>4. Cardinality(k.alive) > 1 => k.alive # {}
    <3>1. Cardinality({}) = 0
      BY FS_EmptySet
    <3> QED
      BY <3>1
  <2> QED
    BY <1>4, <1>6, <2>3, <2>4
<1>8. LvReady(k)
  BY <1>1, <1>5, <1>6, <1>7 DEF LvReady
<1> QED
  BY <1>2, <1>3, <1>8, LoveTakesTurn

--------------------------------------------------------------------------
(* Love: the invariant *)

LoveInv == LoveHolds(game)

LEMMA LoveInitially == Love!Init => LoveInv
<1>1. SUFFICES ASSUME NEW copies \in LoveRules.Decks, NEW p \in LvP,
                      game \in Love!Rounds(copies, [q \in LvP |-> 0], p)
               PROVE  LoveHolds(game)
  BY DEF Love!Init, LoveInv, LvP
<1>2. PICK hearts : hearts = [q \in LvP |-> 0]
  OBVIOUS
<1>3. hearts \in [LvP -> Nat]
  BY <1>2
<1> QED
  BY <1>1, <1>2, <1>3, LoveRound

\* A press, before the cards have an effect.
LEMMA LovePressed ==
    ASSUME LoveInv, NEW p, NEW x \in LvC, Love!Ready(p, x)
    PROVE  /\ Love!Pressed \in Love!Table /\ LoveHolds(Love!Pressed)
           /\ x \in {Love!Pressed.card[Love!Pressed.current], Love!Pressed.pending}
           /\ Love!Pressed.alive = game.alive /\ Love!Pressed.current = game.current
<1>1. game \in Love!Table /\ game.copies \in LoveRules.Decks
  BY DEF LoveInv, LoveHolds
<1>2. PICK g : g = Love!Pressed
  OBVIOUS
<1>3. PICK l : l = IF game.ending THEN game.late + 1 ELSE 0
  OBVIOUS
<1>4. l \in 0 .. LoveRules.LateMax
  <2>1. game.late \in Nat /\ LoveRules.LateMax \in Nat
    BY <1>1, LoveNumbers DEF Love!Table
  <2>2. game.ending => game.late < LoveRules.LateMax
    BY <2>1 DEF Love!Ready
  <2> QED
    BY <1>3, <2>1, <2>2
<1>5. g = [game EXCEPT !.late = l]
  BY <1>2, <1>3 DEF Love!Pressed
<1>6. g \in Love!Table
  BY <1>1, <1>4, <1>5 DEF Love!Table
<1>7. /\ g.copies = game.copies /\ g.visible = game.visible /\ g.aside = game.aside
      /\ g.deck = game.deck /\ g.current = game.current /\ g.pending = game.pending
      /\ g.card = game.card /\ g.pile = game.pile /\ g.alive = game.alive
      /\ g.ending = game.ending /\ g.over = game.over /\ g.protected = game.protected
  BY <1>1, <1>5 DEF Love!Table
<1>8. LoveHolds(g)
  <2>1. \A c \in LvC : LvIn(g, c) = LvIn(game, c)
    BY <1>7 DEF LvIn
  <2>2. LvDrawn(game) => LvDrawn(g)
    BY <1>6, <1>7, <2>1 DEF LvDrawn, LvTurn, LvHands, LvKept
  <2> QED
    BY <1>6, <1>7, <2>2 DEF LoveInv, LoveHolds
<1>9. x \in {g.card[g.current], g.pending}
  BY <1>7 DEF Love!Ready, Love!CanDiscard
<1> QED
  BY <1>2, <1>6, <1>7, <1>8, <1>9

LEMMA LoveInVain ==
    ASSUME LoveInv, NEW p, NEW x \in LvC, Love!DiscardInVain(p, x)
    PROVE  LoveInv'
<1>1. Love!Ready(p, x) /\ game' \in Love!Finished(Love!Started(Love!Pressed, x))
  BY DEF Love!DiscardInVain
<1>2. PICK g : g = Love!Pressed
  OBVIOUS
<1>3. g \in Love!Table /\ LoveHolds(g) /\ x \in {g.card[g.current], g.pending}
  BY <1>1, <1>2, LovePressed
<1>4. PICK h : h = Love!Started(g, x)
  OBVIOUS
<1>5. LvAfter(g, h)
  BY <1>3, <1>4, LoveStarted, LoveStartedAfter
<1>6. PICK e : e = game'
  OBVIOUS
<1>7. e \in Love!Finished(h)
  BY <1>1, <1>2, <1>4, <1>6
<1>8. LoveHolds(e)
  BY <1>3, <1>5, <1>7, LoveFinished
<1> QED
  BY <1>6, <1>8 DEF LoveInv

LEMMA LoveAt ==
    ASSUME LoveInv, NEW p, NEW x \in LvC, NEW t, NEW guess, Love!Ready(p, x),
           x \in {Love!Guard, Love!Baron, Love!King} => t \in Love!Targets(x),
           x = Love!Prince => t \in Love!Targets(x),
           game' \in UNION {Love!Finished(h) : h \in Love!Effects(Love!Pressed, x, t, guess)}
    PROVE  LoveInv'
<1>1. PICK g : g = Love!Pressed
  OBVIOUS
<1>2. /\ g \in Love!Table /\ LoveHolds(g) /\ x \in {g.card[g.current], g.pending}
      /\ g.alive = game.alive /\ g.current = game.current
  BY <1>1, LovePressed
<1>3. PICK h \in Love!Effects(g, x, t, guess) : game' \in Love!Finished(h)
  BY <1>1
<1>4. /\ x \in {Love!Guard, Love!Baron, Love!King} => t \in g.alive \ {g.current}
      /\ x = Love!Prince => t \in g.alive \cup {g.current}
  <2>1. Love!Guard # Love!Prince /\ Love!Baron # Love!Prince /\ Love!King # Love!Prince
    BY DEF Love!Guard, Love!Prince, Love!Baron, Love!King
  <2> QED
    BY <1>2, <2>1 DEF Love!Targets
<1>5. LvAfter(g, h)
  BY <1>2, <1>3, <1>4, LoveEffects
<1>6. PICK e : e = game'
  OBVIOUS
<1>7. LoveHolds(e)
  BY <1>2, <1>3, <1>5, <1>6, LoveFinished
<1> QED
  BY <1>6, <1>7 DEF LoveInv

LEMMA LoveStep == LoveInv /\ [Love!Next]_game => LoveInv'
<1>1. SUFFICES ASSUME LoveInv, [Love!Next]_game PROVE LoveInv'
  OBVIOUS
<1>2. CASE UNCHANGED game
  BY <1>1, <1>2 DEF LoveInv
<1>3. CASE Love!Timers
  <2>1. PICK e : e = game'
    OBVIOUS
  <2>2. game \in Love!Table /\ game.copies \in LoveRules.Decks
    BY <1>1 DEF LoveInv, LoveHolds
  <2>3. e = [game EXCEPT !.ending = FALSE, !.over = TRUE]
    BY <1>3, <2>1 DEF Love!Timers
  <2>4. e \in Love!Table /\ e.over = TRUE /\ e.copies = game.copies
    BY <2>2, <2>3 DEF Love!Table
  <2>5. LoveHolds(e)
    BY <2>2, <2>4 DEF LoveHolds
  <2> QED
    BY <2>1, <2>5 DEF LoveInv
<1>4. ASSUME NEW p \in LvP, Love!Press(p) PROVE LoveInv'
  <2>1. PICK x \in LvC : \/ Love!DiscardInVain(p, x)
                         \/ \E t \in Love!Players, guess \in Love!Characters :
                                Love!DiscardAt(p, x, t, guess)
                         \/ Love!Discard(p, x)
    BY <1>4 DEF Love!Press, LvC
  <2>2. CASE Love!DiscardInVain(p, x)
    BY <1>1, <2>2, LoveInVain
  <2>3. ASSUME NEW t, NEW guess, Love!DiscardAt(p, x, t, guess) PROVE LoveInv'
    <3>1. Love!Ready(p, x) /\ t \in Love!Targets(x)
          /\ game' \in UNION {Love!Finished(h) :
                                 h \in Love!Effects(Love!Pressed, x, t, guess)}
      BY <2>3 DEF Love!DiscardAt
    <3> QED
      BY <1>1, <3>1, LoveAt
  <2>4. CASE Love!Discard(p, x)
    <3>1. /\ x \in {Love!Handmaid, Love!Comtesse, Love!Princess} /\ Love!Ready(p, x)
          /\ game' \in UNION {Love!Finished(h) :
                                 h \in Love!Effects(Love!Pressed, x, p, Love!Guard)}
      BY <2>4 DEF Love!Discard
    <3>2. x \notin {Love!Guard, Love!Baron, Love!King, Love!Prince}
      BY <3>1 DEF Love!Guard, Love!Baron, Love!King, Love!Prince, Love!Handmaid,
         Love!Comtesse, Love!Princess
    <3> QED
      BY <1>1, <3>1, <3>2, LoveAt
  <2> QED
    BY <2>1, <2>2, <2>3, <2>4
<1> QED
  BY <1>1, <1>2, <1>3, <1>4 DEF Love!Next, LvP

LEMMA LoveMeans ==
    LoveInv => /\ Love!TypeOK /\ Love!CardsConserved /\ Love!SetAsideIsThere
               /\ Love!TurnIsSound /\ Love!NeverStuck
<1>1. SUFFICES ASSUME LoveInv
               PROVE  /\ Love!TypeOK /\ Love!CardsConserved /\ Love!SetAsideIsThere
                      /\ Love!TurnIsSound /\ Love!NeverStuck
  OBVIOUS
<1>2. PICK g : g = game
  OBVIOUS
<1>3. g \in Love!Table
  BY <1>1, <1>2 DEF LoveInv, LoveHolds
<1>4. SUFFICES ASSUME Love!Playing
               PROVE  /\ Love!CardsConserved /\ Love!SetAsideIsThere
                      /\ Love!TurnIsSound /\ Love!NeverStuck
  BY <1>2, <1>3 DEF Love!TypeOK, Love!CardsConserved, Love!SetAsideIsThere,
     Love!TurnIsSound, Love!NeverStuck
<1>5. LvTurn(g) /\ g.current \notin g.protected /\ Cardinality(g.alive) > 1
  BY <1>1, <1>2, <1>4 DEF LoveInv, LoveHolds, LvDrawn, Love!Playing
<1>6. Love!CardsConserved
  <2>1. ASSUME NEW c \in Love!Characters
        PROVE  game.copies[c] = game.deck[c] + game.visible[c]
                 + (IF game.aside = c THEN 1 ELSE 0) + (IF game.pending = c THEN 1 ELSE 0)
                 + Love!Cardinality({p \in Love!Players : game.card[p] = c})
                 + Love!MapThenSumSet(LAMBDA p : game.pile[p][c], Love!Players)
    <3>1. c \in LvC
      BY <2>1 DEF LvC
    <3>2. g.copies[c] = LvIn(g, c) + One(g.pending, c)
      BY <1>5, <3>1 DEF LvTurn, LvKept
    <3>3. Love!Cardinality({p \in Love!Players : game.card[p] = c})
             = Cardinality(Fibre(g.card, LvP, c))
      BY <1>2, LoveSets DEF Fibre, LvP
    <3>4. Love!MapThenSumSet(LAMBDA p : game.pile[p][c], Love!Players)
             = Sum(Column(game.pile, LvP, c), LvP)
      BY LoveSums
    <3>5. LvNumbers(g)
      BY <1>3, LoveCounts
    <3>6. /\ g.deck[c] \in Nat /\ g.visible[c] \in Nat
          /\ Cardinality(Fibre(g.card, LvP, c)) \in Nat
          /\ Sum(Column(g.pile, LvP, c), LvP) \in Nat
      BY <3>1, <3>5 DEF LvNumbers
    <3>7. PICK a \in Nat : a = Love!Cardinality({p \in Love!Players : game.card[p] = c})
      BY <3>3, <3>6
    <3>8. PICK b \in Nat : b = Love!MapThenSumSet(LAMBDA p : game.pile[p][c], Love!Players)
      BY <1>2, <3>4, <3>6
    <3>9. g.copies[c] = g.deck[c] + g.visible[c] + One(g.aside, c) + a + b + One(g.pending, c)
      BY <1>2, <3>2, <3>3, <3>4, <3>7, <3>8 DEF LvIn
    <3> QED
      BY <1>2, <3>6, <3>7, <3>8, <3>9 DEF One
  <2> QED
    BY <1>4, <2>1 DEF Love!CardsConserved
<1>7. Love!SetAsideIsThere
  BY <1>2, <1>5 DEF Love!SetAsideIsThere, LvTurn
<1>8. Love!TurnIsSound
  BY <1>2, <1>5, LoveSets DEF Love!TurnIsSound, LvTurn, LvHands, LvP
<1>9. Love!NeverStuck
  <2>1. g.card \in [LvP -> LvC \cup {Love!None}] /\ g.pending \in LvC /\ g.current \in LvP
    BY <1>3 DEF Love!Table, LvP, LvC
  <2>2. g.card[g.current] \in LvC
    BY <1>5, <2>1 DEF LvTurn, LvHands
  <2>3. PICK y \in LvC : y = g.card[g.current]
    BY <2>2
  <2>4. PICK x \in LvC : x = g.pending
    BY <2>1
  <2>5. \E c \in {x, y} : c \in {Love!King, Love!Prince} => Love!Comtesse \notin {x, y}
    BY DEF Love!King, Love!Prince, Love!Comtesse
  <2>6. \E c \in LvC : Love!CanDiscard(c)
    BY <1>2, <2>3, <2>4, <2>5 DEF Love!CanDiscard
  <2> QED
    BY <2>6 DEF Love!NeverStuck, LvC
<1> QED
  BY <1>6, <1>7, <1>8, <1>9

--------------------------------------------------------------------------
(* Fox: cards in places *)

FoxSizes(q) == [k \in 1 .. 6 |-> Cardinality(q[k])]

\* The six places hold different cards, and n cards of the pack are in none of them.
FoxParted(pack, q, n) ==
    /\ q \in [1 .. 6 -> SUBSET pack]
    /\ \A i, j \in 1 .. 6 : i # j => q[i] \cap q[j] = {}
    /\ n \in Int
    /\ Sum(FoxSizes(q), 1 .. 6) + n = Cardinality(pack)

FoxMoved(q, i, j, c) ==
    [k \in 1 .. 6 |-> IF k = i THEN q[k] \ {c} ELSE IF k = j THEN q[k] \cup {c} ELSE q[k]]
FoxEmptied(q, i) == [k \in 1 .. 6 |-> IF k = i THEN {} ELSE q[k]]

LEMMA SixPlaces == IsFiniteSet(1 .. 6)
<1>1. 1 \in Int /\ 6 \in Int
  OBVIOUS
<1> QED
  BY <1>1, FS_Interval

LEMMA SumOfSix ==
    ASSUME NEW f, \A k \in 1 .. 6 : f[k] \in Int
    PROVE  Sum(f, 1 .. 6) = f[1] + f[2] + f[3] + f[4] + f[5] + f[6]
<1>1. \A s \in SUBSET (1 .. 6) : \A x \in (1 .. 6) \ s : Sum(f, s \cup {x}) = Sum(f, s) + f[x]
  BY SixPlaces, SumAdd
<1>2. Sum(f, {}) = 0
  BY SumEmpty
<1>3. Sum(f, {1}) = f[1]
  <2>1. {} \in SUBSET (1 .. 6) /\ 1 \in (1 .. 6) \ {} /\ {} \cup {1} = {1}
    OBVIOUS
  <2> QED
    BY <1>1, <1>2, <2>1
<1>4. Sum(f, 1 .. 2) = f[1] + f[2]
  <2>1. {1} \in SUBSET (1 .. 6) /\ 2 \in (1 .. 6) \ {1} /\ {1} \cup {2} = 1 .. 2
    OBVIOUS
  <2> QED
    BY <1>1, <1>3, <2>1
<1>5. Sum(f, 1 .. 3) = f[1] + f[2] + f[3]
  <2>1. 1 .. 2 \in SUBSET (1 .. 6) /\ 3 \in (1 .. 6) \ 1 .. 2 /\ (1 .. 2) \cup {3} = 1 .. 3
    OBVIOUS
  <2> QED
    BY <1>1, <1>4, <2>1
<1>6. Sum(f, 1 .. 4) = f[1] + f[2] + f[3] + f[4]
  <2>1. 1 .. 3 \in SUBSET (1 .. 6) /\ 4 \in (1 .. 6) \ 1 .. 3 /\ (1 .. 3) \cup {4} = 1 .. 4
    OBVIOUS
  <2> QED
    BY <1>1, <1>5, <2>1
<1>7. Sum(f, 1 .. 5) = f[1] + f[2] + f[3] + f[4] + f[5]
  <2>1. 1 .. 4 \in SUBSET (1 .. 6) /\ 5 \in (1 .. 6) \ 1 .. 4 /\ (1 .. 4) \cup {5} = 1 .. 5
    OBVIOUS
  <2> QED
    BY <1>1, <1>6, <2>1
<1>8. 1 .. 5 \in SUBSET (1 .. 6) /\ 6 \in (1 .. 6) \ 1 .. 5 /\ (1 .. 5) \cup {6} = 1 .. 6
  OBVIOUS
<1> QED
  BY <1>1, <1>7, <1>8

LEMMA SixChange ==
    ASSUME NEW f, NEW g, NEW x \in 1 .. 6,
           \A i \in 1 .. 6 : f[i] \in Int /\ g[i] \in Int,
           \A i \in 1 .. 6 : i # x => f[i] = g[i]
    PROVE  Sum(g, 1 .. 6) = Sum(f, 1 .. 6) + g[x] - f[x]
<1>1. Sum(f, 1 .. 6) = f[1] + f[2] + f[3] + f[4] + f[5] + f[6]
  BY SumOfSix
<1>2. Sum(g, 1 .. 6) = g[1] + g[2] + g[3] + g[4] + g[5] + g[6]
  BY SumOfSix
<1>3. /\ f[1] \in Int /\ f[2] \in Int /\ f[3] \in Int /\ f[4] \in Int /\ f[5] \in Int
      /\ f[6] \in Int /\ g[1] \in Int /\ g[2] \in Int /\ g[3] \in Int /\ g[4] \in Int
      /\ g[5] \in Int /\ g[6] \in Int
  OBVIOUS
<1>4. x = 1 \/ x = 2 \/ x = 3 \/ x = 4 \/ x = 5 \/ x = 6
  OBVIOUS
<1> QED
  BY <1>1, <1>2, <1>3, <1>4

LEMMA FoxSizesAreNumbers ==
    ASSUME NEW pack, IsFiniteSet(pack), NEW q \in [1 .. 6 -> SUBSET pack]
    PROVE  \A k \in 1 .. 6 : IsFiniteSet(q[k]) /\ Cardinality(q[k]) \in Nat
                               /\ FoxSizes(q)[k] = Cardinality(q[k])
<1>1. SUFFICES ASSUME NEW k \in 1 .. 6
               PROVE  IsFiniteSet(q[k]) /\ Cardinality(q[k]) \in Nat
                               /\ FoxSizes(q)[k] = Cardinality(q[k])
  OBVIOUS
<1>2. q[k] \in SUBSET pack
  OBVIOUS
<1>3. IsFiniteSet(q[k])
  BY <1>2, FS_Subset
<1> QED
  BY <1>3, FS_CardinalityType DEF FoxSizes

(* A card that goes from one place to another.                               *)
LEMMA FoxMove ==
    ASSUME NEW pack, IsFiniteSet(pack), NEW q, NEW n, FoxParted(pack, q, n),
           NEW i \in 1 .. 6, NEW j \in 1 .. 6, i # j, NEW c \in q[i],
           NEW r, r = FoxMoved(q, i, j, c)
    PROVE  /\ FoxParted(pack, r, n)
           /\ r[i] = q[i] \ {c} /\ r[j] = q[j] \cup {c}
           /\ \A k \in 1 .. 6 : k # i /\ k # j => r[k] = q[k]
           /\ Cardinality(r[i]) = Cardinality(q[i]) - 1
           /\ Cardinality(r[j]) = Cardinality(q[j]) + 1
           /\ Cardinality(q[i]) \in Nat /\ Cardinality(q[j]) \in Nat
<1>1. q \in [1 .. 6 -> SUBSET pack] /\ n \in Int
  BY DEF FoxParted
<1>2. /\ r[i] = q[i] \ {c} /\ r[j] = q[j] \cup {c}
      /\ \A k \in 1 .. 6 : k # i /\ k # j => r[k] = q[k]
  BY DEF FoxMoved
<1>3. r \in [1 .. 6 -> SUBSET pack]
  <2>1. c \in pack
    BY <1>1
  <2> QED
    BY <1>1, <2>1 DEF FoxMoved
<1>4. \A a, b \in 1 .. 6 : a # b => r[a] \cap r[b] = {}
  <2>1. SUFFICES ASSUME NEW a \in 1 .. 6, NEW b \in 1 .. 6, a # b, NEW x \in r[a], x \in r[b]
                 PROVE  FALSE
    OBVIOUS
  <2>2. \A s, t \in 1 .. 6 : s # t => q[s] \cap q[t] = {}
    BY DEF FoxParted
  <2>3. \A k \in 1 .. 6 : x \in r[k] => x \in q[k] \/ (x = c /\ k = j)
    BY <1>2
  <2>4. \A k \in 1 .. 6 : c \in q[k] => k = i
    BY <2>2
  <2>5. c \notin r[i]
    BY <1>2
  <2>6. CASE x = c
    BY <2>1, <2>3, <2>4, <2>5, <2>6
  <2>7. CASE x # c
    BY <2>1, <2>2, <2>3, <2>7
  <2> QED
    BY <2>6, <2>7
<1>5. \A k \in 1 .. 6 : IsFiniteSet(q[k]) /\ Cardinality(q[k]) \in Nat
                               /\ FoxSizes(q)[k] = Cardinality(q[k])
  BY <1>1, FoxSizesAreNumbers
<1>6. \A k \in 1 .. 6 : Cardinality(r[k]) \in Nat /\ FoxSizes(r)[k] = Cardinality(r[k])
  BY <1>3, FoxSizesAreNumbers
<1>7. Cardinality(r[i]) = Cardinality(q[i]) - 1
  <2>1. IsFiniteSet(q[i]) /\ c \in q[i]
    BY <1>5
  <2>2. Cardinality(q[i] \ {c}) = Cardinality(q[i]) - 1
    BY <2>1, FS_RemoveElement
  <2> QED
    BY <1>2, <2>2
<1>8. Cardinality(r[j]) = Cardinality(q[j]) + 1
  <2>1. IsFiniteSet(q[j]) /\ c \notin q[j]
    BY <1>5 DEF FoxParted
  <2>2. Cardinality(q[j] \cup {c}) = Cardinality(q[j]) + 1
    BY <2>1, FS_AddElement
  <2> QED
    BY <1>2, <2>2
<1>9. Sum(FoxSizes(r), 1 .. 6) = Sum(FoxSizes(q), 1 .. 6)
  <2>1. PICK a : a = FoxSizes(q)
    OBVIOUS
  <2>2. PICK b : b = FoxSizes(r)
    OBVIOUS
  <2>3. PICK m : m = [a EXCEPT ![i] = b[i]]
    OBVIOUS
  <2>4. /\ a \in [1 .. 6 -> Int] /\ \A k \in 1 .. 6 : a[k] \in Int /\ b[k] \in Int
    BY <1>5, <1>6, <2>1, <2>2 DEF FoxSizes
  <2>5. /\ m[i] = b[i]
        /\ \A k \in 1 .. 6 : k # i => m[k] = a[k]
    BY <2>3, <2>4
  <2>6. \A k \in 1 .. 6 : a[k] \in Int /\ m[k] \in Int
    BY <2>4, <2>5
  <2>7. \A k \in 1 .. 6 : m[k] \in Int /\ b[k] \in Int
    BY <2>4, <2>6
  <2>8. \A k \in 1 .. 6 : k # i => a[k] = m[k]
    BY <2>5
  <2>9. \A k \in 1 .. 6 : k # j => m[k] = b[k]
    BY <1>2, <1>5, <1>6, <2>1, <2>2, <2>5
  <2>10. Sum(m, 1 .. 6) = Sum(a, 1 .. 6) + m[i] - a[i]
    BY <2>6, <2>8, SixChange
  <2>11. Sum(b, 1 .. 6) = Sum(m, 1 .. 6) + b[j] - m[j]
    BY <2>7, <2>9, SixChange
  <2>12. /\ Sum(a, 1 .. 6) \in Int /\ Sum(m, 1 .. 6) \in Int
    BY <2>6, SixPlaces, SumType
  <2>13. m[i] = a[i] - 1 /\ m[j] = a[j] /\ b[j] = a[j] + 1
    BY <1>5, <1>6, <1>7, <1>8, <2>1, <2>2, <2>5
  <2> QED
    BY <2>1, <2>2, <2>4, <2>10, <2>11, <2>12, <2>13
<1> QED
  <2>1. Sum(FoxSizes(q), 1 .. 6) + n = Cardinality(pack)
    BY DEF FoxParted
  <2>2. FoxParted(pack, r, n)
    BY <1>1, <1>3, <1>4, <1>9, <2>1 DEF FoxParted
  <2> QED
    BY <1>2, <1>5, <1>7, <1>8, <2>2

(* The cards of a trick are gone.                                            *)
LEMMA FoxEmpty ==
    ASSUME NEW pack, IsFiniteSet(pack), NEW q, NEW n, FoxParted(pack, q, n),
           NEW i \in 1 .. 6, NEW r, r = FoxEmptied(q, i)
    PROVE  /\ FoxParted(pack, r, n + Cardinality(q[i]))
           /\ \A k \in 1 .. 6 : r[k] = IF k = i THEN {} ELSE q[k]
<1>1. q \in [1 .. 6 -> SUBSET pack] /\ n \in Int
  BY DEF FoxParted
<1>2. \A k \in 1 .. 6 : r[k] = IF k = i THEN {} ELSE q[k]
  BY DEF FoxEmptied
<1>3. r \in [1 .. 6 -> SUBSET pack]
  BY <1>1 DEF FoxEmptied
<1>4. \A a, b \in 1 .. 6 : a # b => r[a] \cap r[b] = {}
  BY <1>2 DEF FoxParted
<1>5. \A k \in 1 .. 6 : Cardinality(q[k]) \in Nat /\ FoxSizes(q)[k] = Cardinality(q[k])
  BY <1>1, FoxSizesAreNumbers
<1>6. \A k \in 1 .. 6 : Cardinality(r[k]) \in Nat /\ FoxSizes(r)[k] = Cardinality(r[k])
  BY <1>3, FoxSizesAreNumbers
<1>7. Cardinality(r[i]) = 0
  BY <1>2, FS_EmptySet
<1>8. Sum(FoxSizes(r), 1 .. 6) = Sum(FoxSizes(q), 1 .. 6) + 0 - Cardinality(q[i])
  <2>1. PICK a : a = FoxSizes(q)
    OBVIOUS
  <2>2. PICK b : b = FoxSizes(r)
    OBVIOUS
  <2>3. \A k \in 1 .. 6 : a[k] \in Int /\ b[k] \in Int
    BY <1>5, <1>6, <2>1, <2>2
  <2>4. \A k \in 1 .. 6 : k # i => a[k] = b[k]
    BY <1>2, <1>5, <1>6, <2>1, <2>2
  <2>5. Sum(b, 1 .. 6) = Sum(a, 1 .. 6) + b[i] - a[i]
    BY <2>3, <2>4, SixChange
  <2> QED
    BY <1>5, <1>6, <1>7, <2>1, <2>2, <2>5
<1>9. Sum(FoxSizes(q), 1 .. 6) \in Int
  <2>1. \A k \in 1 .. 6 : FoxSizes(q)[k] \in Int
    BY <1>5
  <2> QED
    BY <2>1, SixPlaces, SumType
<1> QED
  <2>1. Sum(FoxSizes(q), 1 .. 6) + n = Cardinality(pack)
    BY DEF FoxParted
  <2>2. Cardinality(q[i]) \in Nat
    BY <1>5
  <2>3. FoxParted(pack, r, n + Cardinality(q[i]))
    BY <1>1, <1>3, <1>4, <1>8, <1>9, <2>1, <2>2 DEF FoxParted
  <2> QED
    BY <1>2, <2>3

(* A deal of two hands, a trump and the rest.                                *)
LEMMA FoxDeal ==
    ASSUME NEW pack, IsFiniteSet(pack), NEW q,
           q \in [1 .. 6 -> SUBSET pack],
           \A i, j \in 1 .. 6 : i # j => q[i] \cap q[j] = {},
           q[4] = {}, q[5] = {}, q[3] = pack \ (q[1] \cup q[2] \cup q[6])
    PROVE  FoxParted(pack, q, 0)
<1>1. \A k \in 1 .. 6 : /\ IsFiniteSet(q[k]) /\ Cardinality(q[k]) \in Nat
                        /\ FoxSizes(q)[k] = Cardinality(q[k])
  BY FoxSizesAreNumbers
<1>2. PICK s : s = q[1]
  OBVIOUS
<1>3. PICK t : t = q[2]
  OBVIOUS
<1>4. PICK u : u = q[6]
  OBVIOUS
<1>5. PICK w : w = q[3]
  OBVIOUS
<1>6. IsFiniteSet(s) /\ IsFiniteSet(t) /\ IsFiniteSet(u) /\ IsFiniteSet(w)
  BY <1>1, <1>2, <1>3, <1>4, <1>5
<1>7. /\ s \cap t = {} /\ s \cap u = {} /\ t \cap u = {}
      /\ s \subseteq pack /\ t \subseteq pack /\ u \subseteq pack
      /\ w = pack \ (s \cup t \cup u)
  BY <1>2, <1>3, <1>4, <1>5
<1>8. PICK x : x = s \cup t
  OBVIOUS
<1>9. IsFiniteSet(x) /\ Cardinality(x) = Cardinality(s) + Cardinality(t)
  BY <1>6, <1>7, <1>8, Together
<1>10. PICK y : y = x \cup u
  OBVIOUS
<1>11. IsFiniteSet(y) /\ Cardinality(y) = Cardinality(x) + Cardinality(u)
  <2>1. x \cap u = {}
    BY <1>7, <1>8
  <2> QED
    BY <1>6, <1>9, <1>10, <2>1, Together
<1>12. Cardinality(pack) = Cardinality(w) + Cardinality(y)
  <2>1. w \cap y = {} /\ w \cup y = pack
    BY <1>7, <1>8, <1>10
  <2>2. Cardinality(w \cup y) = Cardinality(w) + Cardinality(y)
    BY <1>6, <1>11, <2>1, Together
  <2> QED
    BY <2>1, <2>2
<1>13. Cardinality(q[4]) = 0 /\ Cardinality(q[5]) = 0
  BY FS_EmptySet
<1>14. PICK f : f = FoxSizes(q)
  OBVIOUS
<1>15. \A k \in 1 .. 6 : f[k] \in Int /\ f[k] = Cardinality(q[k])
  BY <1>1, <1>14
<1>16. Sum(f, 1 .. 6) = f[1] + f[2] + f[3] + f[4] + f[5] + f[6]
  BY <1>15, SumOfSix
<1>17. /\ f[1] = Cardinality(s) /\ f[2] = Cardinality(t) /\ f[3] = Cardinality(w)
       /\ f[4] = 0 /\ f[5] = 0 /\ f[6] = Cardinality(u)
  BY <1>2, <1>3, <1>4, <1>5, <1>13, <1>15
<1>18. /\ Cardinality(s) \in Nat /\ Cardinality(t) \in Nat /\ Cardinality(w) \in Nat
       /\ Cardinality(u) \in Nat
  BY <1>6, FS_CardinalityType
<1>19. Sum(f, 1 .. 6) + 0 = Cardinality(pack)
  BY <1>9, <1>11, <1>12, <1>16, <1>17, <1>18
<1> QED
  BY <1>14, <1>19 DEF FoxParted

--------------------------------------------------------------------------
(* Fox: the invariant *)

FoxPlaces(g) ==
    [k \in 1 .. 6 |-> IF k = 1 THEN g.hand[0] ELSE IF k = 2 THEN g.hand[1]
                      ELSE IF k = 3 THEN g.fresh ELSE IF k = 4 THEN Fox!Range(g.bottom)
                      ELSE IF k = 5 THEN Fox!Range(g.played) ELSE {g.trump}]
FoxLost(g) == 2 * (g.tricks[0] + g.tricks[1])

FoxOnce(s) == \A i, j \in DOMAIN s : i # j => s[i] # s[j]

\* The player who resolves a card, and the cards that a player holds.
FoxLast(g) == IF Len(g.played) = 1 THEN g.leader ELSE 1 - g.leader
FoxOwed(g, p) ==
    g.nHand - (IF Len(g.played) > 0 /\ (p = g.leader \/ Len(g.played) = 2) THEN 1 ELSE 0)
            + (IF g.resolving /\ p = FoxLast(g) /\ Fox!Value(g.played[Len(g.played)]) = 5
               THEN 1 ELSE 0)

FoxBody(g) ==
    /\ g \in Fox!Table /\ ~g.ending /\ ~g.over /\ ~g.aborted /\ g.nHand > 0
    /\ g.nHand + g.tricks[0] + g.tricks[1] = FoxRules.HandSize
    /\ FoxParted(g.pack, FoxPlaces(g), FoxLost(g))
    /\ FoxOnce(g.bottom)
    /\ Cardinality(Fox!Range(g.played)) = Len(g.played)
FoxCounted(g) == \A p \in {0, 1} : Cardinality(g.hand[p]) = FoxOwed(g, p)
FoxAsked(g) ==
    IF g.resolving
    THEN /\ g.nHand > 1 /\ Len(g.played) \in {1, 2}
         /\ Fox!Value(g.played[Len(g.played)]) \in {3, 5}
    ELSE Len(g.played) < 2

FoxHolds(g) ==
    /\ g \in Fox!Table
    /\ IF g.ending \/ g.over THEN ~g.resolving /\ Len(g.played) = 2
       ELSE FoxBody(g) /\ FoxCounted(g) /\ FoxAsked(g)

FoxInv == FoxHolds(game)

LEMMA FoxNumbers ==
    /\ \A pack \in FoxRules.Packs : /\ IsFiniteSet(pack) /\ pack \subseteq Fox!Cards
                                     /\ Cardinality(pack) >= 2 * FoxRules.HandSize + 2
    /\ FoxRules.HandSize \in Nat /\ FoxRules.HandSize > 0
    /\ Fox!Players = {0, 1}
    /\ \A S : Fox!Cardinality(S) = Cardinality(S)
<1>1. \A S : Fox!Cardinality(S) = Cardinality(S)
  BY DEF Fox!Cardinality, Cardinality
<1>2. /\ \A pack \in FoxRules.Packs : /\ Fox!IsFiniteSet(pack)
                                       /\ Fox!Cardinality(pack) >= 2 * FoxRules.HandSize + 2
      /\ FoxRules.HandSize \in Nat /\ FoxRules.HandSize > 0
  BY Setups DEF Setups, Fox!Setup
<1>3. \A pack \in FoxRules.Packs : IsFiniteSet(pack)
  BY <1>2 DEF Fox!IsFiniteSet, IsFiniteSet
<1> QED
  BY <1>1, <1>2, <1>3 DEF Fox!Players, Fox!Cards

LEMMA FoxPlacesAre ==
    ASSUME NEW g
    PROVE  /\ FoxPlaces(g)[1] = g.hand[0] /\ FoxPlaces(g)[2] = g.hand[1]
           /\ FoxPlaces(g)[3] = g.fresh /\ FoxPlaces(g)[4] = Fox!Range(g.bottom)
           /\ FoxPlaces(g)[5] = Fox!Range(g.played) /\ FoxPlaces(g)[6] = {g.trump}
BY DEF FoxPlaces

\* Two functions of places are one when their places are.
LEMMA FoxSamePlaces ==
    ASSUME NEW q, q = [k \in 1 .. 6 |-> q[k]], NEW r, r = [k \in 1 .. 6 |-> r[k]],
           q[1] = r[1], q[2] = r[2], q[3] = r[3], q[4] = r[4], q[5] = r[5], q[6] = r[6]
    PROVE  q = r
<1>1. \A k \in 1 .. 6 : q[k] = r[k]
  OBVIOUS
<1> QED
  BY <1>1

LEMMA FoxPlacesFcn ==
    /\ \A g : FoxPlaces(g) = [k \in 1 .. 6 |-> FoxPlaces(g)[k]]
    /\ \A q, i, j, c : FoxMoved(q, i, j, c) = [k \in 1 .. 6 |-> FoxMoved(q, i, j, c)[k]]
    /\ \A q, i : FoxEmptied(q, i) = [k \in 1 .. 6 |-> FoxEmptied(q, i)[k]]
BY DEF FoxPlaces, FoxMoved, FoxEmptied

FoxAppended(S, s, c, t) ==
    /\ t \in Seq(S) /\ Len(t) = Len(s) + 1 /\ t[Len(t)] = c
    /\ Fox!Range(t) = Fox!Range(s) \cup {c}
    /\ FoxOnce(s) /\ c \notin Fox!Range(s) => FoxOnce(t)

LEMMA AppendRange ==
    ASSUME NEW S, NEW s \in Seq(S), NEW c \in S
    PROVE  FoxAppended(S, s, c, Append(s, c))
<1> DEFINE t == Append(s, c)
<1>1. /\ t \in Seq(S) /\ Len(t) = Len(s) + 1 /\ t[Len(s) + 1] = c
      /\ DOMAIN t = 1 .. Len(s) + 1 /\ DOMAIN s = 1 .. Len(s) /\ Len(s) \in Nat
      /\ \A i \in 1 .. Len(s) : t[i] = s[i]
  OBVIOUS
<1> HIDE DEF t
<1>2. Fox!Range(t) = Fox!Range(s) \cup {c}
  <2>1. \A x : x \in Fox!Range(t) <=> \E i \in 1 .. Len(s) + 1 : x = t[i]
    BY <1>1 DEF Fox!Range
  <2>2. \A x : x \in Fox!Range(s) <=> \E i \in 1 .. Len(s) : x = s[i]
    BY <1>1 DEF Fox!Range
  <2>3. \A x : x \in Fox!Range(t) <=> x \in Fox!Range(s) \/ x = c
    <3>1. 1 .. Len(s) + 1 = (1 .. Len(s)) \cup {Len(s) + 1}
      BY <1>1
    <3> QED
      BY <1>1, <2>1, <2>2, <3>1
  <2> QED
    BY <2>3
<1>3. ASSUME FoxOnce(s), c \notin Fox!Range(s)
      PROVE  FoxOnce(t)
  <2>1. \A i \in 1 .. Len(s) : s[i] # c
    BY <1>1, <1>3 DEF Fox!Range
  <2>2. SUFFICES ASSUME NEW i \in 1 .. Len(s) + 1, NEW j \in 1 .. Len(s) + 1, t[i] = t[j]
                 PROVE  i = j
    BY <1>1 DEF FoxOnce
  <2>3. CASE i \in 1 .. Len(s) /\ j \in 1 .. Len(s)
    <3>1. t[i] = s[i] /\ t[j] = s[j]
      BY <1>1, <2>3
    <3> QED
      BY <1>1, <1>3, <2>2, <2>3, <3>1 DEF FoxOnce
  <2>4. CASE i = Len(s) + 1 /\ j \in 1 .. Len(s)
    BY <1>1, <2>1, <2>2, <2>4
  <2>5. CASE j = Len(s) + 1 /\ i \in 1 .. Len(s)
    BY <1>1, <2>1, <2>2, <2>5
  <2>6. i \in 1 .. Len(s) \/ i = Len(s) + 1
    BY <1>1
  <2>7. j \in 1 .. Len(s) \/ j = Len(s) + 1
    BY <1>1
  <2> QED
    BY <2>3, <2>4, <2>5, <2>6, <2>7
<1>4. FoxAppended(S, s, c, t)
  BY <1>1, <1>2, <1>3 DEF FoxAppended
<1> QED
  BY <1>4 DEF t

LEMMA TailRange ==
    ASSUME NEW S, NEW s \in Seq(S), s # <<>>, FoxOnce(s)
    PROVE  /\ Tail(s) \in Seq(S) /\ Head(s) \in S
           /\ Head(s) \in Fox!Range(s)
           /\ Fox!Range(Tail(s)) = Fox!Range(s) \ {Head(s)}
           /\ FoxOnce(Tail(s))
<1>1. PICK t : t = Tail(s)
  OBVIOUS
<1>2. /\ t \in Seq(S) /\ Len(s) \in Nat /\ Len(s) > 0 /\ DOMAIN s = 1 .. Len(s)
      /\ DOMAIN t = 1 .. Len(s) - 1 /\ Head(s) = s[1] /\ s[1] \in S
      /\ \A i \in 1 .. Len(s) - 1 : t[i] = s[i + 1]
  BY <1>1
<1>3. FoxOnce(t)
  <2>1. SUFFICES ASSUME NEW i \in 1 .. Len(s) - 1, NEW j \in 1 .. Len(s) - 1, i # j
                 PROVE  t[i] # t[j]
    BY <1>2 DEF FoxOnce
  <2>2. i + 1 \in 1 .. Len(s) /\ j + 1 \in 1 .. Len(s) /\ i + 1 # j + 1
    BY <1>2, <2>1
  <2>3. t[i] = s[i + 1] /\ t[j] = s[j + 1]
    BY <1>2
  <2> QED
    BY <1>2, <2>2, <2>3 DEF FoxOnce
<1>4. Fox!Range(t) = Fox!Range(s) \ {s[1]}
  <2>1. \A x : x \in Fox!Range(t) <=> \E i \in 1 .. Len(s) - 1 : x = s[i + 1]
    BY <1>2 DEF Fox!Range
  <2>2. \A x : x \in Fox!Range(s) <=> \E i \in 1 .. Len(s) : x = s[i]
    BY <1>2 DEF Fox!Range
  <2>3. \A i \in 1 .. Len(s) : i # 1 => s[i] # s[1]
    BY <1>2 DEF FoxOnce
  <2>4. ASSUME NEW x \in Fox!Range(t)
        PROVE  x \in Fox!Range(s) /\ x # s[1]
    <3>1. PICK i \in 1 .. Len(s) - 1 : x = s[i + 1]
      BY <2>1
    <3>2. i + 1 \in 1 .. Len(s) /\ i + 1 # 1
      BY <1>2
    <3> QED
      BY <2>2, <2>3, <3>1, <3>2
  <2>5. ASSUME NEW x \in Fox!Range(s), x # s[1]
        PROVE  x \in Fox!Range(t)
    <3>1. PICK i \in 1 .. Len(s) : x = s[i]
      BY <2>2
    <3>2. i - 1 \in 1 .. Len(s) - 1 /\ (i - 1) + 1 = i
      BY <1>2, <2>5, <3>1
    <3> QED
      BY <2>1, <3>1, <3>2
  <2> QED
    BY <2>4, <2>5
<1>5. s[1] \in Fox!Range(s)
  BY <1>2 DEF Fox!Range
<1> QED
  BY <1>1, <1>2, <1>3, <1>4, <1>5

(* deal                                                                      *)
LEMMA FoxDealt ==
    ASSUME NEW pack \in FoxRules.Packs, NEW dealer \in {0, 1}, NEW score \in [{0, 1} -> Nat],
           NEW h \in Fox!Dealt(pack, dealer, score)
    PROVE  FoxHolds(h)
<1>1. PICK d \in Fox!Deals[pack] :
        h = [pack |-> pack, hand |-> [p \in Fox!Players |-> d.hand[p + 1]],
             nHand |-> FoxRules.HandSize,
             fresh |-> d.fresh, bottom |-> <<>>, dealer |-> Fox!Other(dealer),
             leader |-> Fox!Other(dealer), played |-> <<>>, resolving |-> FALSE,
             trump |-> d.trump, score |-> score, tricks |-> [p \in Fox!Players |-> 0],
             ending |-> FALSE, over |-> FALSE, aborted |-> FALSE]
  BY DEF Fox!Dealt
<1>2. PICK a \in Fox!kSubset(FoxRules.HandSize, pack) :
        d \in UNION {{[pack |-> pack, hand |-> <<a, b>>, trump |-> t,
                    fresh |-> pack \ (a \cup b \cup {t})] :
                      t \in pack \ (a \cup b)} :
                  b \in Fox!kSubset(FoxRules.HandSize, pack \ a)}
  BY DEF Fox!Deals
<1>3. PICK b \in Fox!kSubset(FoxRules.HandSize, pack \ a) :
        d \in {[pack |-> pack, hand |-> <<a, b>>, trump |-> t,
                    fresh |-> pack \ (a \cup b \cup {t})] :
                      t \in pack \ (a \cup b)}
  BY <1>2
<1>4. PICK t \in pack \ (a \cup b) :
        d = [pack |-> pack, hand |-> <<a, b>>, trump |-> t, fresh |-> pack \ (a \cup b \cup {t})]
  BY <1>3
<1>5. /\ a \subseteq pack /\ b \subseteq pack \ a
      /\ Cardinality(a) = FoxRules.HandSize /\ Cardinality(b) = FoxRules.HandSize
  BY FoxNumbers DEF Fox!kSubset
<1>6. Fox!Other(dealer) \in {0, 1}
  BY DEF Fox!Other
<1>7. PICK hand \in [{0, 1} -> SUBSET Fox!Cards] : /\ hand = [p \in {0, 1} |-> d.hand[p + 1]]
                                                   /\ hand[0] = a /\ hand[1] = b
  <2>1. d.hand[0 + 1] = a /\ d.hand[1 + 1] = b
    BY <1>4
  <2>2. a \in SUBSET Fox!Cards /\ b \in SUBSET Fox!Cards
    BY <1>5, FoxNumbers
  <2>3. PICK hand : hand = [p \in {0, 1} |-> IF p = 0 THEN a ELSE b]
    OBVIOUS
  <2>4. hand \in [{0, 1} -> SUBSET Fox!Cards] /\ hand[0] = a /\ hand[1] = b
    BY <2>2, <2>3
  <2>5. \A p \in {0, 1} : d.hand[p + 1] = IF p = 0 THEN a ELSE b
    BY <2>1
  <2>6. hand = [p \in {0, 1} |-> d.hand[p + 1]]
    BY <2>3, <2>5
  <2> QED
    BY <2>4, <2>6
<1>8. PICK tricks \in [{0, 1} -> Nat] : tricks = [p \in {0, 1} |-> 0]
  OBVIOUS
<1>9. h = [pack |-> pack, hand |-> hand, nHand |-> FoxRules.HandSize,
             fresh |-> pack \ (a \cup b \cup {t}), bottom |-> <<>>, dealer |-> Fox!Other(dealer),
             leader |-> Fox!Other(dealer), played |-> <<>>, resolving |-> FALSE,
             trump |-> t, score |-> score, tricks |-> tricks,
             ending |-> FALSE, over |-> FALSE, aborted |-> FALSE]
  BY <1>1, <1>4, <1>7, <1>8, FoxNumbers
<1>10. h \in Fox!Table
  <2>1. <<>> \in Seq(Fox!Cards)
    OBVIOUS
  <2>2. t \in Fox!Cards /\ pack \ (a \cup b \cup {t}) \in SUBSET Fox!Cards
    BY FoxNumbers
  <2> QED
    BY <1>6, <1>9, <2>1, <2>2, FoxNumbers DEF Fox!Table
<1>11. PICK q : q = FoxPlaces(h)
  OBVIOUS
<1>12. Fox!Range(<<>>) = {}
  BY DEF Fox!Range
<1>13. /\ q = [k \in 1 .. 6 |-> q[k]]
       /\ q[1] = a /\ q[2] = b /\ q[3] = pack \ (a \cup b \cup {t}) /\ q[4] = {} /\ q[5] = {}
       /\ q[6] = {t}
  <2>1. q = [k \in 1 .. 6 |-> q[k]]
    BY <1>11, FoxPlacesFcn
  <2>2. /\ q[1] = h.hand[0] /\ q[2] = h.hand[1] /\ q[3] = h.fresh
        /\ q[4] = Fox!Range(h.bottom) /\ q[5] = Fox!Range(h.played) /\ q[6] = {h.trump}
    BY <1>11, FoxPlacesAre
  <2>3. /\ h.hand = hand /\ h.fresh = pack \ (a \cup b \cup {t}) /\ h.bottom = <<>>
        /\ h.played = <<>> /\ h.trump = t
    BY <1>9
  <2> QED
    BY <1>7, <1>12, <2>1, <2>2, <2>3
<1>14. \A k \in 1 .. 6 : k = 1 \/ k = 2 \/ k = 3 \/ k = 4 \/ k = 5 \/ k = 6
  OBVIOUS
<1>15. q \in [1 .. 6 -> SUBSET pack]
  <2>1. \A k \in 1 .. 6 : q[k] \in SUBSET pack
    BY <1>5, <1>13, <1>14
  <2> QED
    BY <1>13, <2>1
<1>16. \A i, j \in 1 .. 6 : i # j => q[i] \cap q[j] = {}
  <2>1. SUFFICES ASSUME NEW i \in 1 .. 6, NEW j \in 1 .. 6, i # j, NEW x \in q[i], x \in q[j]
                 PROVE  FALSE
    OBVIOUS
  <2>2. \A k \in 1 .. 6 : x \in q[k] =>
            k = IF x \in a THEN 1 ELSE IF x \in b THEN 2 ELSE IF x = t THEN 6 ELSE 3
    BY <1>5, <1>13, <1>14
  <2> QED
    BY <2>1, <2>2
<1>17. FoxParted(pack, q, 0)
  <2>1. IsFiniteSet(pack)
    BY FoxNumbers
  <2>2. q[4] = {}
    BY <1>13
  <2>3. q[5] = {}
    BY <1>13
  <2>4. q[3] = pack \ (q[1] \cup q[2] \cup q[6])
    BY <1>13
  <2> QED
    BY <1>15, <1>16, <2>1, <2>2, <2>3, <2>4, FoxDeal
<1>18. FoxLost(h) = 0
  BY <1>8, <1>9 DEF FoxLost
<1>19. FoxBody(h)
  <2>1. Cardinality(Fox!Range(<<>>)) = Len(<<>>)
    BY <1>12, FS_EmptySet
  <2>2. FoxOnce(<<>>)
    BY DEF FoxOnce
  <2>3. h.pack = pack /\ FoxParted(h.pack, FoxPlaces(h), FoxLost(h))
    BY <1>9, <1>11, <1>17, <1>18
  <2> QED
    BY <1>8, <1>9, <1>10, <2>1, <2>2, <2>3, FoxNumbers DEF FoxBody
<1>20. FoxCounted(h) /\ FoxAsked(h)
  <2>1. Len(h.played) = 0 /\ ~h.resolving /\ h.nHand = FoxRules.HandSize /\ h.hand = hand
    BY <1>9
  <2> QED
    BY <1>5, <1>7, <2>1, FoxNumbers DEF FoxCounted, FoxAsked, FoxOwed
<1> QED
  BY <1>9, <1>10, <1>19, <1>20 DEF FoxHolds

(* end_card_play: the follower is asked, or the trick is over.               *)
LEMMA FoxTrick ==
    ASSUME NEW g \in Fox!Table
    PROVE  Fox!Trick(g) \in {0, 1}
<1>1. g.leader \in {0, 1} /\ Fox!Other(g.leader) \in {0, 1}
  BY FoxNumbers DEF Fox!Table, Fox!Other
<1> QED
  BY <1>1 DEF Fox!Trick

LEMMA FoxSevens ==
    ASSUME NEW g
    PROVE  Fox!Cardinality({i \in {1, 2} : Fox!Value(g.played[i]) = Fox!Point}) \in Nat
<1>1. IsFiniteSet({1, 2})
  <2>1. IsFiniteSet({1})
    BY FS_Singleton
  <2>2. IsFiniteSet({1} \cup {2}) /\ {1} \cup {2} = {1, 2}
    BY <2>1, FS_AddElement
  <2> QED
    BY <2>2
<1>2. PICK S \in SUBSET {1, 2} : S = {i \in {1, 2} : Fox!Value(g.played[i]) = Fox!Point}
  OBVIOUS
<1>3. IsFiniteSet(S)
  BY <1>1, FS_Subset
<1>4. Cardinality(S) \in Nat
  BY <1>3, FS_CardinalityType
<1> QED
  BY <1>2, <1>4, FoxNumbers

LEMMA FoxPoints ==
    \A n \in Nat : Fox!PointsForTricks(n) \in Nat
<1>1. SUFFICES ASSUME NEW n \in Nat
               PROVE  Fox!PointsForTricks(n) \in Nat
  OBVIOUS
<1>2. n <= 3 \/ n \in 4 .. 6 \/ n \in 7 .. 9 \/ n > 9
  OBVIOUS
<1>3. CASE n <= 3
  BY <1>3 DEF Fox!PointsForTricks
<1>4. CASE n \in 4 .. 6
  BY <1>4 DEF Fox!PointsForTricks
<1>5. CASE n \in 7 .. 9
  BY <1>5 DEF Fox!PointsForTricks
<1>6. CASE n > 9
  BY <1>6 DEF Fox!PointsForTricks
<1> QED
  BY <1>2, <1>3, <1>4, <1>5, <1>6

LEMMA FoxTrickEnds ==
    ASSUME NEW g, FoxBody(g), FoxCounted(g), ~g.resolving, Len(g.played) \in {1, 2},
           NEW h \in Fox!EndCardPlay(g)
    PROVE  FoxHolds(h)
<1>1. g \in Fox!Table /\ ~g.ending /\ ~g.over /\ ~g.aborted /\ g.nHand \in Nat /\ g.nHand > 0
  BY DEF FoxBody, Fox!Table
<1>2. CASE Len(g.played) < 2
  <2>1. h = g
    BY <1>2 DEF Fox!EndCardPlay
  <2> QED
    BY <1>1, <1>2, <2>1 DEF FoxHolds, FoxAsked
<1>3. CASE ~(Len(g.played) < 2)
  <2>1. Len(g.played) = 2
    <3>1. Len(g.played) = 1 \/ Len(g.played) = 2
      OBVIOUS
    <3>2. Len(g.played) # 1
      <4>1. SUFFICES ASSUME Len(g.played) = 1
                     PROVE  FALSE
        OBVIOUS
      <4>2. 1 < 2
        OBVIOUS
      <4>3. Len(g.played) < 2
        BY <4>1, <4>2, Zenon
      <4> QED
        BY <1>3, <4>3
    <3> QED
      BY <3>1, <3>2
  <2>2. PICK winner \in {0, 1} : winner = Fox!Trick(g)
    BY <1>1, FoxTrick
  <2>3. PICK sevens \in Nat :
           sevens = Fox!Cardinality({i \in {1, 2} : Fox!Value(g.played[i]) = Fox!Point})
    BY FoxSevens
  <2>4. PICK leader \in {0, 1} :
           leader = IF Fox!Value(g.played[IF winner = g.leader THEN 2 ELSE 1]) = Fox!LoseButLead
                    THEN Fox!Other(winner) ELSE winner
    BY DEF Fox!Other
  <2>5. h \in Fox!StartRound([g EXCEPT
              !.tricks[winner] = @ + 1, !.score[winner] = @ + sevens,
              !.leader = leader, !.nHand = @ - 1])
    BY <1>3, <2>2, <2>3, <2>4 DEF Fox!EndCardPlay
  <2>6. g.tricks \in [{0, 1} -> Nat] /\ g.score \in [{0, 1} -> Nat]
    BY <1>1, FoxNumbers DEF Fox!Table
  <2>7. PICK tricks \in [{0, 1} -> Nat] :
           /\ tricks = [g.tricks EXCEPT ![winner] = @ + 1]
           /\ tricks[0] + tricks[1] = g.tricks[0] + g.tricks[1] + 1
    <3>1. PICK tricks : tricks = [g.tricks EXCEPT ![winner] = @ + 1]
      OBVIOUS
    <3>2. tricks \in [{0, 1} -> Nat] /\ tricks[0] + tricks[1] = g.tricks[0] + g.tricks[1] + 1
      BY <2>6, <3>1
    <3> QED
      BY <3>1, <3>2
  <2>8. PICK score \in [{0, 1} -> Nat] : score = [g.score EXCEPT ![winner] = @ + sevens]
    <3>1. g.score[winner] + sevens \in Nat
      BY <2>6
    <3>2. [g.score EXCEPT ![winner] = g.score[winner] + sevens] \in [{0, 1} -> Nat]
      BY <2>6, <3>1
    <3> QED
      BY <3>2
  <2>9. PICK e : e = [g EXCEPT !.tricks = tricks, !.score = score, !.leader = leader,
                                !.nHand = g.nHand - 1]
    OBVIOUS
  <2>10. h \in Fox!StartRound(e)
    BY <2>5, <2>7, <2>8, <2>9
  <2>11. /\ e \in Fox!Table /\ e.tricks = tricks /\ e.score = score /\ e.nHand = g.nHand - 1
         /\ e.pack = g.pack /\ e.hand = g.hand /\ e.fresh = g.fresh /\ e.bottom = g.bottom
         /\ e.played = g.played /\ e.resolving = g.resolving /\ e.trump = g.trump
         /\ e.ending = g.ending /\ e.over = g.over /\ e.aborted = g.aborted
         /\ e.dealer = g.dealer
    <3>1. PICK n \in Nat : n = g.nHand - 1
      BY <1>1
    <3>2. e = [g EXCEPT !.tricks = tricks, !.score = score, !.leader = leader, !.nHand = n]
      BY <2>9, <3>1
    <3>3. e \in Fox!Table
      BY <1>1, <3>2, FoxNumbers DEF Fox!Table
    <3> QED
      BY <1>1, <3>1, <3>2, <3>3 DEF Fox!Table
  <2>12. CASE e.nHand > 0
    <3>1. h = [e EXCEPT !.played = <<>>]
      BY <2>10, <2>12 DEF Fox!StartRound
    <3>2. /\ h \in Fox!Table /\ h.tricks = tricks /\ h.nHand = g.nHand - 1
          /\ h.pack = g.pack /\ h.hand = g.hand /\ h.fresh = g.fresh /\ h.bottom = g.bottom
          /\ h.played = <<>> /\ ~h.resolving /\ h.trump = g.trump
          /\ ~h.ending /\ ~h.over /\ ~h.aborted
      <4>1. <<>> \in Seq(Fox!Cards)
        OBVIOUS
      <4>2. h \in Fox!Table
        BY <2>11, <3>1, <4>1 DEF Fox!Table
      <4> QED
        BY <1>1, <2>11, <3>1, <4>2 DEF Fox!Table
    <3>3. PICK q : q = FoxPlaces(g)
      OBVIOUS
    <3>4. PICK r : r = FoxEmptied(q, 5)
      OBVIOUS
    <3>5. Fox!Range(<<>>) = {}
      BY DEF Fox!Range
    <3>6. r = FoxPlaces(h)
      <4>1. r = [k \in 1 .. 6 |-> r[k]]
        BY <3>4, FoxPlacesFcn
      <4>2. PICK s : s = FoxPlaces(h)
        OBVIOUS
      <4>3. s = [k \in 1 .. 6 |-> s[k]]
        BY <4>2, FoxPlacesFcn
      <4>4. /\ s[1] = h.hand[0] /\ s[2] = h.hand[1] /\ s[3] = h.fresh
            /\ s[4] = Fox!Range(h.bottom) /\ s[5] = Fox!Range(h.played) /\ s[6] = {h.trump}
        BY <4>2, FoxPlacesAre
      <4>5. /\ q[1] = g.hand[0] /\ q[2] = g.hand[1] /\ q[3] = g.fresh
            /\ q[4] = Fox!Range(g.bottom) /\ q[6] = {g.trump}
        BY <3>3, FoxPlacesAre
      <4>6. r[1] = q[1] /\ r[2] = q[2] /\ r[3] = q[3] /\ r[4] = q[4] /\ r[5] = {} /\ r[6] = q[6]
        BY <3>4 DEF FoxEmptied
      <4>7. r[1] = s[1] /\ r[2] = s[2] /\ r[3] = s[3] /\ r[4] = s[4] /\ r[5] = s[5] /\ r[6] = s[6]
        BY <3>2, <3>5, <4>4, <4>5, <4>6
      <4>8. r = s
        BY <4>1, <4>3, <4>7, FoxSamePlaces
      <4> QED
        BY <4>2, <4>8
    <3>7. FoxParted(g.pack, r, FoxLost(h))
      <4>1. IsFiniteSet(g.pack)
        BY <1>1, FoxNumbers DEF Fox!Table
      <4>2. FoxParted(g.pack, q, FoxLost(g))
        BY <3>3 DEF FoxBody
      <4>3. FoxParted(g.pack, r, FoxLost(g) + Cardinality(q[5]))
        <5>1. 5 \in 1 .. 6
          OBVIOUS
        <5> QED
          BY <3>4, <4>1, <4>2, <5>1, FoxEmpty
      <4>4. Cardinality(q[5]) = 2
        BY <2>1, <3>3, FoxPlacesAre DEF FoxBody
      <4>5. FoxLost(h) = FoxLost(g) + 2
        BY <2>6, <2>7, <3>2 DEF FoxLost
      <4> QED
        BY <4>3, <4>4, <4>5
    <3>8. FoxBody(h)
      <4>1. Cardinality(Fox!Range(<<>>)) = Len(<<>>)
        BY <3>5, FS_EmptySet
      <4>2. FoxOnce(g.bottom)
        BY DEF FoxBody
      <4>3. h.nHand + h.tricks[0] + h.tricks[1] = FoxRules.HandSize
        <5>1. g.nHand + g.tricks[0] + g.tricks[1] = FoxRules.HandSize
          BY DEF FoxBody
        <5>2. PICK n, a, b, c, d \in Int :
                /\ n = g.nHand /\ a = g.tricks[0] /\ b = g.tricks[1]
                /\ c = tricks[0] /\ d = tricks[1]
          BY <1>1, <2>6
        <5>3. n + a + b = FoxRules.HandSize /\ c + d = a + b + 1
          BY <2>7, <5>1, <5>2
        <5>4. (n - 1) + c + d = FoxRules.HandSize
          BY <5>3
        <5> QED
          BY <3>2, <5>2, <5>4
      <4> QED
        BY <2>11, <2>12, <3>2, <3>6, <3>7, <4>1, <4>2, <4>3 DEF FoxBody
    <3>9. FoxCounted(h) /\ FoxAsked(h)
      <4>1. \A p \in {0, 1} : Cardinality(g.hand[p]) = g.nHand - 1
        BY <1>1, <2>1 DEF FoxCounted, FoxOwed
      <4>2. Len(h.played) = 0
        BY <3>2
      <4> QED
        BY <1>1, <3>2, <4>1, <4>2 DEF FoxCounted, FoxAsked, FoxOwed
    <3> QED
      BY <3>2, <3>8, <3>9 DEF FoxHolds
  <2>13. CASE ~(e.nHand > 0)
    <3>1. PICK total : total = [p \in Fox!Players |->
                                e.score[p] + Fox!PointsForTricks(e.tricks[p])]
      OBVIOUS
    <3>2. total \in [{0, 1} -> Nat]
      BY <2>11, <3>1, FoxNumbers, FoxPoints
    <3>3. h \in (IF \E p \in Fox!Players : total[p] >= FoxRules.EndPoints
                THEN {[e EXCEPT !.score = total, !.ending = TRUE,
                                !.tricks = [p \in Fox!Players |-> 0]]}
                ELSE Fox!Dealt(e.pack, e.dealer, total))
      BY <2>10, <2>13, <3>1 DEF Fox!StartRound
    <3>4. CASE h \in Fox!Dealt(e.pack, e.dealer, total)
      <4>1. e.pack \in FoxRules.Packs /\ e.dealer \in {0, 1}
        BY <2>11, FoxNumbers DEF Fox!Table
      <4> QED
        BY <3>2, <3>4, <4>1, FoxDealt
    <3>5. CASE h = [e EXCEPT !.score = total, !.ending = TRUE,
                                !.tricks = [p \in Fox!Players |-> 0]]
      <4>1. PICK none \in [Fox!Players -> Nat] : none = [p \in Fox!Players |-> 0]
        OBVIOUS
      <4>2. h \in Fox!Table /\ h.ending /\ h.played = e.played /\ h.resolving = e.resolving
        BY <2>11, <3>2, <3>5, <4>1, FoxNumbers DEF Fox!Table
      <4> QED
        BY <2>1, <2>11, <4>2 DEF FoxHolds
    <3> QED
      BY <3>3, <3>4, <3>5
  <2> QED
    BY <2>12, <2>13
<1> QED
  BY <1>2, <1>3

--------------------------------------------------------------------------
(* Fox: cards that are played, drawn, put under the deck and exchanged *)

LEMMA FoxHandPlace ==
    ASSUME NEW g, NEW p \in {0, 1}
    PROVE  FoxPlaces(g)[p + 1] = g.hand[p]
<1>1. CASE p = 0
  BY <1>1, FoxPlacesAre
<1>2. CASE p = 1
  BY <1>2, FoxPlacesAre
<1> QED
  BY <1>1, <1>2

\* The places of the other player and of the cards.
FoxOther(g, e, p) == e.hand[1 - p] = g.hand[1 - p]
FoxThirdTo(g, e, k) == FoxPlaces(e)[k] = FoxPlaces(g)[k]

LEMMA FoxOtherPlaces ==
    ASSUME NEW g, NEW e, NEW p \in {0, 1}, FoxOther(g, e, p),
           NEW k \in 1 .. 6
    PROVE  k = p + 1 \/ k \in 3 .. 6 \/ FoxThirdTo(g, e, k)
<1> SUFFICES ASSUME k # p + 1, ~(k \in 3 .. 6)
             PROVE  FoxPlaces(e)[k] = FoxPlaces(g)[k]
  BY DEF FoxThirdTo
<1> USE DEF FoxOther
<1>1. (p = 0 /\ k = 2) \/ (p = 1 /\ k = 1)
  OBVIOUS
<1>2. CASE p = 0 /\ k = 2
  <2>1. e.hand[1] = g.hand[1]
    BY <1>2
  <2> QED
    BY <1>2, <2>1, FoxPlacesAre
<1>3. CASE p = 1 /\ k = 1
  <2>1. e.hand[0] = g.hand[0]
    BY <1>3
  <2> QED
    BY <1>3, <2>1, FoxPlacesAre
<1> QED
  BY <1>1, <1>2, <1>3

FoxShifted(q, r, i, j, c) ==
    /\ c \in q[i] /\ i # j
    /\ r[i] = q[i] \ {c} /\ r[j] = q[j] \cup {c}
    /\ \A k \in 1 .. 6 : k # i /\ k # j => r[k] = q[k]

FoxShiftDone(g, e, i, j) ==
    /\ FoxParted(e.pack, FoxPlaces(e), FoxLost(e))
    /\ Cardinality(FoxPlaces(e)[i]) = Cardinality(FoxPlaces(g)[i]) - 1
    /\ Cardinality(FoxPlaces(e)[j]) = Cardinality(FoxPlaces(g)[j]) + 1
    /\ Cardinality(FoxPlaces(g)[i]) \in Nat /\ Cardinality(FoxPlaces(g)[j]) \in Nat

LEMMA FoxShift ==
    ASSUME NEW g, FoxBody(g), NEW e, e.pack = g.pack, e.tricks = g.tricks,
           NEW i \in 1 .. 6, NEW j \in 1 .. 6, NEW c,
           FoxShifted(FoxPlaces(g), FoxPlaces(e), i, j, c)
    PROVE  FoxShiftDone(g, e, i, j)
<1>1. PICK q : q = FoxPlaces(g)
  OBVIOUS
<1>2. PICK r : r = FoxPlaces(e)
  OBVIOUS
<1>3. r = FoxMoved(q, i, j, c)
  <2>1. PICK s : s = FoxMoved(q, i, j, c)
    OBVIOUS
  <2>2. r = [k \in 1 .. 6 |-> r[k]] /\ s = [k \in 1 .. 6 |-> s[k]]
    BY <1>2, <2>1, FoxPlacesFcn
  <2>3. \A k \in 1 .. 6 : r[k] = s[k]
    BY <1>1, <1>2, <2>1 DEF FoxShifted, FoxMoved
  <2> QED
    BY <2>1, <2>2, <2>3
<1>4. IsFiniteSet(g.pack)
  BY FoxNumbers DEF FoxBody, Fox!Table
<1>5. FoxParted(g.pack, q, FoxLost(g))
  BY <1>1 DEF FoxBody
<1>6. c \in q[i] /\ i # j
  BY <1>1 DEF FoxShifted
<1>7. /\ FoxParted(g.pack, r, FoxLost(g))
      /\ Cardinality(r[i]) = Cardinality(q[i]) - 1
      /\ Cardinality(r[j]) = Cardinality(q[j]) + 1
      /\ Cardinality(q[i]) \in Nat /\ Cardinality(q[j]) \in Nat
  BY <1>3, <1>4, <1>5, <1>6, FoxMove, SMTT(30)
<1>8. FoxLost(e) = FoxLost(g)
  BY DEF FoxLost
<1> QED
  BY <1>1, <1>2, <1>7, <1>8 DEF FoxShiftDone

\* The hands when one of them has changed.
FoxHands(g, e, p) ==
    /\ Cardinality(g.hand[p]) \in Nat
    /\ e.hand[1 - p] = g.hand[1 - p]
    /\ e.nHand = g.nHand /\ e.leader = g.leader

FoxCardPlayed(g, e, p, card, v) ==
    /\ FoxBody(e) /\ FoxHands(g, e, p)
    /\ Cardinality(e.hand[p]) = Cardinality(g.hand[p]) - 1
    /\ Len(e.played) = Len(g.played) + 1 /\ e.played[Len(e.played)] = card
    /\ e.resolving = v /\ e.fresh = g.fresh /\ e.bottom = g.bottom

LEMMA FoxPlays ==
    ASSUME NEW g, FoxBody(g), NEW p \in {0, 1}, NEW card \in g.hand[p], NEW v \in BOOLEAN,
           NEW e, e = [g EXCEPT !.hand[p] = @ \ {card}, !.played = Append(@, card),
                                !.resolving = v]
    PROVE  FoxCardPlayed(g, e, p, card, v)
<1>1. g \in Fox!Table /\ ~g.ending /\ ~g.over /\ ~g.aborted /\ g.nHand \in Nat /\ g.nHand > 0
  BY DEF FoxBody, Fox!Table
<1>2. g.hand \in [{0, 1} -> SUBSET Fox!Cards] /\ g.played \in Seq(Fox!Cards)
  BY <1>1, FoxNumbers DEF Fox!Table
<1>3. PICK hand : hand = [g.hand EXCEPT ![p] = @ \ {card}]
  OBVIOUS
<1>4. /\ hand \in [{0, 1} -> SUBSET Fox!Cards]
      /\ hand[p] = g.hand[p] \ {card} /\ hand[1 - p] = g.hand[1 - p]
  BY <1>2, <1>3
<1>5. PICK played : played = Append(g.played, card)
  OBVIOUS
<1>6. card \in Fox!Cards
  BY <1>2
<1>7. /\ played \in Seq(Fox!Cards) /\ Len(played) = Len(g.played) + 1
      /\ played[Len(played)] = card
      /\ Fox!Range(played) = Fox!Range(g.played) \cup {card}
  <2>1. FoxAppended(Fox!Cards, g.played, card, played)
    BY <1>2, <1>5, <1>6, AppendRange
  <2> QED
    BY <2>1 DEF FoxAppended
<1>8. e = [g EXCEPT !.hand = hand, !.played = played, !.resolving = v]
  BY <1>3, <1>5
<1>9. /\ e \in Fox!Table /\ e.hand = hand /\ e.played = played /\ e.resolving = v
      /\ e.pack = g.pack /\ e.fresh = g.fresh /\ e.bottom = g.bottom
      /\ e.trump = g.trump /\ e.nHand = g.nHand /\ e.leader = g.leader /\ e.tricks = g.tricks
      /\ e.ending = g.ending /\ e.over = g.over /\ e.aborted = g.aborted
  <2>1. e \in Fox!Table
    BY <1>1, <1>4, <1>7, <1>8, FoxNumbers, ZenonT(30) DEF Fox!Table
  <2>2. /\ e.hand = hand /\ e.played = played /\ e.resolving = v
        /\ e.pack = g.pack /\ e.fresh = g.fresh /\ e.bottom = g.bottom
        /\ e.trump = g.trump /\ e.nHand = g.nHand /\ e.leader = g.leader /\ e.tricks = g.tricks
        /\ e.ending = g.ending /\ e.over = g.over /\ e.aborted = g.aborted
    BY <1>1, <1>8 DEF Fox!Table
  <2> QED
    BY <2>1, <2>2
<1>10. PICK i \in 1 .. 6 : i = p + 1
  OBVIOUS
<1>11. card \in FoxPlaces(g)[i] /\ FoxPlaces(g)[i] = g.hand[p] /\ FoxPlaces(e)[i] = hand[p]
  BY <1>9, <1>10, FoxHandPlace
<1>13. i # 5 /\ 5 \in 1 .. 6
  BY <1>10
<1>12. FoxShifted(FoxPlaces(g), FoxPlaces(e), i, 5, card)
  <2>1. /\ FoxPlaces(e)[3] = FoxPlaces(g)[3] /\ FoxPlaces(e)[4] = FoxPlaces(g)[4]
        /\ FoxPlaces(e)[6] = FoxPlaces(g)[6]
        /\ FoxPlaces(e)[5] = FoxPlaces(g)[5] \cup {card}
    <3>1. /\ FoxPlaces(e)[3] = e.fresh /\ FoxPlaces(e)[4] = Fox!Range(e.bottom)
          /\ FoxPlaces(e)[5] = Fox!Range(e.played) /\ FoxPlaces(e)[6] = {e.trump}
      BY FoxPlacesAre
    <3>2. /\ FoxPlaces(g)[3] = g.fresh /\ FoxPlaces(g)[4] = Fox!Range(g.bottom)
          /\ FoxPlaces(g)[5] = Fox!Range(g.played) /\ FoxPlaces(g)[6] = {g.trump}
      BY FoxPlacesAre
    <3> QED
      BY <1>7, <1>9, <3>1, <3>2, ZenonT(30)
  <2>2. ASSUME NEW k \in 1 .. 6, k # i, k # 5
        PROVE  FoxPlaces(e)[k] = FoxPlaces(g)[k]
    <3>1. CASE k \in 3 .. 6
      BY <2>1, <2>2, <3>1
    <3>2. CASE ~(k \in 3 .. 6)
      <4>1. FoxOther(g, e, p)
        BY <1>4, <1>9, <1>10 DEF FoxOther
      <4>2. k = p + 1 \/ k \in 3 .. 6 \/ FoxThirdTo(g, e, k)
        BY <4>1, FoxOtherPlaces
      <4>3. k # p + 1
        BY <1>4, <1>9, <1>10, <2>2
      <4> QED
        BY <3>2, <4>2, <4>3 DEF FoxThirdTo
    <3> QED
      BY <3>1, <3>2
  <2> QED
    BY <1>4, <1>11, <1>13, <2>1, <2>2 DEF FoxShifted
<1>14. /\ FoxParted(e.pack, FoxPlaces(e), FoxLost(e))
       /\ Cardinality(FoxPlaces(e)[i]) = Cardinality(FoxPlaces(g)[i]) - 1
       /\ Cardinality(FoxPlaces(e)[5]) = Cardinality(FoxPlaces(g)[5]) + 1
       /\ Cardinality(FoxPlaces(g)[i]) \in Nat /\ Cardinality(FoxPlaces(g)[5]) \in Nat
  <2>1. e.pack = g.pack /\ e.tricks = g.tricks
    BY <1>9
  <2>2. PICK j \in 1 .. 6 : j = 5
    OBVIOUS
  <2>3. FoxShifted(FoxPlaces(g), FoxPlaces(e), i, j, card)
    BY <1>12, <2>2
  <2>4. FoxShiftDone(g, e, i, j)
    BY <2>1, <2>3, FoxShift
  <2> QED
    BY <2>2, <2>4 DEF FoxShiftDone
<1>15. Cardinality(Fox!Range(e.played)) = Len(e.played)
  <2>1. FoxPlaces(e)[5] = Fox!Range(e.played) /\ FoxPlaces(g)[5] = Fox!Range(g.played)
    BY FoxPlacesAre
  <2>2. Cardinality(Fox!Range(g.played)) = Len(g.played)
    BY DEF FoxBody
  <2> QED
    BY <1>7, <1>9, <1>14, <2>1, <2>2
<1>16. FoxBody(e)
  BY <1>1, <1>9, <1>14, <1>15 DEF FoxBody
<1> QED
  BY <1>4, <1>7, <1>9, <1>11, <1>14, <1>16 DEF FoxCardPlayed, FoxHands

\* A hand with another card, and what is the same.
FoxCardDrawn(g, e, p) ==
    /\ FoxBody(e) /\ FoxHands(g, e, p)
    /\ Cardinality(e.hand[p]) = Cardinality(g.hand[p]) + 1
    /\ e.played = g.played /\ e.resolving = g.resolving

LEMMA FoxDraws ==
    ASSUME NEW g, FoxBody(g), NEW p \in {0, 1}, NEW c \in g.fresh,
           NEW e, e = [g EXCEPT !.fresh = @ \ {c}, !.hand[p] = @ \cup {c}]
    PROVE  FoxCardDrawn(g, e, p)
<1>1. g \in Fox!Table /\ ~g.ending /\ ~g.over /\ ~g.aborted /\ g.nHand \in Nat /\ g.nHand > 0
  BY DEF FoxBody, Fox!Table
<1>2. g.hand \in [{0, 1} -> SUBSET Fox!Cards] /\ g.fresh \in SUBSET Fox!Cards
  BY <1>1, FoxNumbers DEF Fox!Table
<1>3. PICK hand : hand = [g.hand EXCEPT ![p] = @ \cup {c}]
  OBVIOUS
<1>4. /\ hand \in [{0, 1} -> SUBSET Fox!Cards]
      /\ hand[p] = g.hand[p] \cup {c} /\ hand[1 - p] = g.hand[1 - p]
  BY <1>2, <1>3
<1>5. PICK fresh \in SUBSET Fox!Cards : fresh = g.fresh \ {c}
  BY <1>2
<1>6. e = [g EXCEPT !.fresh = fresh, !.hand = hand]
  BY <1>3, <1>5
<1>7. /\ e \in Fox!Table /\ e.hand = hand /\ e.fresh = fresh
      /\ e.pack = g.pack /\ e.played = g.played /\ e.bottom = g.bottom
      /\ e.trump = g.trump /\ e.nHand = g.nHand /\ e.leader = g.leader /\ e.tricks = g.tricks
      /\ e.ending = g.ending /\ e.over = g.over /\ e.aborted = g.aborted
      /\ e.resolving = g.resolving
  <2>1. e \in Fox!Table
    BY <1>1, <1>4, <1>6, FoxNumbers, ZenonT(30) DEF Fox!Table
  <2>2. /\ e.hand = hand /\ e.fresh = fresh
        /\ e.pack = g.pack /\ e.played = g.played /\ e.bottom = g.bottom
        /\ e.trump = g.trump /\ e.nHand = g.nHand /\ e.leader = g.leader /\ e.tricks = g.tricks
        /\ e.ending = g.ending /\ e.over = g.over /\ e.aborted = g.aborted
        /\ e.resolving = g.resolving
    BY <1>1, <1>6 DEF Fox!Table
  <2> QED
    BY <2>1, <2>2
<1>8. PICK i \in 1 .. 6 : i = p + 1
  OBVIOUS
<1>9. /\ c \in FoxPlaces(g)[3] /\ FoxPlaces(g)[i] = g.hand[p] /\ FoxPlaces(e)[i] = hand[p]
      /\ i # 3 /\ 3 \in 1 .. 6
  <2>1. FoxPlaces(g)[i] = g.hand[p] /\ FoxPlaces(e)[i] = e.hand[p]
    BY <1>8, FoxHandPlace
  <2>2. FoxPlaces(g)[3] = g.fresh
    BY FoxPlacesAre
  <2>3. c \in FoxPlaces(g)[3]
    BY <2>2
  <2>4. i # 3 /\ 3 \in 1 .. 6
    BY <1>8
  <2> QED
    BY <1>7, <2>1, <2>3, <2>4
<1>10. FoxShifted(FoxPlaces(g), FoxPlaces(e), 3, i, c)
  <2>1. /\ FoxPlaces(e)[3] = FoxPlaces(g)[3] \ {c} /\ FoxPlaces(e)[4] = FoxPlaces(g)[4]
        /\ FoxPlaces(e)[5] = FoxPlaces(g)[5] /\ FoxPlaces(e)[6] = FoxPlaces(g)[6]
    <3>1. /\ FoxPlaces(e)[3] = e.fresh /\ FoxPlaces(e)[4] = Fox!Range(e.bottom)
          /\ FoxPlaces(e)[5] = Fox!Range(e.played) /\ FoxPlaces(e)[6] = {e.trump}
      BY FoxPlacesAre
    <3>2. /\ FoxPlaces(g)[3] = g.fresh /\ FoxPlaces(g)[4] = Fox!Range(g.bottom)
          /\ FoxPlaces(g)[5] = Fox!Range(g.played) /\ FoxPlaces(g)[6] = {g.trump}
      BY FoxPlacesAre
    <3> QED
      BY <1>5, <1>7, <3>1, <3>2
  <2>2. ASSUME NEW k \in 1 .. 6, k # i, k # 3
        PROVE  FoxPlaces(e)[k] = FoxPlaces(g)[k]
    <3>1. CASE k \in 3 .. 6
      BY <2>1, <2>2, <3>1
    <3>2. CASE ~(k \in 3 .. 6)
      <4>1. FoxOther(g, e, p)
        BY <1>4, <1>7, <1>8 DEF FoxOther
      <4>2. k = p + 1 \/ k \in 3 .. 6 \/ FoxThirdTo(g, e, k)
        BY <4>1, FoxOtherPlaces
      <4>3. k # p + 1
        BY <1>4, <1>7, <1>8, <2>2
      <4> QED
        BY <3>2, <4>2, <4>3 DEF FoxThirdTo
    <3> QED
      BY <3>1, <3>2
  <2> QED
    BY <1>4, <1>9, <2>1, <2>2 DEF FoxShifted
<1>11. /\ FoxParted(e.pack, FoxPlaces(e), FoxLost(e))
       /\ Cardinality(FoxPlaces(e)[i]) = Cardinality(FoxPlaces(g)[i]) + 1
       /\ Cardinality(FoxPlaces(g)[i]) \in Nat
  <2>1. e.pack = g.pack /\ e.tricks = g.tricks
    BY <1>7
  <2>2. 3 \in 1 .. 6
    OBVIOUS
  <2>3. FoxShiftDone(g, e, 3, i)
    BY <1>10, <2>1, <2>2, FoxShift
  <2> QED
    BY <2>3 DEF FoxShiftDone
<1>12. FoxBody(e)
  BY <1>1, <1>7, <1>11 DEF FoxBody
<1> QED
  BY <1>4, <1>7, <1>9, <1>11, <1>12 DEF FoxCardDrawn, FoxHands

LEMMA FoxDrawsBottom ==
    ASSUME NEW g, FoxBody(g), NEW p \in {0, 1}, g.bottom # <<>>,
           NEW e, e = [g EXCEPT !.bottom = Tail(@), !.hand[p] = @ \cup {Head(g.bottom)}]
    PROVE  FoxCardDrawn(g, e, p)
<1>1. g \in Fox!Table /\ ~g.ending /\ ~g.over /\ ~g.aborted /\ g.nHand \in Nat /\ g.nHand > 0
  BY DEF FoxBody, Fox!Table
<1>2. g.hand \in [{0, 1} -> SUBSET Fox!Cards] /\ g.bottom \in Seq(Fox!Cards)
  BY <1>1, FoxNumbers DEF Fox!Table
<1>3. PICK c : c = Head(g.bottom)
  OBVIOUS
<1>4. PICK bottom : bottom = Tail(g.bottom)
  OBVIOUS
<1>5. /\ bottom \in Seq(Fox!Cards) /\ c \in Fox!Cards /\ c \in Fox!Range(g.bottom)
      /\ Fox!Range(bottom) = Fox!Range(g.bottom) \ {c} /\ FoxOnce(bottom)
  <2>1. FoxOnce(g.bottom)
    BY DEF FoxBody
  <2> QED
    BY <1>2, <1>3, <1>4, <2>1, TailRange
<1>6. PICK hand : hand = [g.hand EXCEPT ![p] = @ \cup {c}]
  OBVIOUS
<1>7. /\ hand \in [{0, 1} -> SUBSET Fox!Cards]
      /\ hand[p] = g.hand[p] \cup {c} /\ hand[1 - p] = g.hand[1 - p]
  BY <1>2, <1>5, <1>6
<1>8. e = [g EXCEPT !.bottom = bottom, !.hand = hand]
  BY <1>3, <1>4, <1>6
<1>9. /\ e \in Fox!Table /\ e.hand = hand /\ e.bottom = bottom
      /\ e.pack = g.pack /\ e.played = g.played /\ e.fresh = g.fresh
      /\ e.trump = g.trump /\ e.nHand = g.nHand /\ e.leader = g.leader /\ e.tricks = g.tricks
      /\ e.ending = g.ending /\ e.over = g.over /\ e.aborted = g.aborted
      /\ e.resolving = g.resolving
  <2>1. e \in Fox!Table
    BY <1>1, <1>5, <1>7, <1>8, FoxNumbers, ZenonT(30) DEF Fox!Table
  <2>2. /\ e.hand = hand /\ e.bottom = bottom
        /\ e.pack = g.pack /\ e.played = g.played /\ e.fresh = g.fresh
        /\ e.trump = g.trump /\ e.nHand = g.nHand /\ e.leader = g.leader /\ e.tricks = g.tricks
        /\ e.ending = g.ending /\ e.over = g.over /\ e.aborted = g.aborted
        /\ e.resolving = g.resolving
    BY <1>1, <1>8 DEF Fox!Table
  <2> QED
    BY <2>1, <2>2
<1>10. PICK i \in 1 .. 6 : i = p + 1
  OBVIOUS
<1>11. /\ c \in FoxPlaces(g)[4] /\ FoxPlaces(g)[i] = g.hand[p] /\ FoxPlaces(e)[i] = hand[p]
       /\ i # 4 /\ 4 \in 1 .. 6
  <2>1. FoxPlaces(g)[i] = g.hand[p] /\ FoxPlaces(e)[i] = e.hand[p]
    BY <1>10, FoxHandPlace
  <2>2. FoxPlaces(g)[4] = Fox!Range(g.bottom)
    BY FoxPlacesAre
  <2>3. c \in FoxPlaces(g)[4]
    BY <1>5, <2>2
  <2>4. i # 4 /\ 4 \in 1 .. 6
    BY <1>10
  <2> QED
    BY <1>9, <2>1, <2>3, <2>4
<1>12. FoxShifted(FoxPlaces(g), FoxPlaces(e), 4, i, c)
  <2>1. /\ FoxPlaces(e)[4] = FoxPlaces(g)[4] \ {c} /\ FoxPlaces(e)[3] = FoxPlaces(g)[3]
        /\ FoxPlaces(e)[5] = FoxPlaces(g)[5] /\ FoxPlaces(e)[6] = FoxPlaces(g)[6]
    <3>1. /\ FoxPlaces(e)[3] = e.fresh /\ FoxPlaces(e)[4] = Fox!Range(e.bottom)
          /\ FoxPlaces(e)[5] = Fox!Range(e.played) /\ FoxPlaces(e)[6] = {e.trump}
      BY FoxPlacesAre
    <3>2. /\ FoxPlaces(g)[3] = g.fresh /\ FoxPlaces(g)[4] = Fox!Range(g.bottom)
          /\ FoxPlaces(g)[5] = Fox!Range(g.played) /\ FoxPlaces(g)[6] = {g.trump}
      BY FoxPlacesAre
    <3> QED
      BY <1>5, <1>9, <3>1, <3>2
  <2>2. ASSUME NEW k \in 1 .. 6, k # i, k # 4
        PROVE  FoxPlaces(e)[k] = FoxPlaces(g)[k]
    <3>1. CASE k \in 3 .. 6
      BY <2>1, <2>2, <3>1
    <3>2. CASE ~(k \in 3 .. 6)
      <4>1. FoxOther(g, e, p)
        BY <1>7, <1>9, <1>10 DEF FoxOther
      <4>2. k = p + 1 \/ k \in 3 .. 6 \/ FoxThirdTo(g, e, k)
        BY <4>1, FoxOtherPlaces
      <4>3. k # p + 1
        BY <1>7, <1>9, <1>10, <2>2
      <4> QED
        BY <3>2, <4>2, <4>3 DEF FoxThirdTo
    <3> QED
      BY <3>1, <3>2
  <2> QED
    BY <1>7, <1>11, <2>1, <2>2 DEF FoxShifted
<1>13. /\ FoxParted(e.pack, FoxPlaces(e), FoxLost(e))
       /\ Cardinality(FoxPlaces(e)[i]) = Cardinality(FoxPlaces(g)[i]) + 1
       /\ Cardinality(FoxPlaces(g)[i]) \in Nat
  <2>1. e.pack = g.pack /\ e.tricks = g.tricks
    BY <1>9
  <2>2. 4 \in 1 .. 6
    OBVIOUS
  <2>3. FoxShiftDone(g, e, 4, i)
    BY <1>12, <2>1, <2>2, FoxShift
  <2> QED
    BY <2>3 DEF FoxShiftDone
<1>14. FoxBody(e)
  BY <1>1, <1>5, <1>9, <1>13 DEF FoxBody
<1> QED
  BY <1>7, <1>9, <1>11, <1>13, <1>14 DEF FoxCardDrawn, FoxHands

\* A hand with a card less, the question answered.
FoxCardPut(g, e, p) ==
    /\ FoxBody(e) /\ FoxHands(g, e, p)
    /\ Cardinality(e.hand[p]) = Cardinality(g.hand[p]) - 1
    /\ e.played = g.played /\ ~e.resolving

LEMMA FoxPuts ==
    ASSUME NEW g, FoxBody(g), NEW p \in {0, 1}, NEW c \in g.hand[p],
           NEW e, e = [g EXCEPT !.resolving = FALSE, !.hand[p] = @ \ {c},
                                !.bottom = Append(@, c)]
    PROVE  FoxCardPut(g, e, p)
<1>1. g \in Fox!Table /\ ~g.ending /\ ~g.over /\ ~g.aborted /\ g.nHand \in Nat /\ g.nHand > 0
  BY DEF FoxBody, Fox!Table
<1>2. g.hand \in [{0, 1} -> SUBSET Fox!Cards] /\ g.bottom \in Seq(Fox!Cards)
  BY <1>1, FoxNumbers DEF Fox!Table
<1>3. PICK bottom : bottom = Append(g.bottom, c)
  OBVIOUS
<1>4. PICK i \in 1 .. 6 : i = p + 1
  OBVIOUS
<1>5. c \in FoxPlaces(g)[i] /\ FoxPlaces(g)[4] = Fox!Range(g.bottom) /\ i # 4 /\ 4 \in 1 .. 6
  BY <1>4, FoxHandPlace, FoxPlacesAre
<1>6. c \notin Fox!Range(g.bottom)
  <2>1. FoxParted(g.pack, FoxPlaces(g), FoxLost(g))
    BY DEF FoxBody
  <2> QED
    BY <1>5, <2>1 DEF FoxParted
<1>7. /\ bottom \in Seq(Fox!Cards)
      /\ Fox!Range(bottom) = Fox!Range(g.bottom) \cup {c} /\ FoxOnce(bottom)
  <2>1. FoxOnce(g.bottom) /\ c \in Fox!Cards
    BY <1>2 DEF FoxBody
  <2>2. FoxAppended(Fox!Cards, g.bottom, c, bottom)
    BY <1>2, <1>3, <2>1, AppendRange
  <2> QED
    BY <1>6, <2>1, <2>2 DEF FoxAppended
<1>8. PICK hand : hand = [g.hand EXCEPT ![p] = @ \ {c}]
  OBVIOUS
<1>9. /\ hand \in [{0, 1} -> SUBSET Fox!Cards]
      /\ hand[p] = g.hand[p] \ {c} /\ hand[1 - p] = g.hand[1 - p]
  BY <1>2, <1>8
<1>10. e = [g EXCEPT !.resolving = FALSE, !.bottom = bottom, !.hand = hand]
  BY <1>3, <1>8
<1>11. /\ e \in Fox!Table /\ e.hand = hand /\ e.bottom = bottom
      /\ e.pack = g.pack /\ e.played = g.played /\ e.fresh = g.fresh
      /\ e.trump = g.trump /\ e.nHand = g.nHand /\ e.leader = g.leader /\ e.tricks = g.tricks
      /\ e.ending = g.ending /\ e.over = g.over /\ e.aborted = g.aborted
      /\ ~e.resolving
  <2>1. e \in Fox!Table
    BY <1>1, <1>7, <1>9, <1>10, FoxNumbers, ZenonT(30) DEF Fox!Table
  <2>2. /\ e.hand = hand /\ e.bottom = bottom
        /\ e.pack = g.pack /\ e.played = g.played /\ e.fresh = g.fresh
        /\ e.trump = g.trump /\ e.nHand = g.nHand /\ e.leader = g.leader /\ e.tricks = g.tricks
        /\ e.ending = g.ending /\ e.over = g.over /\ e.aborted = g.aborted
        /\ ~e.resolving
    BY <1>1, <1>10 DEF Fox!Table
  <2> QED
    BY <2>1, <2>2
<1>12. FoxPlaces(g)[i] = g.hand[p] /\ FoxPlaces(e)[i] = hand[p]
  BY <1>4, <1>11, FoxHandPlace
<1>13. FoxShifted(FoxPlaces(g), FoxPlaces(e), i, 4, c)
  <2>1. /\ FoxPlaces(e)[4] = FoxPlaces(g)[4] \cup {c} /\ FoxPlaces(e)[3] = FoxPlaces(g)[3]
        /\ FoxPlaces(e)[5] = FoxPlaces(g)[5] /\ FoxPlaces(e)[6] = FoxPlaces(g)[6]
    <3>1. /\ FoxPlaces(e)[3] = e.fresh /\ FoxPlaces(e)[4] = Fox!Range(e.bottom)
          /\ FoxPlaces(e)[5] = Fox!Range(e.played) /\ FoxPlaces(e)[6] = {e.trump}
      BY FoxPlacesAre
    <3>2. /\ FoxPlaces(g)[3] = g.fresh /\ FoxPlaces(g)[4] = Fox!Range(g.bottom)
          /\ FoxPlaces(g)[5] = Fox!Range(g.played) /\ FoxPlaces(g)[6] = {g.trump}
      BY FoxPlacesAre
    <3> QED
      BY <1>7, <1>11, <3>1, <3>2
  <2>2. ASSUME NEW k \in 1 .. 6, k # i, k # 4
        PROVE  FoxPlaces(e)[k] = FoxPlaces(g)[k]
    <3>1. CASE k \in 3 .. 6
      BY <2>1, <2>2, <3>1
    <3>2. CASE ~(k \in 3 .. 6)
      <4>1. FoxOther(g, e, p)
        BY <1>4, <1>9, <1>11 DEF FoxOther
      <4>2. k = p + 1 \/ k \in 3 .. 6 \/ FoxThirdTo(g, e, k)
        BY <4>1, FoxOtherPlaces
      <4>3. k # p + 1
        BY <1>4, <1>9, <1>11, <2>2
      <4> QED
        BY <3>2, <4>2, <4>3 DEF FoxThirdTo
    <3> QED
      BY <3>1, <3>2
  <2> QED
    BY <1>5, <1>9, <1>12, <2>1, <2>2 DEF FoxShifted
<1>14. /\ FoxParted(e.pack, FoxPlaces(e), FoxLost(e))
       /\ Cardinality(FoxPlaces(e)[i]) = Cardinality(FoxPlaces(g)[i]) - 1
       /\ Cardinality(FoxPlaces(g)[i]) \in Nat
  <2>1. e.pack = g.pack /\ e.tricks = g.tricks
    BY <1>11
  <2>2. 4 \in 1 .. 6
    OBVIOUS
  <2>3. FoxShiftDone(g, e, i, 4)
    BY <1>13, <2>1, <2>2, FoxShift
  <2> QED
    BY <2>3 DEF FoxShiftDone
<1>15. FoxBody(e)
  BY <1>1, <1>7, <1>11, <1>14 DEF FoxBody
<1> QED
  BY <1>9, <1>11, <1>12, <1>14, <1>15 DEF FoxCardPut, FoxHands

\* A hand with another card in the place of one.
FoxCardExchanged(g, e, p) ==
    /\ FoxBody(e) /\ FoxHands(g, e, p)
    /\ Cardinality(e.hand[p]) = Cardinality(g.hand[p])
    /\ e.played = g.played /\ ~e.resolving

LEMMA FoxExchanges ==
    ASSUME NEW g, FoxBody(g), NEW p \in {0, 1}, NEW c \in g.hand[p] \cup {g.trump},
           NEW e, e = [g EXCEPT !.resolving = FALSE, !.trump = c,
                                !.hand[p] = (@ \cup {g.trump}) \ {c}]
    PROVE  FoxCardExchanged(g, e, p)
<1>1. g \in Fox!Table /\ ~g.ending /\ ~g.over /\ ~g.aborted /\ g.nHand \in Nat /\ g.nHand > 0
  BY DEF FoxBody, Fox!Table
<1>2. g.hand \in [{0, 1} -> SUBSET Fox!Cards] /\ g.trump \in Fox!Cards /\ c \in Fox!Cards
  BY <1>1, FoxNumbers DEF Fox!Table
<1>3. PICK hand : hand = [g.hand EXCEPT ![p] = (@ \cup {g.trump}) \ {c}]
  OBVIOUS
<1>4. /\ hand \in [{0, 1} -> SUBSET Fox!Cards]
      /\ hand[p] = (g.hand[p] \cup {g.trump}) \ {c} /\ hand[1 - p] = g.hand[1 - p]
  BY <1>2, <1>3
<1>5. e = [g EXCEPT !.resolving = FALSE, !.trump = c, !.hand = hand]
  BY <1>3
<1>6. /\ e \in Fox!Table /\ e.hand = hand /\ e.bottom = g.bottom
      /\ e.pack = g.pack /\ e.played = g.played /\ e.fresh = g.fresh
      /\ e.trump = c /\ e.nHand = g.nHand /\ e.leader = g.leader /\ e.tricks = g.tricks
      /\ e.ending = g.ending /\ e.over = g.over /\ e.aborted = g.aborted
      /\ ~e.resolving
  <2>1. e \in Fox!Table
    BY <1>1, <1>2, <1>4, <1>5, FoxNumbers, ZenonT(30) DEF Fox!Table
  <2>2. /\ e.hand = hand /\ e.bottom = g.bottom
        /\ e.pack = g.pack /\ e.played = g.played /\ e.fresh = g.fresh
        /\ e.trump = c /\ e.nHand = g.nHand /\ e.leader = g.leader /\ e.tricks = g.tricks
        /\ e.ending = g.ending /\ e.over = g.over /\ e.aborted = g.aborted
        /\ ~e.resolving
    BY <1>1, <1>5 DEF Fox!Table
  <2> QED
    BY <2>1, <2>2
<1>7. PICK i \in 1 .. 6 : i = p + 1 /\ i # 6
  OBVIOUS
<1>8. PICK q : q = FoxPlaces(g)
  OBVIOUS
<1>9. PICK r : r = FoxPlaces(e)
  OBVIOUS
<1>10. /\ q[i] = g.hand[p] /\ q[6] = {g.trump} /\ r[i] = hand[p] /\ r[6] = {c}
       /\ \A k \in 1 .. 6 : k # i /\ k # 6 => r[k] = q[k]
  <2>1. /\ FoxPlaces(e)[4] = FoxPlaces(g)[4] /\ FoxPlaces(e)[3] = FoxPlaces(g)[3]
        /\ FoxPlaces(e)[5] = FoxPlaces(g)[5]
    <3>1. /\ FoxPlaces(e)[3] = e.fresh /\ FoxPlaces(e)[4] = Fox!Range(e.bottom)
          /\ FoxPlaces(e)[5] = Fox!Range(e.played) /\ FoxPlaces(e)[6] = {e.trump}
      BY FoxPlacesAre
    <3>2. /\ FoxPlaces(g)[3] = g.fresh /\ FoxPlaces(g)[4] = Fox!Range(g.bottom)
          /\ FoxPlaces(g)[5] = Fox!Range(g.played) /\ FoxPlaces(g)[6] = {g.trump}
      BY FoxPlacesAre
    <3> QED
      BY <1>6, <3>1, <3>2
  <2>2. ASSUME NEW k \in 1 .. 6, k # i, k # 6
        PROVE  FoxPlaces(e)[k] = FoxPlaces(g)[k]
    <3>1. CASE k \in 3 .. 6
      BY <2>1, <2>2, <3>1
    <3>2. CASE ~(k \in 3 .. 6)
      <4>1. FoxOther(g, e, p)
        BY <1>4, <1>6, <1>7 DEF FoxOther
      <4>2. k = p + 1 \/ k \in 3 .. 6 \/ FoxThirdTo(g, e, k)
        BY <4>1, FoxOtherPlaces
      <4>3. k # p + 1
        BY <1>4, <1>6, <1>7, <2>2
      <4> QED
        BY <3>2, <4>2, <4>3 DEF FoxThirdTo
    <3> QED
      BY <3>1, <3>2
  <2> QED
    <3>1. FoxPlaces(g)[p + 1] = g.hand[p] /\ FoxPlaces(e)[p + 1] = e.hand[p]
      BY FoxHandPlace
    <3>2. FoxPlaces(g)[6] = {g.trump} /\ FoxPlaces(e)[6] = {e.trump}
      BY FoxPlacesAre
    <3> QED
      BY <1>6, <1>7, <1>8, <1>9, <2>2, <3>1, <3>2, ZenonT(30)
<1>11. FoxParted(g.pack, q, FoxLost(g)) /\ IsFiniteSet(g.pack) /\ 6 \in 1 .. 6
  BY <1>1, <1>8, FoxNumbers DEF FoxBody, Fox!Table
<1>12. PICK m : m = FoxMoved(q, 6, i, g.trump)
  OBVIOUS
<1>13. /\ FoxParted(g.pack, m, FoxLost(g))
       /\ m[6] = q[6] \ {g.trump} /\ m[i] = q[i] \cup {g.trump}
       /\ \A k \in 1 .. 6 : k # 6 /\ k # i => m[k] = q[k]
       /\ Cardinality(m[i]) = Cardinality(q[i]) + 1 /\ Cardinality(q[i]) \in Nat
  <2>1. g.trump \in q[6] /\ IsFiniteSet(g.pack) /\ 6 # i
    BY <1>7, <1>10, <1>11
  <2>2. FoxParted(g.pack, q, FoxLost(g))
    BY <1>11
  <2> QED
    BY <1>11, <1>12, <2>1, <2>2, FoxMove
<1>14. PICK s : s = FoxMoved(m, i, 6, c)
  OBVIOUS
<1>15. /\ FoxParted(g.pack, s, FoxLost(g))
       /\ s[i] = m[i] \ {c} /\ s[6] = m[6] \cup {c}
       /\ \A k \in 1 .. 6 : k # i /\ k # 6 => s[k] = m[k]
       /\ Cardinality(s[i]) = Cardinality(m[i]) - 1
  <2>1. c \in m[i] /\ IsFiniteSet(g.pack) /\ i # 6
    BY <1>7, <1>10, <1>11, <1>13
  <2>2. FoxParted(g.pack, m, FoxLost(g))
    BY <1>13
  <2> QED
    BY <1>11, <1>14, <2>1, <2>2, FoxMove
<1>16. r = s
  <2>1. r = [k \in 1 .. 6 |-> r[k]] /\ s = [k \in 1 .. 6 |-> s[k]]
    BY <1>9, <1>14, FoxPlacesFcn
  <2>2. r[i] = s[i] /\ r[6] = s[6]
    BY <1>4, <1>10, <1>13, <1>15
  <2>3. \A k \in 1 .. 6 : k # i /\ k # 6 => r[k] = s[k]
    BY <1>10, <1>13, <1>15
  <2>4. \A k \in 1 .. 6 : r[k] = s[k]
    BY <2>2, <2>3
  <2> QED
    BY <2>1, <2>4
<1>17. FoxLost(e) = FoxLost(g)
  BY <1>6 DEF FoxLost
<1>18. FoxParted(e.pack, FoxPlaces(e), FoxLost(e))
  BY <1>6, <1>9, <1>15, <1>16, <1>17
<1>19. FoxBody(e)
  BY <1>1, <1>6, <1>18 DEF FoxBody
<1>20. Cardinality(e.hand[p]) = Cardinality(g.hand[p]) /\ Cardinality(g.hand[p]) \in Nat
  BY <1>6, <1>10, <1>13, <1>15, <1>16
<1> QED
  BY <1>4, <1>6, <1>19, <1>20 DEF FoxCardExchanged, FoxHands

--------------------------------------------------------------------------
(* Fox: steps *)

LEMMA FoxInitially ==
    ASSUME Fox!Init
    PROVE  FoxInv
<1>1. PICK pack \in FoxRules.Packs, p \in Fox!Players :
        game \in Fox!Dealt(pack, p, [q \in Fox!Players |-> 0])
  BY DEF Fox!Init
<1>2. PICK score \in [{0, 1} -> Nat] : score = [q \in Fox!Players |-> 0]
  BY FoxNumbers
<1>3. game \in Fox!Dealt(pack, p, score) /\ p \in {0, 1}
  BY <1>1, <1>2, FoxNumbers
<1> QED
  BY <1>3, FoxDealt DEF FoxInv

\* The hands in the middle of a trick, without a card that was drawn.
FoxEven(e) ==
    \A r \in {0, 1} : Cardinality(e.hand[r]) =
        e.nHand - (IF Len(e.played) > 0 /\ (r = e.leader \/ Len(e.played) = 2) THEN 1 ELSE 0)

\* The cards of the deck: all but the hands at the deal, a trump and the tricks.
LEMMA FoxDeckLeft ==
    ASSUME NEW g, FoxBody(g), FoxCounted(g), ~g.resolving,
           Len(g.played) = 0 \/ Len(g.played) = 1
    PROVE  g.fresh # {} \/ g.bottom # <<>>
<1>1. SUFFICES ASSUME g.fresh = {}, g.bottom = <<>>
               PROVE  FALSE
  OBVIOUS
<1>2. /\ g.pack \in FoxRules.Packs /\ g.nHand \in Nat /\ g.leader \in {0, 1}
      /\ g.tricks[0] \in Nat /\ g.tricks[1] \in Nat
      /\ g.nHand + g.tricks[0] + g.tricks[1] = FoxRules.HandSize
  BY FoxNumbers DEF FoxBody, Fox!Table
<1>3. PICK f : f = FoxSizes(FoxPlaces(g))
  OBVIOUS
<1>4. /\ \A k \in 1 .. 6 : f[k] \in Int /\ f[k] = Cardinality(FoxPlaces(g)[k])
      /\ Sum(f, 1 .. 6) + FoxLost(g) = Cardinality(g.pack)
  <2>1. /\ FoxPlaces(g) \in [1 .. 6 -> SUBSET g.pack]
        /\ Sum(f, 1 .. 6) + FoxLost(g) = Cardinality(g.pack)
    BY <1>3 DEF FoxBody, FoxParted
  <2>2. \A k \in 1 .. 6 : Cardinality(FoxPlaces(g)[k]) \in Nat
                          /\ f[k] = Cardinality(FoxPlaces(g)[k])
    BY <1>2, <1>3, <2>1, FoxNumbers, FoxSizesAreNumbers
  <2> QED
    BY <2>1, <2>2
<1>5. Sum(f, 1 .. 6) = f[1] + f[2] + f[3] + f[4] + f[5] + f[6]
  BY <1>4, SumOfSix
<1>6. f[3] = 0 /\ f[4] = 0 /\ f[5] = Len(g.played) /\ f[6] = 1
  <2>1. Fox!Range(<<>>) = {}
    BY DEF Fox!Range
  <2>2. Cardinality({}) = 0 /\ Cardinality({g.trump}) = 1
    BY FS_EmptySet, FS_Singleton
  <2>3. /\ FoxPlaces(g)[3] = {} /\ FoxPlaces(g)[4] = {}
        /\ FoxPlaces(g)[5] = Fox!Range(g.played) /\ FoxPlaces(g)[6] = {g.trump}
    BY <1>1, <2>1, FoxPlacesAre
  <2>4. Cardinality(Fox!Range(g.played)) = Len(g.played)
    BY DEF FoxBody
  <2>5. /\ f[3] = Cardinality(FoxPlaces(g)[3]) /\ f[4] = Cardinality(FoxPlaces(g)[4])
        /\ f[5] = Cardinality(FoxPlaces(g)[5]) /\ f[6] = Cardinality(FoxPlaces(g)[6])
    BY <1>4
  <2> QED
    BY <2>2, <2>3, <2>4, <2>5
<1>7. f[1] + f[2] = 2 * g.nHand - Len(g.played)
  <2>1. f[1] = FoxOwed(g, 0) /\ f[2] = FoxOwed(g, 1)
    BY <1>4, FoxPlacesAre DEF FoxCounted
  <2>2. CASE Len(g.played) = 0
    BY <1>2, <2>1, <2>2 DEF FoxOwed
  <2>3. CASE Len(g.played) = 1
    BY <1>2, <2>1, <2>3 DEF FoxOwed
  <2> QED
    BY <2>2, <2>3
<1>8. Cardinality(g.pack) = 2 * FoxRules.HandSize + 1
  <2>1. PICK n, a, b \in Nat : n = g.nHand /\ a = g.tricks[0] /\ b = g.tricks[1]
    BY <1>2
  <2>2. PICK x, y \in Int : x = f[1] /\ y = f[2]
    BY <1>4
  <2>3. PICK l \in {0, 1} : l = Len(g.played)
    BY Zenon
  <2>4. Sum(f, 1 .. 6) = x + y + 0 + 0 + l + 1
    <3>1. f[1] = x /\ f[2] = y /\ f[3] = 0 /\ f[4] = 0 /\ f[5] = l /\ f[6] = 1
      BY <1>6, <2>2, <2>3
    <3> QED
      BY <1>5, <3>1, Zenon
  <2>5. x + y = 2 * n - l
    BY <1>7, <2>1, <2>2, <2>3
  <2>6. Sum(f, 1 .. 6) = 2 * n + 1
    BY <2>4, <2>5
  <2>7. Cardinality(g.pack) = 2 * n + 1 + 2 * (a + b)
    BY <1>4, <2>1, <2>6 DEF FoxLost
  <2>8. n + a + b = FoxRules.HandSize
    BY <1>2, <2>1, Zenon
  <2>9. Cardinality(g.pack) = 2 * (n + a + b) + 1
    BY <2>7
  <2> QED
    BY <2>8, <2>9, Zenon
<1>9. Cardinality(g.pack) >= 2 * FoxRules.HandSize + 2 /\ FoxRules.HandSize \in Nat
  BY <1>2, FoxNumbers
<1> QED
  BY <1>8, <1>9

LEMMA FoxPlayCount ==
    ASSUME NEW g, FoxBody(g), FoxCounted(g), ~g.resolving, NEW p \in {0, 1},
           Len(g.played) = 0 \/ Len(g.played) = 1,
           p = IF Len(g.played) = 0 THEN g.leader ELSE 1 - g.leader,
           NEW e, NEW card, NEW v, FoxCardPlayed(g, e, p, card, v)
    PROVE  FoxEven(e) /\ (Len(e.played) = 1 \/ Len(e.played) = 2) /\ p = FoxLast(e)
<1>1. /\ Cardinality(g.hand[p]) \in Nat
      /\ e.hand[1 - p] = g.hand[1 - p]
      /\ e.nHand = g.nHand /\ e.leader = g.leader
      /\ Cardinality(e.hand[p]) = Cardinality(g.hand[p]) - 1
      /\ Len(e.played) = Len(g.played) + 1
  BY DEF FoxCardPlayed, FoxHands
<1>2. g.leader \in {0, 1} /\ g.nHand \in Nat
  BY FoxNumbers DEF FoxBody, Fox!Table
<1>3. \A r \in {0, 1} : Cardinality(g.hand[r]) =
        g.nHand - (IF Len(g.played) > 0 /\ (r = g.leader \/ Len(g.played) = 2) THEN 1 ELSE 0)
  BY <1>2 DEF FoxCounted, FoxOwed
<1>4. CASE Len(g.played) = 0
  <2>1. Len(e.played) = 1 /\ p = g.leader
    BY <1>1, <1>4
  <2>2. Cardinality(g.hand[p]) = g.nHand /\ Cardinality(g.hand[1 - p]) = g.nHand
    BY <1>2, <1>3, <1>4
  <2>3. \A r \in {0, 1} : r = p \/ r = 1 - p
    OBVIOUS
  <2>4. 1 - p # p
    OBVIOUS
  <2> QED
    BY <1>1, <1>2, <2>1, <2>2, <2>3, <2>4 DEF FoxEven, FoxLast
<1>5. CASE Len(g.played) = 1
  <2>1. Len(e.played) = 2 /\ p = 1 - g.leader /\ 1 - p = g.leader /\ p # g.leader
    BY <1>1, <1>2, <1>5
  <2>2. Cardinality(g.hand[p]) = g.nHand /\ Cardinality(g.hand[1 - p]) = g.nHand - 1
    BY <1>2, <1>3, <1>5, <2>1
  <2>3. \A r \in {0, 1} : r = p \/ r = 1 - p
    OBVIOUS
  <2>4. p = FoxLast(e)
    BY <1>1, <2>1 DEF FoxLast
  <2>5. Cardinality(e.hand[p]) = e.nHand - 1 /\ Cardinality(e.hand[1 - p]) = e.nHand - 1
    BY <1>1, <1>2, <2>2
  <2>6. \A r \in {0, 1} : Cardinality(e.hand[r]) = e.nHand - 1
    BY <2>3, <2>5
  <2>7. FoxEven(e)
    BY <2>1, <2>6 DEF FoxEven
  <2> QED
    BY <2>1, <2>4, <2>7
<1> QED
  BY <1>4, <1>5

LEMMA FoxEvenCounts ==
    ASSUME NEW e, FoxBody(e), FoxEven(e),
           ~e.resolving \/ Fox!Value(e.played[Len(e.played)]) # 5
    PROVE  FoxCounted(e)
<1>1. e.nHand \in Nat
  BY DEF FoxBody, Fox!Table
<1> QED
  BY <1>1 DEF FoxEven, FoxCounted, FoxOwed

\* Whoever drew has one card more until it is put back.
LEMMA FoxDrawnCounts ==
    ASSUME NEW e, FoxEven(e), NEW p \in {0, 1}, p = FoxLast(e), e.resolving,
           Fox!Value(e.played[Len(e.played)]) = 5,
           NEW f, FoxCardDrawn(e, f, p)
    PROVE  FoxCounted(f)
<1>1. /\ FoxBody(f) /\ Cardinality(e.hand[p]) \in Nat
      /\ f.hand[1 - p] = e.hand[1 - p]
      /\ f.nHand = e.nHand /\ f.leader = e.leader
      /\ Cardinality(f.hand[p]) = Cardinality(e.hand[p]) + 1
      /\ f.played = e.played /\ f.resolving = e.resolving
  BY DEF FoxCardDrawn, FoxHands
<1>2. f.nHand \in Nat
  BY <1>1 DEF FoxBody, Fox!Table
<1>3. p = FoxLast(f)
  BY <1>1 DEF FoxLast
<1>4. \A r \in {0, 1} : r = p \/ r = 1 - p
  OBVIOUS
<1>5. 1 - p # p
  OBVIOUS
<1>6. \A r \in {0, 1} : Cardinality(e.hand[r]) =
        e.nHand - (IF Len(e.played) > 0 /\ (r = e.leader \/ Len(e.played) = 2) THEN 1 ELSE 0)
  BY DEF FoxEven
<1>7. Cardinality(f.hand[p]) = FoxOwed(f, p)
  BY <1>1, <1>2, <1>3, <1>6 DEF FoxOwed
<1>8. Cardinality(f.hand[1 - p]) = FoxOwed(f, 1 - p)
  <2>1. 1 - p \in {0, 1}
    OBVIOUS
  <2> QED
    BY <1>1, <1>2, <1>3, <1>5, <1>6, <2>1 DEF FoxOwed
<1> QED
  BY <1>4, <1>7, <1>8 DEF FoxCounted

\* play_card
LEMMA FoxPlayStep ==
    ASSUME FoxInv, NEW p \in {0, 1}, NEW card, Fox!PlayCard(p, card)
    PROVE  FoxInv'
<1>1. /\ ~game.over /\ ~game.aborted /\ ~game.resolving /\ Len(game.played) < 2
      /\ p = Fox!NextPlayer /\ card \in Fox!Playable(p)
  BY DEF Fox!PlayCard, Fox!Running
<1>2. game \in Fox!Table /\ ~game.ending
  <2>1. game \in Fox!Table
    BY DEF FoxInv, FoxHolds
  <2>2. Len(game.played) # 2
    BY <1>1
  <2>3. ~game.ending
    BY <2>2 DEF FoxInv, FoxHolds
  <2> QED
    BY <2>1, <2>3
<1>3. FoxBody(game) /\ FoxCounted(game)
  BY <1>1, <1>2 DEF FoxInv, FoxHolds
<1>4. card \in game.hand[p]
  BY <1>1 DEF Fox!Playable
<1>5. Len(game.played) = 0 \/ Len(game.played) = 1
  <2>1. Len(game.played) \in Nat
    BY <1>2 DEF Fox!Table
  <2>2. PICK n \in Nat : n = Len(game.played)
    BY <2>1
  <2>3. n < 2
    BY <1>1, <2>2
  <2>4. n = 0 \/ n = 1
    BY <2>3
  <2> QED
    BY <2>2, <2>4
<1>6. p = IF Len(game.played) = 0 THEN game.leader ELSE 1 - game.leader
  BY <1>1 DEF Fox!NextPlayer, Fox!Other
<1>7. PICK v \in BOOLEAN :
        v = (Fox!Value(card) \in {Fox!Exchange, Fox!Draw} /\ game.nHand > 1)
  OBVIOUS
<1>8. PICK g : /\ g = [game EXCEPT !.hand[p] = @ \ {card}, !.played = Append(@, card),
                                   !.resolving = v]
               /\ \/ ~g.resolving /\ game' \in Fox!EndCardPlay(g)
                  \/ g.resolving /\ Fox!Value(card) = Fox!Exchange /\ game' = g
                  \/ g.resolving /\ Fox!Value(card) = Fox!Draw /\ game' \in Fox!Drawn(g, p)
  BY <1>7 DEF Fox!PlayCard
<1>9. FoxCardPlayed(game, g, p, card, v)
  <2>1. g = [game EXCEPT !.hand[p] = @ \ {card}, !.played = Append(@, card),
                                   !.resolving = v]
    BY <1>8
  <2>2. PICK b : b = game
    OBVIOUS
  <2>3. FoxBody(b) /\ card \in b.hand[p]
    BY <1>3, <1>4, <2>2
  <2>4. g = [b EXCEPT !.hand[p] = @ \ {card}, !.played = Append(@, card),
                                   !.resolving = v]
    BY <2>1, <2>2
  <2>5. FoxCardPlayed(b, g, p, card, v)
    BY <2>3, <2>4, FoxPlays
  <2> QED
    BY <2>2, <2>5
<1>10. /\ FoxBody(g) /\ g.resolving = v /\ g.nHand = game.nHand
       /\ g.played[Len(g.played)] = card
  BY <1>9 DEF FoxCardPlayed, FoxHands
<1>11. FoxEven(g) /\ (Len(g.played) = 1 \/ Len(g.played) = 2) /\ p = FoxLast(g)
  BY <1>1, <1>3, <1>5, <1>6, <1>9, FoxPlayCount
<1>12. PICK e : e = game'
  OBVIOUS
<1>13. CASE ~g.resolving /\ game' \in Fox!EndCardPlay(g)
  <2>1. FoxCounted(g)
    BY <1>10, <1>11, <1>13, FoxEvenCounts
  <2>2. Len(g.played) \in {1, 2}
    BY <1>11
  <2>3. e \in Fox!EndCardPlay(g) /\ ~g.resolving
    BY <1>12, <1>13
  <2>4. FoxHolds(e)
    BY <1>10, <2>1, <2>2, <2>3, FoxTrickEnds
  <2> QED
    BY <1>12, <2>4 DEF FoxInv
<1>14. CASE g.resolving /\ Fox!Value(card) = Fox!Exchange /\ game' = g
  <2>1. Fox!Value(g.played[Len(g.played)]) = 3 /\ g.nHand > 1
    BY <1>7, <1>10, <1>14 DEF Fox!Exchange
  <2>2. FoxCounted(g)
    BY <1>10, <1>11, <2>1, FoxEvenCounts
  <2>3. FoxAsked(g)
    BY <1>11, <1>14, <2>1 DEF FoxAsked
  <2>4. FoxHolds(g)
    BY <1>10, <2>2, <2>3 DEF FoxHolds, FoxBody
  <2> QED
    BY <1>14, <2>4 DEF FoxInv
<1>15. ASSUME g.resolving, Fox!Value(card) = Fox!Draw, FoxCardDrawn(g, e, p)
       PROVE  FoxInv'
  <2>1. Fox!Value(g.played[Len(g.played)]) = 5 /\ g.nHand > 1
    BY <1>7, <1>10, <1>15 DEF Fox!Draw
  <2>2. FoxCounted(e)
    BY <1>11, <1>15, <2>1, FoxDrawnCounts
  <2>3. /\ FoxBody(e) /\ e.nHand = g.nHand /\ e.played = g.played
        /\ e.resolving = g.resolving
    BY <1>15 DEF FoxCardDrawn, FoxHands
  <2>4. FoxAsked(e)
    BY <1>11, <1>15, <2>1, <2>3 DEF FoxAsked
  <2>5. FoxHolds(e)
    BY <2>2, <2>3, <2>4 DEF FoxHolds, FoxBody
  <2> QED
    BY <1>12, <2>5 DEF FoxInv
<1>16. ASSUME g.resolving, Fox!Value(card) = Fox!Draw,
              NEW c \in g.fresh, game' = [g EXCEPT !.fresh = @ \ {c}, !.hand[p] = @ \cup {c}]
       PROVE  FoxInv'
  <2>1. e = [g EXCEPT !.fresh = @ \ {c}, !.hand[p] = @ \cup {c}]
    BY <1>12, <1>16
  <2>2. FoxCardDrawn(g, e, p)
    BY <1>10, <2>1, FoxDraws
  <2> QED
    BY <1>15, <1>16, <2>2
<1>17. ASSUME g.resolving, Fox!Value(card) = Fox!Draw, g.bottom # <<>>,
              game' = [g EXCEPT !.bottom = Tail(@), !.hand[p] = @ \cup {Head(g.bottom)}]
       PROVE  FoxInv'
  <2>1. e = [g EXCEPT !.bottom = Tail(@), !.hand[p] = @ \cup {Head(g.bottom)}]
    BY <1>12, <1>17
  <2>2. FoxCardDrawn(g, e, p)
    BY <1>10, <1>17, <2>1, FoxDrawsBottom
  <2> QED
    BY <1>15, <1>17, <2>2
<1>18. CASE g.resolving /\ Fox!Value(card) = Fox!Draw /\ game' \in Fox!Drawn(g, p)
  <2>1. game.fresh # {} \/ game.bottom # <<>>
    BY <1>1, <1>3, <1>5, FoxDeckLeft
  <2>2. g.fresh # {} \/ g.bottom # <<>>
    BY <1>9, <2>1 DEF FoxCardPlayed
  <2>3. \/ \E c \in g.fresh : game' = [g EXCEPT !.fresh = @ \ {c}, !.hand[p] = @ \cup {c}]
        \/ /\ g.bottom # <<>>
           /\ game' = [g EXCEPT !.bottom = Tail(@), !.hand[p] = @ \cup {Head(g.bottom)}]
    BY <1>18, <2>2 DEF Fox!Drawn
  <2> QED
    BY <1>16, <1>17, <1>18, <2>3
<1> QED
  BY <1>8, <1>13, <1>14, <1>18

LEMMA FoxResolves ==
    ASSUME FoxInv, NEW p \in {0, 1}, NEW value, Fox!Resolves(p, value)
    PROVE  /\ FoxBody(game) /\ FoxCounted(game) /\ game.resolving
           /\ Len(game.played) \in {1, 2} /\ p = FoxLast(game)
           /\ Fox!Value(game.played[Len(game.played)]) = value
<1>1. /\ ~game.over /\ ~game.aborted /\ game.resolving /\ p = Fox!LastPlayer
      /\ Fox!Value(Fox!Last(game.played)) = value
  BY DEF Fox!Resolves, Fox!Running
<1>2. FoxBody(game) /\ FoxCounted(game) /\ FoxAsked(game)
  BY <1>1 DEF FoxInv, FoxHolds
<1>3. Len(game.played) \in {1, 2}
  BY <1>1, <1>2 DEF FoxAsked
<1>4. p = FoxLast(game)
  BY <1>1 DEF Fox!LastPlayer, Fox!Other, FoxLast
<1>5. Fox!Value(game.played[Len(game.played)]) = value
  BY <1>1 DEF Fox!Last
<1> QED
  BY <1>1, <1>2, <1>3, <1>4, <1>5

\* discard_card
LEMMA FoxDiscardStep ==
    ASSUME FoxInv, NEW p \in {0, 1}, NEW card, Fox!DiscardCard(p, card)
    PROVE  FoxInv'
<1>1. Fox!Resolves(p, Fox!Draw) /\ card \in game.hand[p]
  BY DEF Fox!DiscardCard
<1>2. /\ FoxBody(game) /\ FoxCounted(game) /\ game.resolving
      /\ Len(game.played) \in {1, 2} /\ p = FoxLast(game)
      /\ Fox!Value(game.played[Len(game.played)]) = Fox!Draw
  BY <1>1, FoxResolves
<1>3. PICK g : /\ g = [game EXCEPT !.resolving = FALSE, !.hand[p] = @ \ {card},
                                   !.bottom = Append(@, card)]
               /\ game' \in Fox!EndCardPlay(g)
  BY DEF Fox!DiscardCard
<1>4. FoxCardPut(game, g, p)
  BY <1>1, <1>2, <1>3, FoxPuts
<1>5. /\ FoxBody(g) /\ Cardinality(game.hand[p]) \in Nat
      /\ g.hand[1 - p] = game.hand[1 - p]
      /\ g.nHand = game.nHand /\ g.leader = game.leader
      /\ Cardinality(g.hand[p]) = Cardinality(game.hand[p]) - 1
      /\ g.played = game.played /\ ~g.resolving
  BY <1>4 DEF FoxCardPut, FoxHands
<1>6. game.nHand \in Nat
  BY <1>2 DEF FoxBody, Fox!Table
<1>7. FoxEven(g)
  <2>1. \A r \in {0, 1} : r = p \/ r = 1 - p
    OBVIOUS
  <2>2. 1 - p # p /\ 1 - p \in {0, 1}
    OBVIOUS
  <2>3. /\ Cardinality(game.hand[p]) = FoxOwed(game, p)
        /\ Cardinality(game.hand[1 - p]) = FoxOwed(game, 1 - p)
    BY <1>2, <2>2 DEF FoxCounted
  <2> QED
    <3>1. PICK l \in {1, 2} : l = Len(game.played)
      BY <1>2
    <3>2. Cardinality(g.hand[p]) =
        g.nHand - (IF Len(g.played) > 0 /\ (p = g.leader \/ Len(g.played) = 2) THEN 1 ELSE 0)
      BY <1>2, <1>5, <1>6, <2>3, <3>1 DEF FoxOwed, Fox!Draw
    <3>3. Cardinality(g.hand[1 - p]) =
        g.nHand - (IF Len(g.played) > 0 /\ (1 - p = g.leader \/ Len(g.played) = 2) THEN 1 ELSE 0)
      <4>1. PICK o \in {0, 1} : o = 1 - p /\ o # p
        BY <2>2
      <4>2. /\ Cardinality(game.hand[o]) = FoxOwed(game, o) /\ g.hand[o] = game.hand[o]
            /\ o # FoxLast(game)
        BY <1>2, <1>5, <2>3, <4>1
      <4>3. Cardinality(g.hand[o]) =
          g.nHand - (IF Len(g.played) > 0 /\ (o = g.leader \/ Len(g.played) = 2) THEN 1 ELSE 0)
        BY <1>5, <1>6, <4>2 DEF FoxOwed
      <4> QED
        BY <4>1, <4>3
    <3> QED
      BY <2>1, <3>2, <3>3 DEF FoxEven
<1>8. FoxCounted(g)
  BY <1>5, <1>7, FoxEvenCounts
<1>9. PICK e : e = game'
  OBVIOUS
<1>10. e \in Fox!EndCardPlay(g)
  BY <1>3, <1>9
<1>11. Len(g.played) \in {1, 2}
  BY <1>2, <1>5
<1>12. FoxHolds(e)
  BY <1>5, <1>8, <1>10, <1>11, FoxTrickEnds
<1> QED
  BY <1>9, <1>12 DEF FoxInv

\* exchange_card
LEMMA FoxExchangeStep ==
    ASSUME FoxInv, NEW p \in {0, 1}, NEW card, Fox!ExchangeCard(p, card)
    PROVE  FoxInv'
<1>1. Fox!Resolves(p, Fox!Exchange) /\ card \in game.hand[p] \cup {game.trump}
  BY DEF Fox!ExchangeCard
<1>2. /\ FoxBody(game) /\ FoxCounted(game) /\ game.resolving
      /\ Len(game.played) \in {1, 2} /\ p = FoxLast(game)
      /\ Fox!Value(game.played[Len(game.played)]) = Fox!Exchange
  BY <1>1, FoxResolves
<1>3. PICK g : /\ g = [game EXCEPT !.resolving = FALSE, !.trump = card,
                              !.hand[p] = (@ \cup {game.trump}) \ {card}]
               /\ game' \in Fox!EndCardPlay(g)
  BY DEF Fox!ExchangeCard
<1>4. FoxCardExchanged(game, g, p)
  BY <1>1, <1>2, <1>3, FoxExchanges
<1>5. /\ FoxBody(g) /\ Cardinality(game.hand[p]) \in Nat
      /\ g.hand[1 - p] = game.hand[1 - p]
      /\ g.nHand = game.nHand /\ g.leader = game.leader
      /\ Cardinality(g.hand[p]) = Cardinality(game.hand[p])
      /\ g.played = game.played /\ ~g.resolving
  BY <1>4 DEF FoxCardExchanged, FoxHands
<1>6. game.nHand \in Nat
  BY <1>2 DEF FoxBody, Fox!Table
<1>7. FoxEven(g)
  <2>1. \A r \in {0, 1} : r = p \/ r = 1 - p
    OBVIOUS
  <2>2. 1 - p # p /\ 1 - p \in {0, 1}
    OBVIOUS
  <2>3. /\ Cardinality(game.hand[p]) = FoxOwed(game, p)
        /\ Cardinality(game.hand[1 - p]) = FoxOwed(game, 1 - p)
    BY <1>2, <2>2 DEF FoxCounted
  <2> QED
    BY <1>2, <1>5, <1>6, <2>1, <2>2, <2>3 DEF FoxEven, FoxOwed, Fox!Exchange
<1>8. FoxCounted(g)
  BY <1>5, <1>7, FoxEvenCounts
<1>9. PICK e : e = game'
  OBVIOUS
<1>10. e \in Fox!EndCardPlay(g)
  BY <1>3, <1>9
<1>11. Len(g.played) \in {1, 2}
  BY <1>2, <1>5
<1>12. FoxHolds(e)
  BY <1>5, <1>8, <1>10, <1>11, FoxTrickEnds
<1> QED
  BY <1>9, <1>12 DEF FoxInv

LEMMA FoxStep ==
    ASSUME FoxInv, [Fox!Next]_game
    PROVE  FoxInv'
<1>1. CASE UNCHANGED game
  BY <1>1 DEF FoxInv
<1>2. CASE Fox!PlayTooLate
  <2>1. ~game.resolving /\ Len(game.played) = 2 /\ ~game.over
    BY <1>2 DEF Fox!PlayTooLate, Fox!Running
  <2>2. game \in Fox!Table /\ game.ending
    BY <2>1 DEF FoxInv, FoxHolds, FoxAsked
  <2>3. PICK e : e = game'
    OBVIOUS
  <2>4. e \in Fox!Table /\ e.ending /\ e.resolving = game.resolving /\ e.played = game.played
    BY <1>2, <2>2, <2>3 DEF Fox!PlayTooLate, Fox!Table
  <2> QED
    BY <2>1, <2>3, <2>4 DEF FoxInv, FoxHolds
<1>3. CASE Fox!Timers
  <2>1. game.ending
    BY <1>3 DEF Fox!Timers
  <2>2. game \in Fox!Table /\ ~game.resolving /\ Len(game.played) = 2
    BY <2>1 DEF FoxInv, FoxHolds
  <2>3. PICK e : e = game'
    OBVIOUS
  <2>4. e \in Fox!Table /\ e.over /\ e.resolving = game.resolving /\ e.played = game.played
    BY <1>3, <2>2, <2>3 DEF Fox!Timers, Fox!Table
  <2> QED
    BY <2>2, <2>3, <2>4 DEF FoxInv, FoxHolds
<1>4. CASE \E p \in Fox!Players : Fox!Press(p)
  <2>1. PICK p \in {0, 1} : Fox!Press(p)
    BY <1>4, FoxNumbers
  <2>2. CASE \E card \in game.pack : Fox!PlayCard(p, card)
    BY <2>2, FoxPlayStep
  <2>3. CASE \E card \in game.pack : Fox!DiscardCard(p, card)
    BY <2>3, FoxDiscardStep
  <2>4. CASE \E card \in game.pack : Fox!ExchangeCard(p, card)
    BY <2>4, FoxExchangeStep
  <2> QED
    BY <1>2, <2>1, <2>2, <2>3, <2>4 DEF Fox!Press
<1> QED
  BY <1>1, <1>3, <1>4 DEF Fox!Next

(* What the invariant says of the properties of the game.                    *)
LEMMA FoxMeans ==
    ASSUME FoxInv
    PROVE  Fox!TypeOK /\ Fox!CardsOnce /\ Fox!HandsMatch /\ Fox!NeverStuck
<1>1. game \in Fox!Table
  BY DEF FoxInv, FoxHolds
<1>2. SUFFICES ASSUME Fox!Playing
               PROVE  Fox!CardsOnce /\ Fox!HandsMatch /\ Fox!NeverStuck
  BY <1>1 DEF Fox!TypeOK, Fox!CardsOnce, Fox!HandsMatch, Fox!NeverStuck
<1>3. FoxBody(game) /\ FoxCounted(game) /\ FoxAsked(game)
  BY <1>2 DEF FoxInv, FoxHolds, Fox!Playing
<1>4. Fox!NeverStuck
  BY <1>3 DEF FoxBody, FoxAsked, Fox!NeverStuck
<1>5. /\ game.nHand \in Nat /\ game.nHand > 0 /\ game.leader \in {0, 1}
      /\ Fox!LastPlayer = FoxLast(game) /\ FoxLast(game) \in {0, 1}
      /\ Fox!Last(game.played) = game.played[Len(game.played)]
  BY <1>3, FoxNumbers
     DEF FoxBody, Fox!Table, Fox!LastPlayer, Fox!Other, FoxLast, Fox!Last
<1>6. Fox!HandsMatch
  <2>1. \A p \in Fox!Players : Fox!Cardinality(game.hand[p]) = FoxOwed(game, p)
    BY <1>3, FoxNumbers DEF FoxCounted
  <2>2. ASSUME game.resolving
        PROVE  /\ Fox!Value(Fox!Last(game.played)) \in {Fox!Exchange, Fox!Draw}
               /\ game.hand[Fox!LastPlayer] # {}
    <3>1. game.nHand > 1 /\ Fox!Value(game.played[Len(game.played)]) \in {3, 5}
      BY <1>3, <2>2 DEF FoxAsked
    <3>2. PICK p \in {0, 1} : p = FoxLast(game)
      BY <1>5
    <3>3. Cardinality(game.hand[p]) > 0
      <4>1. FoxOwed(game, p) \in Int /\ FoxOwed(game, p) >= game.nHand - 1
        BY <1>5 DEF FoxOwed
      <4>2. Cardinality(game.hand[p]) = FoxOwed(game, p)
        BY <1>3 DEF FoxCounted
      <4> QED
        BY <1>5, <3>1, <4>1, <4>2
    <3>4. game.hand[p] # {}
      BY <3>3, FS_EmptySet
    <3> QED
      BY <1>5, <3>1, <3>2, <3>4 DEF Fox!Exchange, Fox!Draw
  <2> QED
    BY <1>5, <2>1, <2>2 DEF Fox!HandsMatch, FoxOwed, Fox!Draw
<1>7. Fox!CardsOnce
  <2>1. PICK q : q = FoxPlaces(game)
    OBVIOUS
  <2>2. FoxParted(game.pack, q, FoxLost(game))
    BY <1>3, <2>1 DEF FoxBody
  <2>3. PICK places : places = <<game.hand[0], game.hand[1], game.fresh, Fox!Range(game.bottom),
                    Fox!Range(game.played), {game.trump}>>
    OBVIOUS
  <2>4. /\ DOMAIN places = 1 .. 6
        /\ \A k \in 1 .. 6 : places[k] = q[k]
    <3>1. /\ q[1] = game.hand[0] /\ q[2] = game.hand[1] /\ q[3] = game.fresh
          /\ q[4] = Fox!Range(game.bottom) /\ q[5] = Fox!Range(game.played)
          /\ q[6] = {game.trump}
      BY <2>1, FoxPlacesAre
    <3>2. /\ places[1] = game.hand[0] /\ places[2] = game.hand[1] /\ places[3] = game.fresh
          /\ places[4] = Fox!Range(game.bottom) /\ places[5] = Fox!Range(game.played)
          /\ places[6] = {game.trump} /\ DOMAIN places = 1 .. 6
      BY <2>3
    <3>3. \A k \in 1 .. 6 : k = 1 \/ k = 2 \/ k = 3 \/ k = 4 \/ k = 5 \/ k = 6
      OBVIOUS
    <3> QED
      BY <3>1, <3>2, <3>3
  <2>5. \A i, j \in DOMAIN places : i # j => places[i] \cap places[j] = {}
    BY <2>2, <2>4 DEF FoxParted
  <2>6. PICK f : f = [i \in DOMAIN places |-> Fox!Cardinality(places[i])]
    OBVIOUS
  <2>7. Fox!MapThenSumSet(LAMBDA i : Fox!Cardinality(places[i]), DOMAIN places)
          = Sum(f, DOMAIN places)
    BY <2>6 DEF Sum, Fox!MapThenSumSet, MapThenSumSet, Fox!MapThenFoldSet, MapThenFoldSet
  <2>8. f = FoxSizes(q)
    BY <2>4, <2>6, FoxNumbers DEF FoxSizes
  <2>9. Sum(f, DOMAIN places) + 2 * (game.tricks[0] + game.tricks[1])
          = Fox!Cardinality(game.pack)
    BY <2>2, <2>4, <2>8, FoxNumbers DEF FoxParted, FoxLost
  <2> QED
    BY <2>3, <2>5, <2>7, <2>9 DEF Fox!CardsOnce
<1> QED
  BY <1>4, <1>6, <1>7

--------------------------------------------------------------------------
(* Snitch: bags and sums *)

SnP == Snitch!Players
SnN == SnitchRules.NPlayers
SnPer == SnitchRules.CardsPerRole
SnBase == SnitchRules.BaseCards

LEMMA SnitchNumbers ==
    /\ SnN \in Nat /\ SnN > 0
    /\ SnitchRules.NBaseRoles \in Nat /\ SnPer \in Nat /\ SnBase \in Nat
    /\ SnitchRules.Snitches \in Nat /\ SnitchRules.NRounds \in Nat
    /\ SnitchRules.LateMax \in Nat
    /\ SnitchRules.NRounds <= SnBase + SnitchRules.Snitches
    /\ SnN * SnBase + SnN <= SnitchRules.NBaseRoles * SnPer
BY Setups DEF Setups, Snitch!Setup, SnN, SnPer, SnBase

LEMMA SnitchSets ==
    /\ IsFiniteSet(SnP) /\ Cardinality(SnP) = SnN
    /\ IsFiniteSet(Snitch!Base) /\ Cardinality(Snitch!Base) = SnitchRules.NBaseRoles
    /\ IsFiniteSet(Snitch!Roles)
    /\ Snitch!Roles = Snitch!Base \cup {Snitch!Snitch} /\ Snitch!Snitch \notin Snitch!Base
    /\ Snitch!None \notin Snitch!Roles
    /\ \A S : Snitch!Cardinality(S) = Cardinality(S)
<1> DEFINE m == SnN - 1
           b == SnitchRules.NBaseRoles
<1>1. 0 \in Int /\ m \in Int /\ m >= 0 /\ m + 1 = SnN /\ m - 0 + 1 = SnN
  BY SnitchNumbers
<1>2. b \in Int /\ 1 \in Int /\ b >= 0 /\ b - 1 + 1 = b
  BY SnitchNumbers
<1>3. IsFiniteSet(0 .. m) /\ Cardinality(0 .. m) = m - 0 + 1
  <2> HIDE DEF m
  <2> QED
    BY <1>1, FS_Interval
<1>4. IsFiniteSet(1 .. b) /\ Cardinality(1 .. b) = b
  <2> HIDE DEF b
  <2>1. IsFiniteSet(1 .. b) /\ Cardinality(1 .. b) = IF 1 > b THEN 0 ELSE b - 1 + 1
    BY <1>2, FS_Interval
  <2> QED
    BY <1>2, <2>1
<1>5. SnP = 0 .. m /\ Snitch!Base = 1 .. b
  BY DEF SnP, SnN, Snitch!Players, Snitch!Base
<1>6. /\ Snitch!Roles = Snitch!Base \cup {Snitch!Snitch} /\ Snitch!Snitch \notin Snitch!Base
      /\ Snitch!None \notin Snitch!Roles
  BY SnitchNumbers DEF Snitch!Roles, Snitch!Base, Snitch!Snitch, Snitch!None
<1>7. IsFiniteSet(Snitch!Base \cup {Snitch!Snitch})
  <2>1. IsFiniteSet(Snitch!Base)
    BY <1>4, <1>5
  <2> QED
    BY <2>1, FS_AddElement
<1>8. \A S : Snitch!Cardinality(S) = Cardinality(S)
  BY DEF Snitch!Cardinality, Cardinality
<1> QED
  BY <1>1, <1>3, <1>4, <1>5, <1>6, <1>7, <1>8

\* The cards of a role in all hands.
SnHeld(cards, r) == Snitch!MapThenSumSet(LAMBDA p : cards[p][r], Snitch!Players)

LEMMA SnitchSums ==
    /\ \A bag : Snitch!Size(bag) = Sum(bag, DOMAIN bag)
    /\ \A cards, r : SnHeld(cards, r) = Sum([p \in SnP |-> cards[p][r]], SnP)
<1>1. \A bag : Snitch!Size(bag) = Sum(bag, DOMAIN bag)
  BY DEF Snitch!Size, Sum, Snitch!MapThenSumSet, MapThenSumSet, Snitch!MapThenFoldSet,
     MapThenFoldSet
<1>2. ASSUME NEW cards, NEW r
      PROVE  SnHeld(cards, r) = Sum([p \in SnP |-> cards[p][r]], SnP)
  BY DEF SnHeld, SnP, Sum, Snitch!MapThenSumSet, MapThenSumSet, Snitch!MapThenFoldSet,
     MapThenFoldSet
<1> QED
  BY <1>1, <1>2

(* Bags and hands are numbers of cards.                                      *)
LEMMA SnitchBags ==
    /\ \A bag \in Snitch!BaseBags : /\ Snitch!Size(bag) = Sum(bag, Snitch!Base)
                                    /\ Sum(bag, Snitch!Base) \in Nat
    /\ \A hand \in [Snitch!Roles -> Nat] :
          /\ Snitch!Size(hand) = Sum(hand, Snitch!Roles)
          /\ Sum(hand, Snitch!Roles) = Sum(hand, Snitch!Base) + hand[Snitch!Snitch]
          /\ Sum(hand, Snitch!Base) \in Nat
    /\ \A cards \in [SnP -> [Snitch!Roles -> Nat]] : \A r \in Snitch!Roles : SnHeld(cards, r) \in Nat
<1>1. ASSUME NEW bag \in Snitch!BaseBags
      PROVE  /\ Snitch!Size(bag) = Sum(bag, Snitch!Base)
             /\ Sum(bag, Snitch!Base) \in Nat
  <2>1. DOMAIN bag = Snitch!Base /\ \A r \in Snitch!Base : bag[r] \in Nat
    BY DEF Snitch!BaseBags
  <2> QED
    BY <2>1, SnitchSets, SnitchSums, SumNat
<1>2. ASSUME NEW hand \in [Snitch!Roles -> Nat]
      PROVE  /\ Snitch!Size(hand) = Sum(hand, Snitch!Roles)
             /\ Sum(hand, Snitch!Roles) = Sum(hand, Snitch!Base) + hand[Snitch!Snitch]
             /\ Sum(hand, Snitch!Base) \in Nat
  <2>1. DOMAIN hand = Snitch!Roles
    OBVIOUS
  <2>2. Snitch!Size(hand) = Sum(hand, Snitch!Roles)
    BY <2>1, SnitchSums
  <2>3. \A r \in Snitch!Roles : hand[r] \in Int
    OBVIOUS
  <2>4. Sum(hand, Snitch!Base \cup {Snitch!Snitch}) = Sum(hand, Snitch!Base) + hand[Snitch!Snitch]
    <3>1. Snitch!Base \in SUBSET Snitch!Roles /\ Snitch!Snitch \in Snitch!Roles \ Snitch!Base
      BY SnitchSets
    <3> QED
      BY <2>3, <3>1, SnitchSets, SumAdd
  <2>5. \A r \in Snitch!Base : hand[r] \in Nat
    BY SnitchSets
  <2>6. Sum(hand, Snitch!Base) \in Nat
    BY <2>5, SnitchSets, SumNat
  <2> QED
    BY <2>2, <2>4, <2>6, SnitchSets
<1>3. ASSUME NEW cards \in [SnP -> [Snitch!Roles -> Nat]], NEW r \in Snitch!Roles
      PROVE  SnHeld(cards, r) \in Nat
  <2>1. PICK f : f = [p \in SnP |-> cards[p][r]]
    OBVIOUS
  <2>2. \A p \in SnP : f[p] \in Nat
    BY <2>1
  <2>3. Sum(f, SnP) \in Nat
    BY <2>2, SnitchSets, SumNat
  <2> QED
    BY <2>1, <2>3, SnitchSums
<1> QED
  BY <1>1, <1>2, <1>3

--------------------------------------------------------------------------
(* Snitch: the invariant *)

\* Where the cards are, and what everybody holds, while the game goes on.
SnitchCards(g) ==
    /\ \A r \in Snitch!Base :
          g.deck[r] + g.discarded[r] + (IF g.size # Snitch!None THEN g.heist[r] ELSE 0)
              + SnHeld(g.cards, r) = SnPer
    /\ \A p \in SnP : /\ Sum(g.cards[p], Snitch!Roles) = SnBase + SnitchRules.Snitches - g.round
                      /\ Sum(g.cards[p], Snitch!Base) <= SnBase
    /\ \A p \in SnP : g.chosen[p] # Snitch!None => g.cards[p][g.chosen[p]] > 0

SnitchHolds(g) ==
    /\ g \in Snitch!Table
    /\ ~g.ending /\ ~g.over => ~g.aborted /\ SnitchCards(g)

SnitchInv == SnitchHolds(game)

LEMMA SnitchInitially ==
    ASSUME Snitch!Init
    PROVE  SnitchInv
<1>1. PICK h \in Snitch!Hands, q \in Snitch!Players :
        game = [deck |-> [r \in Snitch!Base |-> SnPer - SnHeld(h, r)],
                discarded |-> Snitch!Empty, heist |-> Snitch!Empty, size |-> Snitch!None,
                cards |-> [p \in Snitch!Players |-> [r \in Snitch!Roles |->
                    IF r = Snitch!Snitch THEN SnitchRules.Snitches ELSE h[p][r]]],
                chosen |-> [p \in Snitch!Players |-> Snitch!None],
                coins |-> [p \in Snitch!Players |-> 3],
                round |-> 0, first |-> q, ending |-> FALSE, over |-> FALSE,
                aborted |-> FALSE, late |-> 0]
  BY DEF Snitch!Init, SnHeld, SnPer
<1>2. PICK cards : cards = [p \in SnP |-> [r \in Snitch!Roles |->
                    IF r = Snitch!Snitch THEN SnitchRules.Snitches ELSE h[p][r]]]
  OBVIOUS
<1>3. PICK deck : deck = [r \in Snitch!Base |-> SnPer - SnHeld(h, r)]
  OBVIOUS
<1>4. /\ \A p \in SnP : /\ h[p] \in Snitch!BaseBags
                        /\ Sum(h[p], Snitch!Base) = SnBase
      /\ \A r \in Snitch!Base : SnHeld(h, r) <= SnPer
  <2>1. /\ h \in [SnP -> Snitch!Picks([r \in Snitch!Base |-> SnPer], SnBase)]
        /\ \A r \in Snitch!Base : SnHeld(h, r) <= SnPer
    BY DEF Snitch!Hands, SnP, SnPer, SnBase, SnHeld
  <2>2. ASSUME NEW pick \in Snitch!Picks([r \in Snitch!Base |-> SnPer], SnBase)
        PROVE  pick \in Snitch!BaseBags /\ Sum(pick, Snitch!Base) = SnBase
    <3>1. pick \in [Snitch!Base -> 0 .. SnBase] /\ Snitch!Size(pick) = SnBase
      BY DEF Snitch!Picks
    <3>2. pick \in Snitch!BaseBags
      BY <3>1, SnitchNumbers DEF Snitch!BaseBags
    <3> QED
      BY <3>1, <3>2, SnitchBags
  <2> QED
    BY <2>1, <2>2
<1>5. cards \in [SnP -> [Snitch!Roles -> Nat]]
  BY <1>2, <1>4, SnitchNumbers, SnitchSets DEF Snitch!BaseBags
<1>6. ASSUME NEW p \in SnP
      PROVE  /\ Sum(cards[p], Snitch!Base) = SnBase
             /\ Sum(cards[p], Snitch!Roles) = SnBase + SnitchRules.Snitches
  <2>1. PICK a : a = cards[p]
    OBVIOUS
  <2>2. PICK b : b = h[p]
    OBVIOUS
  <2>3. /\ \A r \in Snitch!Base : b[r] \in Int /\ a[r] = b[r]
        /\ a[Snitch!Snitch] = SnitchRules.Snitches
    BY <1>2, <1>4, <2>1, <2>2, SnitchSets DEF Snitch!BaseBags
  <2>4. Sum(a, Snitch!Base) = Sum(b, Snitch!Base)
    BY <2>3, SnitchSets, SumSame
  <2>5. a \in [Snitch!Roles -> Nat]
    BY <1>5, <2>1
  <2>6. Sum(a, Snitch!Roles) = Sum(a, Snitch!Base) + a[Snitch!Snitch]
    BY <2>5, SnitchBags
  <2> QED
    BY <1>4, <2>1, <2>2, <2>3, <2>4, <2>6
<1>7. ASSUME NEW r \in Snitch!Base
      PROVE  /\ SnHeld(cards, r) = SnHeld(h, r)
             /\ SnHeld(cards, r) \in Nat
  <2>1. [p \in SnP |-> cards[p][r]] = [p \in SnP |-> h[p][r]]
    BY <1>2, SnitchSets
  <2> QED
    BY <1>5, <2>1, SnitchBags, SnitchSets, SnitchSums
<1>8. deck \in Snitch!BaseBags
  BY <1>3, <1>4, <1>7, SnitchNumbers DEF Snitch!BaseBags
<1>9. Snitch!Empty \in Snitch!BaseBags
  BY DEF Snitch!Empty, Snitch!BaseBags
<1>10. game = [deck |-> deck,
                discarded |-> Snitch!Empty, heist |-> Snitch!Empty, size |-> Snitch!None,
                cards |-> cards,
                chosen |-> [p \in Snitch!Players |-> Snitch!None],
                coins |-> [p \in Snitch!Players |-> 3],
                round |-> 0, first |-> q, ending |-> FALSE, over |-> FALSE,
                aborted |-> FALSE, late |-> 0]
  BY <1>1, <1>2, <1>3 DEF SnP
<1>11. game \in Snitch!Table
  BY <1>5, <1>8, <1>9, <1>10, SnitchNumbers DEF Snitch!Table, SnP
<1>12. SnitchCards(game)
  <2>1. ASSUME NEW r \in Snitch!Base
        PROVE  deck[r] + Snitch!Empty[r] + 0 + SnHeld(cards, r) = SnPer
    BY <1>3, <1>7, SnitchNumbers DEF Snitch!Empty
  <2> QED
    BY <1>6, <1>10, <2>1, SnitchNumbers DEF SnitchCards, SnP
<1> QED
  BY <1>10, <1>11, <1>12 DEF SnitchInv, SnitchHolds

(* take_card: what is drawn is missing in the deck, or in what was discarded. *)
LEMMA SnitchDraw ==
    ASSUME game \in Snitch!Table, NEW n \in Nat, NEW d \in Snitch!Draws(n)
    PROVE  /\ d.drawn \in Snitch!BaseBags /\ d.deck \in Snitch!BaseBags
           /\ d.discarded \in Snitch!BaseBags
           /\ \A r \in Snitch!Base :
                 d.deck[r] + d.discarded[r] + d.drawn[r] = game.deck[r] + game.discarded[r]
<1>1. game.deck \in Snitch!BaseBags /\ game.discarded \in Snitch!BaseBags
  BY DEF Snitch!Table
<1>2. \A bag \in Snitch!BaseBags : \A k \in Nat : \A b \in Snitch!Picks(bag, k) :
         /\ b \in Snitch!BaseBags
         /\ Snitch!Minus(bag, b) \in Snitch!BaseBags
  BY DEF Snitch!Picks, Snitch!BaseBags, Snitch!Minus
<1>3. \A a, b \in Snitch!BaseBags : Snitch!Plus(a, b) \in Snitch!BaseBags
  BY DEF Snitch!Plus, Snitch!BaseBags
<1>4. Snitch!Size(game.deck) \in Nat
  BY <1>1, SnitchBags
<1>5. CASE n <= Snitch!Size(game.deck)
  <2>1. PICK b \in Snitch!Picks(game.deck, n) :
          d = [drawn |-> b, deck |-> Snitch!Minus(game.deck, b), discarded |-> game.discarded]
    BY <1>5 DEF Snitch!Draws
  <2>2. b \in Snitch!BaseBags /\ Snitch!Minus(game.deck, b) \in Snitch!BaseBags
    BY <1>1, <1>2
  <2>3. \A r \in Snitch!Base : Snitch!Minus(game.deck, b)[r] = game.deck[r] - b[r]
    BY DEF Snitch!Minus
  <2> QED
    BY <1>1, <2>1, <2>2, <2>3 DEF Snitch!BaseBags
<1>6. CASE ~(n <= Snitch!Size(game.deck))
  <2> DEFINE k == n - Snitch!Size(game.deck)
  <2>1. PICK b \in Snitch!Picks(game.discarded, k) :
          d = [drawn |-> Snitch!Plus(game.deck, b), deck |-> Snitch!Minus(game.discarded, b),
               discarded |-> Snitch!Empty]
    BY <1>6 DEF Snitch!Draws
  <2>2. k \in Nat
    BY <1>4, <1>6
  <2> HIDE DEF k
  <2>3. b \in Snitch!BaseBags /\ Snitch!Minus(game.discarded, b) \in Snitch!BaseBags
    BY <1>1, <1>2, <2>2
  <2>4. Snitch!Plus(game.deck, b) \in Snitch!BaseBags /\ Snitch!Empty \in Snitch!BaseBags
    BY <1>1, <1>3, <2>3 DEF Snitch!Empty, Snitch!BaseBags
  <2>5. \A r \in Snitch!Base : /\ Snitch!Minus(game.discarded, b)[r] = game.discarded[r] - b[r]
                               /\ Snitch!Plus(game.deck, b)[r] = game.deck[r] + b[r]
                               /\ Snitch!Empty[r] = 0
    BY DEF Snitch!Minus, Snitch!Plus, Snitch!Empty
  <2> QED
    BY <1>1, <2>1, <2>3, <2>4, <2>5 DEF Snitch!BaseBags
<1> QED
  BY <1>5, <1>6

(* discard_cards: everybody plays the card that they chose.                  *)
SnAllHold(g) ==
    \A p \in SnP : g.chosen[p] \in Snitch!Roles /\ g.cards[p][g.chosen[p]] > 0
SnPlayed(g, h) ==
    /\ h \in Snitch!Table
    /\ h.deck = g.deck /\ h.round = g.round /\ h.ending = g.ending /\ h.over = g.over
    /\ h.aborted = g.aborted
    /\ \A r \in Snitch!Base : h.discarded[r] + SnHeld(h.cards, r)
                                = g.discarded[r] + g.heist[r] + SnHeld(g.cards, r)
    /\ \A p \in SnP : /\ Sum(h.cards[p], Snitch!Roles) = Sum(g.cards[p], Snitch!Roles) - 1
                       /\ Sum(h.cards[p], Snitch!Base) <= Sum(g.cards[p], Snitch!Base)

LEMMA SnitchDiscard ==
    ASSUME NEW g \in Snitch!Table, SnAllHold(g)
    PROVE  SnPlayed(g, Snitch!Discarded(g))
<1>11. PICK h : h = Snitch!Discarded(g)
  OBVIOUS
<1>1. PICK cards : cards = [p \in SnP |-> [g.cards[p] EXCEPT ![g.chosen[p]] = @ - 1]]
  OBVIOUS
<1>2. PICK disc : disc = [r \in Snitch!Base |->
                   g.discarded[r] + Cardinality(Fibre(g.chosen, SnP, r)) + g.heist[r]]
  OBVIOUS
<1>3. h = [g EXCEPT !.cards = cards, !.discarded = disc]
  <2>1. \A r : Snitch!Cardinality(Snitch!Playing(g, r)) = Cardinality(Fibre(g.chosen, SnP, r))
    BY SnitchSets DEF Snitch!Playing, Fibre, SnP
  <2>2. disc = [r \in Snitch!Base |->
                   g.discarded[r] + Snitch!Cardinality(Snitch!Playing(g, r)) + g.heist[r]]
    BY <1>2, <2>1
  <2> QED
    BY <1>1, <1>11, <2>2 DEF Snitch!Discarded, SnP
<1>4. /\ g.cards \in [SnP -> [Snitch!Roles -> Nat]]
      /\ g.discarded \in Snitch!BaseBags /\ g.heist \in Snitch!BaseBags
  BY DEF Snitch!Table, SnP
<1>5. ASSUME NEW p \in SnP
      PROVE  /\ cards[p] \in [Snitch!Roles -> Nat]
             /\ cards[p][g.chosen[p]] = g.cards[p][g.chosen[p]] - 1
             /\ \A r \in Snitch!Roles : r # g.chosen[p] => cards[p][r] = g.cards[p][r]
  <2>1. cards[p] = [g.cards[p] EXCEPT ![g.chosen[p]] = @ - 1]
    BY <1>1
  <2>2. /\ g.cards[p] \in [Snitch!Roles -> Nat] /\ g.chosen[p] \in Snitch!Roles
        /\ g.cards[p][g.chosen[p]] > 0
    BY <1>4 DEF SnAllHold
  <2> QED
    BY <2>1, <2>2
<1>6. cards \in [SnP -> [Snitch!Roles -> Nat]]
  BY <1>1, <1>5
<1>7. disc \in Snitch!BaseBags
  BY <1>2, <1>4, SnitchSets, FibreFinite DEF Snitch!BaseBags
<1>8. /\ h \in Snitch!Table /\ h.cards = cards /\ h.discarded = disc
      /\ h.deck = g.deck /\ h.round = g.round /\ h.ending = g.ending /\ h.over = g.over
      /\ h.aborted = g.aborted
  BY <1>3, <1>6, <1>7 DEF Snitch!Table, SnP
<1>9. ASSUME NEW p \in SnP
      PROVE  /\ Sum(cards[p], Snitch!Roles) = Sum(g.cards[p], Snitch!Roles) - 1
             /\ Sum(cards[p], Snitch!Base) <= Sum(g.cards[p], Snitch!Base)
  <2>1. PICK a : a = g.cards[p]
    OBVIOUS
  <2>2. PICK b : b = cards[p]
    OBVIOUS
  <2>3. PICK x \in Snitch!Roles : x = g.chosen[p]
    BY DEF SnAllHold
  <2>4. \A i \in Snitch!Roles : a[i] \in Int /\ b[i] \in Int
    BY <1>4, <1>5, <2>1, <2>2
  <2>5. \A i \in Snitch!Roles : i # x => a[i] = b[i]
    BY <1>5, <2>1, <2>2, <2>3
  <2>6. b[x] = a[x] - 1
    BY <1>5, <2>1, <2>2, <2>3
  <2>7. Sum(b, Snitch!Roles) = Sum(a, Snitch!Roles) + b[x] - a[x]
    BY <2>4, <2>5, SnitchSets, SumChange
  <2>8. Sum(a, Snitch!Roles) \in Int
    BY <2>4, SnitchSets, SumType
  <2>9. \A i \in Snitch!Base : b[i] \in Int /\ a[i] \in Int /\ b[i] <= a[i]
    BY <2>4, <2>5, <2>6, SnitchSets
  <2>10. Sum(b, Snitch!Base) <= Sum(a, Snitch!Base)
    BY <2>9, SnitchSets, SumMonotonic
  <2> QED
    BY <2>1, <2>2, <2>4, <2>6, <2>7, <2>8, <2>10
<1>10. ASSUME NEW r \in Snitch!Base
       PROVE  disc[r] + SnHeld(cards, r) = g.discarded[r] + g.heist[r] + SnHeld(g.cards, r)
  <2> DEFINE F == Fibre(g.chosen, SnP, r)
  <2>1. PICK a : a = [p \in SnP |-> g.cards[p][r]]
    OBVIOUS
  <2>2. PICK b : b = [p \in SnP |-> cards[p][r]]
    OBVIOUS
  <2>3. PICK o : o = [p \in SnP |-> IF p \in F THEN 1 ELSE 0]
    OBVIOUS
  <2>4. r \in Snitch!Roles
    BY SnitchSets
  <2>5. \A p \in SnP : b[p] \in Int /\ o[p] \in Int /\ a[p] = b[p] + o[p]
    BY <1>4, <1>5, <2>1, <2>2, <2>3, <2>4 DEF Fibre
  <2>6. Sum(a, SnP) = Sum(b, SnP) + Sum(o, SnP)
    BY <2>5, SnitchSets, SumPlus
  <2>7. Sum(o, SnP) = Cardinality(F) /\ Cardinality(F) \in Nat
    <3>1. F \in SUBSET SnP /\ Cardinality(F) \in Nat
      BY SnitchSets, FibreFinite
    <3> HIDE DEF F
    <3>2. \A i \in SnP : o[i] = IF i \in F THEN 1 ELSE 0
      BY <2>3
    <3> QED
      BY <3>1, <3>2, SnitchSets, SumOfOnes
  <2>8. SnHeld(g.cards, r) = Sum(a, SnP) /\ SnHeld(cards, r) = Sum(b, SnP)
    BY <2>1, <2>2, SnitchSums
  <2>9. SnHeld(cards, r) \in Nat
    BY <1>6, <2>4, SnitchBags
  <2>10. g.discarded[r] \in Nat /\ g.heist[r] \in Nat
    BY <1>4 DEF Snitch!BaseBags
  <2> QED
    BY <1>2, <2>6, <2>7, <2>8, <2>9, <2>10
<1> QED
  BY <1>8, <1>9, <1>10, <1>11 DEF SnPlayed

LEMMA SnitchCoins ==
    ASSUME NEW g \in Snitch!Table
    PROVE  Snitch!Coins(g) \in [SnP -> Int]
<1> DEFINE loot == Cardinality(Snitch!Loyal(g))
           n == SnN - loot
           split == IF n = 0 THEN loot ELSE (loot + n - 1) \div n
<1>1. Snitch!Loyal(g) \in SUBSET SnP
  BY DEF Snitch!Loyal, SnP
<1>2. loot \in Nat /\ loot <= SnN
  BY <1>1, SnitchSets, FS_Subset, FS_CardinalityType
<1>3. g.coins \in [SnP -> Int] /\ g.size \in Int
  BY SnitchNumbers DEF Snitch!Table, SnP, Snitch!None, Snitch!MinHeistSize
<1>4. Snitch!Coins(g) = [p \in SnP |-> g.coins[p] +
          IF Snitch!Successful(g) THEN (IF p \in Snitch!Loyal(g) THEN g.size ELSE 0)
                                  ELSE (IF p \in Snitch!Loyal(g) THEN -1 ELSE split)]
  BY SnitchSets DEF Snitch!Coins, SnP, SnN
<1> HIDE DEF loot
<1>5. n \in Nat
  BY <1>2, SnitchNumbers
<1> HIDE DEF n
<1>6. split \in Int
  BY <1>2, <1>5
<1> QED
  BY <1>3, <1>4, <1>6

(* end_round: with everybody's card on the table.                            *)
LEMMA SnitchEnds ==
    ASSUME NEW g, SnitchHolds(g), \A p \in SnP : g.chosen[p] \in Snitch!Roles,
           g.size # Snitch!None
    PROVE  SnitchHolds(Snitch!EndRound(g))
<1>1. g \in Snitch!Table
  BY DEF SnitchHolds
<1>2. CASE \E p \in Snitch!Players : g.cards[p][g.chosen[p]] = 0
  <2>1. PICK e : e = Snitch!EndRound(g)
    OBVIOUS
  <2>2. e = [g EXCEPT !.aborted = TRUE]
    BY <1>2, <2>1 DEF Snitch!EndRound
  <2>3. e \in Snitch!Table /\ e.ending = g.ending /\ e.over = g.over
    BY <1>1, <2>2 DEF Snitch!Table
  <2>4. g.ending \/ g.over
    <3>1. SUFFICES ASSUME ~g.ending, ~g.over
                   PROVE  FALSE
      OBVIOUS
    <3>2. \A p \in SnP : g.chosen[p] # Snitch!None => g.cards[p][g.chosen[p]] > 0
      BY <3>1 DEF SnitchHolds, SnitchCards
    <3>3. \A p \in SnP : g.cards[p][g.chosen[p]] > 0
      BY <3>2, SnitchSets
    <3> QED
      BY <1>2, <3>3 DEF SnP
  <2> QED
    BY <2>1, <2>3, <2>4 DEF SnitchHolds
<1>3. CASE ~(\E p \in Snitch!Players : g.cards[p][g.chosen[p]] = 0)
  <2>1. \A p \in SnP : g.chosen[p] \in Snitch!Roles /\ g.cards[p][g.chosen[p]] > 0
    <3>1. \A p \in SnP : g.cards[p][g.chosen[p]] \in Nat /\ g.chosen[p] \in Snitch!Roles
      BY <1>1 DEF Snitch!Table, SnP
    <3> QED
      BY <1>3, <3>1 DEF SnP
  <2>2. PICK d : d = Snitch!Discarded(g)
    OBVIOUS
  <2>11. SnPlayed(g, d)
    <3>1. SnAllHold(g)
      BY <2>1 DEF SnAllHold
    <3> QED
      BY <1>1, <2>2, <3>1, SnitchDiscard
  <2>12. /\ d \in Snitch!Table
         /\ d.deck = g.deck /\ d.round = g.round /\ d.ending = g.ending /\ d.over = g.over
         /\ d.aborted = g.aborted
    BY <2>11 DEF SnPlayed
  <2>3. /\ \A r \in Snitch!Base : d.discarded[r] + SnHeld(d.cards, r)
                                    = g.discarded[r] + g.heist[r] + SnHeld(g.cards, r)
        /\ \A p \in SnP :
              /\ Sum(d.cards[p], Snitch!Roles) = Sum(g.cards[p], Snitch!Roles) - 1
              /\ Sum(d.cards[p], Snitch!Base) <= Sum(g.cards[p], Snitch!Base)
    BY <2>11 DEF SnPlayed
  <2>4. PICK coins \in [SnP -> Int] : coins = Snitch!Coins(g)
    BY <1>1, SnitchCoins
  <2>5. PICK h : h = [d EXCEPT !.round = d.round + 1, !.coins = coins]
    OBVIOUS
  <2>6. d.round = g.round /\ d.round \in Nat
    BY <1>1, <2>12 DEF Snitch!Table
  <2>7. /\ h \in Snitch!Table /\ h.cards = d.cards /\ h.discarded = d.discarded
        /\ h.deck = g.deck /\ h.round = g.round + 1 /\ h.ending = g.ending /\ h.over = g.over
        /\ h.aborted = g.aborted
    <3>1. PICK n \in Nat : n = d.round + 1
      BY <2>6
    <3>2. h = [d EXCEPT !.round = n, !.coins = coins]
      BY <2>5, <3>1
    <3>3. coins \in [Snitch!Players -> Int]
      BY DEF SnP
    <3>4. h \in Snitch!Table
      BY <2>12, <3>2, <3>3 DEF Snitch!Table
    <3>5. /\ h.cards = d.cards /\ h.discarded = d.discarded /\ h.deck = d.deck
          /\ h.round = n /\ h.ending = d.ending /\ h.over = d.over
          /\ h.aborted = d.aborted
      BY <2>12, <3>2 DEF Snitch!Table
    <3> QED
      BY <2>6, <2>12, <3>1, <3>4, <3>5
  <2>8. Snitch!EndRound(g) =
            IF h.round >= SnitchRules.NRounds
            THEN [h EXCEPT !.ending = TRUE]
            ELSE [h EXCEPT !.size = Snitch!None,
                           !.chosen = [p \in Snitch!Players |-> Snitch!None]]
    BY <1>3, <2>2, <2>4, <2>5 DEF Snitch!EndRound
  <2>9. CASE h.round >= SnitchRules.NRounds
    <3>1. PICK e : e = [h EXCEPT !.ending = TRUE]
      OBVIOUS
    <3>2. e \in Snitch!Table /\ e.ending
      BY <2>7, <3>1 DEF Snitch!Table
    <3> QED
      BY <2>8, <2>9, <3>1, <3>2 DEF SnitchHolds
  <2>10. CASE ~(h.round >= SnitchRules.NRounds)
    <3>1. PICK e : e = [h EXCEPT !.size = Snitch!None,
                           !.chosen = [p \in Snitch!Players |-> Snitch!None]]
      OBVIOUS
    <3>2. /\ e \in Snitch!Table /\ e.cards = h.cards /\ e.discarded = h.discarded
          /\ e.deck = h.deck /\ e.round = h.round /\ e.ending = h.ending /\ e.over = h.over
          /\ e.aborted = h.aborted /\ e.size = Snitch!None
          /\ \A p \in SnP : e.chosen[p] = Snitch!None
      BY <2>7, <3>1 DEF Snitch!Table, SnP
    <3>3. ASSUME ~g.ending, ~g.over
          PROVE  ~g.aborted /\ SnitchCards(e)
      <4>1. ~g.aborted /\ SnitchCards(g)
        BY <3>3 DEF SnitchHolds
      <4>2. ASSUME NEW r \in Snitch!Base
            PROVE  e.deck[r] + e.discarded[r] + 0 + SnHeld(e.cards, r) = SnPer
        <5>1. g.deck[r] + g.discarded[r] + g.heist[r] + SnHeld(g.cards, r) = SnPer
          BY <4>1 DEF SnitchCards
        <5>2. d.discarded[r] + SnHeld(d.cards, r)
                = g.discarded[r] + g.heist[r] + SnHeld(g.cards, r)
          BY <2>3
        <5>3. /\ g.deck[r] \in Nat /\ g.discarded[r] \in Nat /\ g.heist[r] \in Nat
              /\ d.discarded[r] \in Nat
          BY <1>1, <2>12 DEF Snitch!Table, Snitch!BaseBags
        <5>4. SnHeld(g.cards, r) \in Nat /\ SnHeld(d.cards, r) \in Nat
          <6>1. /\ g.cards \in [SnP -> [Snitch!Roles -> Nat]]
                /\ d.cards \in [SnP -> [Snitch!Roles -> Nat]]
            BY <1>1, <2>12 DEF Snitch!Table, SnP
          <6> QED
            BY <6>1, SnitchBags, SnitchSets
        <5> QED
          BY <2>7, <3>2, <5>1, <5>2, <5>3, <5>4
      <4>3. ASSUME NEW p \in SnP
            PROVE  /\ Sum(e.cards[p], Snitch!Roles)
                        = SnBase + SnitchRules.Snitches - e.round
                   /\ Sum(e.cards[p], Snitch!Base) <= SnBase
        <5>1. /\ Sum(g.cards[p], Snitch!Roles) = SnBase + SnitchRules.Snitches - g.round
              /\ Sum(g.cards[p], Snitch!Base) <= SnBase
          BY <4>1 DEF SnitchCards
        <5>2. /\ g.cards[p] \in [Snitch!Roles -> Nat]
              /\ d.cards[p] \in [Snitch!Roles -> Nat]
          BY <1>1, <2>12 DEF Snitch!Table, SnP
        <5>3. Sum(g.cards[p], Snitch!Base) \in Nat /\ Sum(d.cards[p], Snitch!Base) \in Nat
          BY <5>2, SnitchBags
        <5> QED
          BY <2>3, <2>6, <2>7, <3>2, <5>1, <5>3, SnitchNumbers
      <4> QED
        BY <3>2, <4>1, <4>2, <4>3 DEF SnitchCards
    <3> QED
      BY <2>7, <2>8, <2>10, <3>1, <3>2, <3>3 DEF SnitchHolds
  <2> QED
    BY <2>9, <2>10
<1> QED
  BY <1>2, <1>3

LEMMA SnitchStep ==
    ASSUME SnitchInv, [Snitch!Next]_game
    PROVE  SnitchInv'
<1>1. game \in Snitch!Table /\ SnitchHolds(game)
  BY DEF SnitchInv, SnitchHolds
<1>2. CASE UNCHANGED game
  BY <1>2 DEF SnitchInv
<1>3. ASSUME NEW p \in SnP, NEW n \in Snitch!MinHeistSize .. SnN, Snitch!SetHeistSize(p, n)
      PROVE  SnitchInv'
  <2>1. game.size = Snitch!None /\ ~game.over
    BY <1>3 DEF Snitch!SetHeistSize, Snitch!Running
  <2>2. PICK d \in Snitch!Draws(n) :
          game' = [game EXCEPT !.size = n, !.heist = d.drawn, !.deck = d.deck,
                              !.discarded = d.discarded,
                              !.chosen = [q \in Snitch!Players |-> Snitch!None]]
    BY <1>3 DEF Snitch!SetHeistSize
  <2>3. n \in Nat /\ n # Snitch!None
    BY SnitchNumbers DEF Snitch!MinHeistSize, Snitch!None
  <2>4. /\ d.drawn \in Snitch!BaseBags /\ d.deck \in Snitch!BaseBags
        /\ d.discarded \in Snitch!BaseBags
        /\ \A r \in Snitch!Base :
              d.deck[r] + d.discarded[r] + d.drawn[r] = game.deck[r] + game.discarded[r]
    BY <1>1, <2>3, SnitchDraw
  <2>5. PICK e : e = game'
    OBVIOUS
  <2>6. /\ e \in Snitch!Table /\ e.size = n /\ e.heist = d.drawn /\ e.deck = d.deck
        /\ e.discarded = d.discarded /\ e.cards = game.cards /\ e.round = game.round
        /\ e.ending = game.ending /\ e.over = game.over /\ e.aborted = game.aborted
        /\ \A q \in SnP : e.chosen[q] = Snitch!None
    <3>1. n \in {Snitch!None} \cup Snitch!MinHeistSize .. SnitchRules.NPlayers
      BY DEF SnN
    <3> QED
      BY <1>1, <2>2, <2>4, <2>5, <3>1 DEF Snitch!Table, SnP
  <2>7. ASSUME ~game.ending, ~game.over
        PROVE  ~game.aborted /\ SnitchCards(e)
    <3>1. ~game.aborted /\ SnitchCards(game)
      BY <1>1, <2>7 DEF SnitchHolds
    <3>2. ASSUME NEW r \in Snitch!Base
          PROVE  e.deck[r] + e.discarded[r] + e.heist[r] + SnHeld(e.cards, r) = SnPer
      <4>1. game.deck[r] + game.discarded[r] + 0 + SnHeld(game.cards, r) = SnPer
        BY <2>1, <3>1 DEF SnitchCards
      <4>2. d.deck[r] \in Nat /\ d.discarded[r] \in Nat /\ d.drawn[r] \in Nat
        BY <2>4 DEF Snitch!BaseBags
      <4>3. game.deck[r] \in Nat /\ game.discarded[r] \in Nat
        BY <1>1 DEF Snitch!Table, Snitch!BaseBags
      <4>4. SnHeld(game.cards, r) \in Nat
        BY <1>1, SnitchBags, SnitchSets DEF Snitch!Table, SnP
      <4> QED
        BY <2>4, <2>6, <4>1, <4>2, <4>3, <4>4
    <3> QED
      BY <2>3, <2>6, <3>1, <3>2 DEF SnitchCards
  <2> QED
    BY <2>5, <2>6, <2>7 DEF SnitchInv, SnitchHolds
<1>4. ASSUME NEW p \in SnP, NEW role \in Snitch!Roles, Snitch!ChooseCard(p, role)
      PROVE  SnitchInv'
  <2>1. /\ game.size # Snitch!None /\ game.cards[p][role] > 0
        /\ game.ending => game.late < SnitchRules.LateMax
    BY <1>4 DEF Snitch!ChooseCard
  <2>2. PICK g : /\ g = [game EXCEPT !.chosen[p] = role,
                              !.late = IF game.ending THEN @ + 1 ELSE 0]
                 /\ game' = IF \A q \in Snitch!Players : g.chosen[q] # Snitch!None
                            THEN Snitch!EndRound(g) ELSE g
    BY <1>4 DEF Snitch!ChooseCard
  <2>3. PICK late \in 0 .. SnitchRules.LateMax :
               late = IF game.ending THEN game.late + 1 ELSE 0
    BY <1>1, <2>1, SnitchNumbers DEF Snitch!Table
  <2>4. PICK chosen \in [SnP -> Snitch!Roles \cup {Snitch!None}] :
               chosen = [game.chosen EXCEPT ![p] = role]
    BY <1>1 DEF Snitch!Table, SnP
  <2>5. g = [game EXCEPT !.chosen = chosen, !.late = late]
    BY <2>2, <2>3, <2>4
  <2>6. /\ g \in Snitch!Table /\ g.chosen = chosen /\ g.size = game.size
        /\ g.deck = game.deck /\ g.discarded = game.discarded /\ g.heist = game.heist
        /\ g.cards = game.cards /\ g.round = game.round /\ g.ending = game.ending
        /\ g.over = game.over /\ g.aborted = game.aborted
    BY <1>1, <2>3, <2>4, <2>5 DEF Snitch!Table, SnP
  <2>7. ASSUME ~game.ending, ~game.over
        PROVE  ~game.aborted /\ SnitchCards(g)
    <3>1. ~game.aborted /\ SnitchCards(game)
      BY <1>1, <2>7 DEF SnitchHolds
    <3>2. ASSUME NEW q \in SnP, chosen[q] # Snitch!None
          PROVE  game.cards[q][chosen[q]] > 0
      <4>1. CASE q = p
        <5>1. chosen[p] = role
          BY <1>1, <2>4 DEF Snitch!Table, SnP
        <5> QED
          BY <2>1, <4>1, <5>1
      <4>2. CASE q # p
        <5>1. chosen[q] = game.chosen[q]
          BY <1>1, <2>4, <4>2 DEF Snitch!Table, SnP
        <5> QED
          BY <3>1, <3>2, <5>1 DEF SnitchCards
      <4> QED
        BY <4>1, <4>2
    <3> QED
      BY <2>6, <3>1, <3>2 DEF SnitchCards
  <2>8. SnitchHolds(g)
    BY <2>6, <2>7 DEF SnitchHolds
  <2>9. CASE \A q \in Snitch!Players : g.chosen[q] # Snitch!None
    <3>1. \A q \in SnP : g.chosen[q] \in Snitch!Roles
      BY <2>4, <2>6, <2>9 DEF SnP
    <3>2. SnitchHolds(Snitch!EndRound(g))
      BY <2>1, <2>6, <2>8, <3>1, SnitchEnds
    <3> QED
      BY <2>2, <2>9, <3>2 DEF SnitchInv
  <2>10. CASE ~(\A q \in Snitch!Players : g.chosen[q] # Snitch!None)
    BY <2>2, <2>8, <2>10 DEF SnitchInv
  <2> QED
    BY <2>9, <2>10
<1>5. ASSUME Snitch!Timers
      PROVE  SnitchInv'
  <2>1. PICK e : e = game'
    OBVIOUS
  <2>2. e \in Snitch!Table /\ e.over = TRUE
    BY <1>1, <1>5, <2>1 DEF Snitch!Timers, Snitch!Table
  <2> QED
    BY <2>1, <2>2 DEF SnitchInv, SnitchHolds
<1> QED
  BY <1>2, <1>3, <1>4, <1>5 DEF Snitch!Next, Snitch!Press, SnP, SnN

(* What the invariant says of the properties of the game.  All hands together *)
(* leave enough cards for a heist.                                           *)
LEMMA SnitchMeans ==
    ASSUME SnitchInv
    PROVE  /\ Snitch!TypeOK /\ Snitch!CardsConserved /\ Snitch!HandsMatch
           /\ Snitch!DeckSuffices
<1>1. game \in Snitch!Table
  BY DEF SnitchInv, SnitchHolds
<1>2. SUFFICES ASSUME Snitch!Going
               PROVE  Snitch!CardsConserved /\ Snitch!HandsMatch /\ Snitch!DeckSuffices
  BY <1>1 DEF Snitch!TypeOK, Snitch!CardsConserved, Snitch!HandsMatch, Snitch!DeckSuffices
<1>3. ~game.aborted /\ SnitchCards(game)
  BY <1>2 DEF SnitchInv, SnitchHolds, Snitch!Going
<1>4. Snitch!CardsConserved
  BY <1>3 DEF SnitchCards, Snitch!CardsConserved, SnHeld, SnPer
<1>5. game.cards \in [SnP -> [Snitch!Roles -> Nat]]
  BY <1>1 DEF Snitch!Table, SnP
<1>6. Snitch!HandsMatch
  <2>1. \A p \in SnP : Snitch!Size(game.cards[p]) = Sum(game.cards[p], Snitch!Roles)
    BY <1>5, SnitchBags
  <2> QED
    BY <1>3, <2>1 DEF SnitchCards, Snitch!HandsMatch, SnP, SnBase
<1>7. ASSUME game.size = Snitch!None
      PROVE  Snitch!Size(game.deck) + Snitch!Size(game.discarded) >= SnN
  <2>1. PICK a \in Snitch!BaseBags : a = game.deck
    BY <1>1 DEF Snitch!Table
  <2>2. PICK b \in Snitch!BaseBags : b = game.discarded
    BY <1>1 DEF Snitch!Table
  <2>3. PICK held : held = [r \in Snitch!Base |-> SnHeld(game.cards, r)]
    OBVIOUS
  <2>4. PICK ab : ab = [r \in Snitch!Base |-> a[r] + b[r]]
    OBVIOUS
  <2>5. PICK all : all = [r \in Snitch!Base |-> ab[r] + held[r]]
    OBVIOUS
  <2>6. PICK mine : mine = [p \in SnP |-> Sum(game.cards[p], Snitch!Base)]
    OBVIOUS
  <2>7. \A r \in Snitch!Base : /\ a[r] \in Int /\ b[r] \in Int /\ held[r] \in Int
                               /\ ab[r] \in Int /\ all[r] \in Int
                               /\ ab[r] = a[r] + b[r] /\ all[r] = ab[r] + held[r]
    <3>1. ASSUME NEW r \in Snitch!Base
          PROVE  held[r] \in Int
      <4>1. r \in Snitch!Roles
        BY SnitchSets
      <4>2. SnHeld(game.cards, r) \in Nat
        BY <1>5, <4>1, SnitchBags
      <4>3. held[r] = SnHeld(game.cards, r)
        BY <2>3
      <4> QED
        BY <4>2, <4>3
    <3>2. \A r \in Snitch!Base : a[r] \in Int /\ b[r] \in Int
      BY DEF Snitch!BaseBags
    <3> QED
      BY <2>4, <2>5, <3>1, <3>2
  <2>8. \A r \in Snitch!Base : all[r] = SnPer
    <3>1. \A r \in Snitch!Base :
             game.deck[r] + game.discarded[r] + 0 + SnHeld(game.cards, r) = SnPer
      BY <1>3, <1>7 DEF SnitchCards
    <3> QED
      BY <2>1, <2>2, <2>3, <2>7, <3>1
  <2>9. Sum(ab, Snitch!Base) = Sum(a, Snitch!Base) + Sum(b, Snitch!Base)
    BY <2>7, SnitchSets, SumPlus
  <2>10. Sum(all, Snitch!Base) = Sum(ab, Snitch!Base) + Sum(held, Snitch!Base)
    BY <2>7, SnitchSets, SumPlus
  <2>11. Sum(all, Snitch!Base) = SnPer * SnitchRules.NBaseRoles
    <3>1. SnPer \in Int
      BY SnitchNumbers
    <3>2. Sum(all, Snitch!Base) = SnPer * Cardinality(Snitch!Base)
      BY <2>8, <3>1, SnitchSets, SumConstant
    <3> QED
      BY <3>2, SnitchSets
  <2>12. Sum(mine, SnP) = Sum(held, Snitch!Base)
    <3>1. PICK v : v = game.cards
      OBVIOUS
    <3>2. \A p \in SnP : \A r \in Snitch!Base : v[p][r] \in Int
      BY <1>5, <3>1, SnitchSets
    <3>3. \A p \in SnP : mine[p] = Sum(v[p], Snitch!Base)
      BY <2>6, <3>1
    <3>4. \A r \in Snitch!Base : held[r] = Sum(Column(v, SnP, r), SnP)
      BY <2>3, <3>1, SnitchSums DEF Column
    <3>5. IsFiniteSet(SnP)
      BY SnitchSets
    <3>6. PICK R : R = Snitch!Base
      OBVIOUS
    <3>7. IsFiniteSet(R)
      BY <3>6, SnitchSets
    <3>8. \A p \in SnP : \A r \in R : v[p][r] \in Int
      BY <3>2, <3>6
    <3>9. \A p \in SnP : mine[p] = Sum(v[p], R)
      BY <3>3, <3>6
    <3>10. \A r \in R : held[r] = Sum(Column(v, SnP, r), SnP)
      BY <3>4, <3>6
    <3>11. Sum(mine, SnP) = Sum(held, R)
      BY <3>5, <3>7, <3>8, <3>9, <3>10, SumSwap
    <3> QED
      BY <3>6, <3>11
  <2>13. Sum(mine, SnP) <= SnBase * SnN
    <3>1. PICK most : most = [p \in SnP |-> SnBase]
      OBVIOUS
    <3>2. \A p \in SnP : game.cards[p] \in [Snitch!Roles -> Nat]
      BY <1>5
    <3>3. \A p \in SnP : mine[p] \in Int /\ most[p] \in Int /\ mine[p] <= most[p]
      BY <1>3, <2>6, <3>1, <3>2, SnitchBags, SnitchNumbers DEF SnitchCards
    <3>4. Sum(mine, SnP) <= Sum(most, SnP)
      BY <3>3, SnitchSets, SumMonotonic
    <3>5. SnBase \in Int
      BY SnitchNumbers
    <3>6. Sum(most, SnP) = SnBase * Cardinality(SnP)
      BY <3>1, <3>5, SnitchSets, SumConstant
    <3> QED
      BY <3>4, <3>6, SnitchSets
  <2>14. /\ Sum(a, Snitch!Base) \in Nat /\ Sum(b, Snitch!Base) \in Nat
         /\ Snitch!Size(a) = Sum(a, Snitch!Base) /\ Snitch!Size(b) = Sum(b, Snitch!Base)
    BY SnitchBags
  <2>15. Sum(mine, SnP) \in Int
    <3>1. \A p \in SnP : mine[p] \in Int
      BY <1>5, <2>6, SnitchBags
    <3> QED
      BY <3>1, SnitchSets, SumType
  <2>16. /\ SnBase * SnN + SnN <= SnPer * SnitchRules.NBaseRoles
         /\ SnBase * SnN \in Int /\ SnPer * SnitchRules.NBaseRoles \in Int
    <3>1. /\ SnBase \in Int /\ SnN \in Int /\ SnPer \in Int /\ SnitchRules.NBaseRoles \in Int
          /\ SnN * SnBase + SnN <= SnitchRules.NBaseRoles * SnPer
      BY SnitchNumbers
    <3>2. \A x, y \in Int : x * y = y * x /\ x * y \in Int
      OBVIOUS
    <3> QED
      BY <3>1, <3>2
  <2> QED
    BY <2>1, <2>2, <2>9, <2>10, <2>11, <2>12, <2>13, <2>14, <2>15, <2>16, SnitchNumbers
<1> QED
  BY <1>4, <1>6, <1>7 DEF Snitch!DeckSuffices, SnN
=============================================================================
