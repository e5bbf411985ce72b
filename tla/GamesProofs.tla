----------------------------- MODULE GamesProofs -----------------------------
(* The other games, and all of them together: whatever game a conversation *)
(* plays, its table is sound after every button and every timer.           *)
(*                                                                         *)
(* Each game has an invariant of its own, which says what its counters and *)
(* timers have to do with each other; it is what its properties need to be *)
(* inductive, and each of its steps has a lemma. A step of the nine games  *)
(* is a step of one of them, so the theorems at the end only put these     *)
(* lemmas together.                                                        *)
EXTENDS CardProofs

--------------------------------------------------------------------------
(* Zombie *)

ZombieDiceThere(g) ==
    /\ Zombie!Size(g.box) + Zombie!Size(g.brains) + Zombie!Size(g.feet) + g.nShotguns
         = Zombie!Size(ZombieRules.StartAmount)
    /\ \A d \in Zombie!Dice :
          g.box[d] + g.brains[d] + g.feet[d] <= ZombieRules.StartAmount[d]
    /\ Zombie!Size(g.feet) <= ZombieRules.DicePerThrow

ZombieInv ==
    /\ Zombie!TypeOK
    /\ ZombieDiceThere(game)
    /\ Zombie!DeadDontStop
    /\ Zombie!FirstOverThreshold

LEMMA ZombieNumbers ==
    /\ ZombieRules.NPlayers \in Nat /\ ZombieRules.NPlayers > 0
    /\ ZombieRules.DicePerThrow \in Nat
    /\ ZombieRules.ShotgunsToKill \in Nat /\ ZombieRules.ShotgunsToKill > 0
    /\ ZombieRules.PointsToEndGame \in Nat /\ ZombieRules.PointsToEndGame > 0
    /\ ZombieRules.BrainMax \in Nat /\ ZombieRules.LateMax \in Nat
    /\ ZombieRules.StartAmount \in Zombie!Bags
    /\ Zombie!Size(ZombieRules.StartAmount)
         >= ZombieRules.DicePerThrow + ZombieRules.ShotgunsToKill - 1
  BY Setups DEF Setups, Zombie!Setup

LEMMA ZombieDice == IsFiniteSet(Zombie!Dice)
<1>1. Zombie!IsFiniteSet(Zombie!Dice)
  BY Setups DEF Setups, Zombie!Setup
<1> QED
  BY <1>1 DEF Zombie!IsFiniteSet, IsFiniteSet

LEMMA ZombieSize ==
    /\ \A b : Zombie!Size(b) = Sum(b, Zombie!Dice)
    /\ \A b \in Zombie!Bags : Zombie!Size(b) \in Nat
<1>1. \A b : Zombie!Size(b) = Sum(b, Zombie!Dice)
  BY DEF Zombie!Size, Sum, Zombie!MapThenSumSet, MapThenSumSet, Zombie!MapThenFoldSet,
     MapThenFoldSet
<1>2. ASSUME NEW b \in Zombie!Bags
      PROVE  Sum(b, Zombie!Dice) \in Nat
  <2>1. \A d \in Zombie!Dice : b[d] \in Nat
    BY DEF Zombie!Bags
  <2> QED
    BY <2>1, ZombieDice, SumNat
<1> QED
  BY <1>1, <1>2

LEMMA ZombiePlus ==
    ASSUME NEW a \in Zombie!Bags, NEW b \in Zombie!Bags
    PROVE  /\ Zombie!Plus(a, b) \in Zombie!Bags
           /\ \A d \in Zombie!Dice : Zombie!Plus(a, b)[d] = a[d] + b[d]
           /\ Zombie!Size(Zombie!Plus(a, b)) = Zombie!Size(a) + Zombie!Size(b)
<1> DEFINE c == Zombie!Plus(a, b)
<1>1. /\ c \in Zombie!Bags
      /\ \A d \in Zombie!Dice : c[d] = a[d] + b[d]
      /\ \A d \in Zombie!Dice : a[d] \in Int /\ b[d] \in Int
  BY DEF Zombie!Bags, Zombie!Plus
<1> HIDE DEF c
<1>2. Sum(c, Zombie!Dice) = Sum(a, Zombie!Dice) + Sum(b, Zombie!Dice)
  BY <1>1, ZombieDice, SumPlus
<1> QED
  BY <1>1, <1>2, ZombieSize DEF c

LEMMA ZombieMinus ==
    ASSUME NEW a \in Zombie!Bags, NEW b \in Zombie!Bags,
           \A d \in Zombie!Dice : b[d] <= a[d]
    PROVE  /\ Zombie!Minus(a, b) \in Zombie!Bags
           /\ \A d \in Zombie!Dice : Zombie!Minus(a, b)[d] = a[d] - b[d]
           /\ Zombie!Size(Zombie!Minus(a, b)) = Zombie!Size(a) - Zombie!Size(b)
<1> DEFINE c == Zombie!Minus(a, b)
<1>1. /\ c \in Zombie!Bags
      /\ \A d \in Zombie!Dice : c[d] = a[d] - b[d]
  BY DEF Zombie!Bags, Zombie!Minus
<1>2. /\ \A d \in Zombie!Dice : c[d] \in Int /\ b[d] \in Int
      /\ \A d \in Zombie!Dice : a[d] = c[d] + b[d]
  BY <1>1 DEF Zombie!Bags
<1> HIDE DEF c
<1>3. Sum(a, Zombie!Dice) = Sum(c, Zombie!Dice) + Sum(b, Zombie!Dice)
  BY <1>2, ZombieDice, SumPlus
<1>4. /\ Zombie!Size(a) \in Nat /\ Zombie!Size(b) \in Nat /\ Zombie!Size(c) \in Nat
  BY <1>1, ZombieSize
<1> QED
  BY <1>1, <1>3, <1>4, ZombieSize DEF c

LEMMA ZombiePicks ==
    ASSUME NEW bag \in Zombie!Bags, NEW n, NEW pick \in Zombie!Picks(bag, n)
    PROVE  /\ pick \in Zombie!Bags
           /\ Zombie!Size(pick) = n /\ n \in Nat
           /\ \A d \in Zombie!Dice : pick[d] <= bag[d]
<1>1. /\ pick \in [Zombie!Dice -> 0 .. n] /\ Zombie!Size(pick) = n
      /\ \A d \in Zombie!Dice : pick[d] <= bag[d]
  BY DEF Zombie!Picks
<1>2. pick \in Zombie!Bags
  BY <1>1 DEF Zombie!Bags
<1> QED
  BY <1>1, <1>2, ZombieSize

LEMMA ZombieNoDice ==
    /\ Zombie!NoDice \in Zombie!Bags
    /\ Zombie!Size(Zombie!NoDice) = 0
    /\ \A d \in Zombie!Dice : Zombie!NoDice[d] = 0
<1> DEFINE b == Zombie!NoDice
<1>1. /\ b \in Zombie!Bags
      /\ \A d \in Zombie!Dice : b[d] = 0
  BY DEF Zombie!NoDice, Zombie!Bags
<1> HIDE DEF b
<1>2. Sum(b, Zombie!Dice) = 0 * Cardinality(Zombie!Dice)
  BY <1>1, ZombieDice, SumConstant
<1>3. Cardinality(Zombie!Dice) \in Nat
  BY ZombieDice, FS_CardinalityType
<1> QED
  BY <1>1, <1>2, <1>3, ZombieSize DEF b

LEMMA ZombieInitially == Zombie!Init => ZombieInv
<1> SUFFICES ASSUME NEW p \in Zombie!Players,
       game = [score |-> [q \in Zombie!Players |-> 0], current |-> p, last |-> Zombie!None,
            box |-> ZombieRules.StartAmount, brains |-> Zombie!NoDice,
            feet |-> Zombie!NoDice, nBrains |-> 0, nShotguns |-> 0, drama |-> FALSE,
            ending |-> FALSE, over |-> FALSE, late |-> 0]
             PROVE  ZombieInv
  BY DEF Zombie!Init
<1>1. Zombie!TypeOK
  BY ZombieNumbers, ZombieNoDice DEF Zombie!TypeOK, Zombie!Table
<1>2. Zombie!Size(ZombieRules.StartAmount) \in Nat
      /\ \A d \in Zombie!Dice : ZombieRules.StartAmount[d] \in Nat
  BY ZombieNumbers, ZombieSize DEF Zombie!Bags
<1> QED
  BY <1>1, <1>2, ZombieNumbers, ZombieNoDice
     DEF ZombieInv, ZombieDiceThere, Zombie!DeadDontStop, Zombie!FirstOverThreshold

LEMMA ZombieBeforeAfter ==
    ASSUME NEW p \in Zombie!Players
    PROVE  /\ Zombie!Before(p) \in Zombie!Players
           /\ Zombie!After(p) \in Zombie!Players
           /\ Zombie!After(Zombie!Before(p)) = p
<1> DEFINE n == ZombieRules.NPlayers
<1>1. n \in Nat \ {0} /\ p \in 0 .. n - 1
  BY ZombieNumbers DEF Zombie!Players
<1>2. /\ Zombie!Before(p) = (p + n - 1) % n
      /\ \A q : Zombie!After(q) = (q + 1) % n
  BY DEF Zombie!Before, Zombie!After
<1> HIDE DEF n
<1>3. CASE p = 0
  <2>1. (p + n - 1) % n = n - 1
    BY <1>1, <1>3
  <2>2. ((n - 1) + 1) % n = 0 /\ (p + 1) % n \in 0 .. n - 1
    BY <1>1
  <2>3. Zombie!Before(p) = n - 1 /\ n - 1 \in 0 .. n - 1
    BY <1>1, <1>2, <2>1
  <2>4. Zombie!After(n - 1) = 0
    BY <1>2, <2>2
  <2> QED
    BY <1>2, <1>3, <2>2, <2>3, <2>4 DEF Zombie!Players, n
<1>4. CASE p # 0
  <2>1. (p + n - 1) % n = p - 1
    BY <1>1, <1>4
  <2>2. ((p - 1) + 1) % n = p /\ (p + 1) % n \in 0 .. n - 1
    BY <1>1
  <2> QED
    BY <1>1, <1>2, <1>4, <2>1, <2>2 DEF Zombie!Players, n
<1> QED
  BY <1>3, <1>4

LEMMA ZombieStartTurn ==
    ASSUME NEW g \in Zombie!Table
    PROVE  /\ Zombie!StartTurn(g) \in Zombie!Table
           /\ Zombie!StartTurn(g).last = g.last
           /\ Zombie!StartTurn(g).score = g.score
           /\ Zombie!StartTurn(g).box = ZombieRules.StartAmount
           /\ Zombie!StartTurn(g).brains = Zombie!NoDice
           /\ Zombie!StartTurn(g).feet = Zombie!NoDice
           /\ Zombie!StartTurn(g).nShotguns = 0
<1>1. ZombieRules.StartAmount \in Zombie!Bags /\ Zombie!NoDice \in Zombie!Bags
  BY ZombieNumbers, ZombieNoDice
<1> QED
  BY <1>1 DEF Zombie!Table, Zombie!StartTurn

(* Stop and a shot player end the turn, with what the dice say before.      *)
LEMMA ZombieEndTurn ==
    ASSUME NEW g \in Zombie!Table, NEW t, t = Zombie!EndTurn(g),
           ZombieDiceThere(g),
           g.last # Zombie!None =>
              g.score[Zombie!After(g.last)] >= ZombieRules.PointsToEndGame,
           game' = t
    PROVE  ZombieInv'
<1> DEFINE l == IF g.last = Zombie!None /\ g.score[g.current] >= ZombieRules.PointsToEndGame
                THEN Zombie!Before(g.current) ELSE g.last
<1>1. t = IF g.current = l
          THEN [g EXCEPT !.last = l, !.ending = TRUE]
          ELSE Zombie!StartTurn([g EXCEPT !.last = l, !.current = Zombie!After(g.current)])
  BY DEF Zombie!EndTurn
<1>2. /\ g.current \in Zombie!Players
      /\ l \in Zombie!Players \cup {Zombie!None}
      /\ l # Zombie!None => g.score[Zombie!After(l)] >= ZombieRules.PointsToEndGame
  BY ZombieBeforeAfter DEF Zombie!Table
<1> HIDE DEF l
<1>3. CASE g.current = l
  <2>1. /\ t \in Zombie!Table /\ t.ending /\ t.last = l /\ t.score = g.score
        /\ t.box = g.box /\ t.brains = g.brains /\ t.feet = g.feet
        /\ t.nShotguns = g.nShotguns
    BY <1>1, <1>2, <1>3, ZenonT(30) DEF Zombie!Table
  <2> QED
    BY <1>2, <2>1 DEF ZombieInv, ZombieDiceThere, Zombie!TypeOK, Zombie!DeadDontStop,
       Zombie!FirstOverThreshold, Zombie!Playing
<1>4. CASE g.current # l
  <2>1. Zombie!After(g.current) \in Zombie!Players
    BY <1>2, ZombieBeforeAfter
  <2>2. /\ t \in Zombie!Table /\ t.last = l /\ t.score = g.score
        /\ t.box = ZombieRules.StartAmount /\ t.brains = Zombie!NoDice
        /\ t.feet = Zombie!NoDice /\ t.nShotguns = 0
    <3>1. PICK h : h = [g EXCEPT !.last = l, !.current = Zombie!After(g.current)]
      OBVIOUS
    <3>2. h \in Zombie!Table /\ h.last = l /\ h.score = g.score
      BY <1>2, <2>1, <3>1 DEF Zombie!Table
    <3>3. t = Zombie!StartTurn(h)
      BY <1>1, <1>4, <3>1
    <3> QED
      BY <3>2, <3>3, ZombieStartTurn
  <2>3. Zombie!Size(ZombieRules.StartAmount) \in Nat
        /\ \A d \in Zombie!Dice : ZombieRules.StartAmount[d] \in Nat
    BY ZombieNumbers, ZombieSize DEF Zombie!Bags
  <2> QED
    BY <1>2, <2>2, <2>3, ZombieNumbers, ZombieNoDice DEF ZombieInv, ZombieDiceThere, Zombie!TypeOK,
       Zombie!DeadDontStop, Zombie!FirstOverThreshold, Zombie!Playing
<1> QED
  BY <1>3, <1>4

LEMMA ZombieStop ==
    ASSUME ZombieInv, NEW p \in Zombie!Players, Zombie!Stop(p)
    PROVE  ZombieInv'
<1>1. PICK g : g = [game EXCEPT !.score[p] = game.score[p] + game.nBrains,
                                !.late = Zombie!Late]
  OBVIOUS
<1>2. /\ game' = Zombie!EndTurn(g)
      /\ game.ending => game.late < ZombieRules.LateMax
  BY <1>1 DEF Zombie!Stop, Zombie!CanPress
<1>3. Zombie!Late \in 0 .. ZombieRules.LateMax
  BY <1>2, ZombieNumbers DEF Zombie!Late, ZombieInv, Zombie!TypeOK, Zombie!Table
<1>4. /\ g \in Zombie!Table
      /\ g.score = [game.score EXCEPT ![p] = game.score[p] + game.nBrains]
      /\ g.box = game.box /\ g.brains = game.brains /\ g.feet = game.feet
      /\ g.nShotguns = game.nShotguns /\ g.last = game.last
  <2>1. /\ game \in Zombie!Table
        /\ [game.score EXCEPT ![p] = game.score[p] + game.nBrains] \in [Zombie!Players -> Nat]
    BY DEF ZombieInv, Zombie!TypeOK, Zombie!Table
  <2> QED
    BY <1>1, <1>3, <2>1 DEF Zombie!Table
<1>5. g.last # Zombie!None =>
         g.score[Zombie!After(g.last)] >= ZombieRules.PointsToEndGame
  <2>1. SUFFICES ASSUME g.last # Zombie!None
                 PROVE  g.score[Zombie!After(g.last)] >= ZombieRules.PointsToEndGame
    OBVIOUS
  <2>2. g.last \in Zombie!Players
    BY <1>4, <2>1 DEF Zombie!Table
  <2>3. PICK q \in Zombie!Players : q = Zombie!After(g.last)
    BY <2>2, ZombieBeforeAfter
  <2>4. game.score[q] >= ZombieRules.PointsToEndGame
    BY <1>4, <2>1, <2>3 DEF ZombieInv, Zombie!FirstOverThreshold
  <2>5. g.score[q] >= game.score[q]
    BY <1>4 DEF ZombieInv, Zombie!TypeOK, Zombie!Table
  <2>6. g.score[q] \in Nat /\ game.score[q] \in Nat
    BY <1>4 DEF ZombieInv, Zombie!TypeOK, Zombie!Table
  <2> QED
    BY <2>3, <2>4, <2>5, <2>6, ZombieNumbers
<1>6. ZombieDiceThere(g)
  BY <1>4 DEF ZombieInv, ZombieDiceThere
<1> QED
  BY <1>2, <1>4, <1>5, <1>6, ZombieEndTurn

LEMMA ZombieDrama ==
    ASSUME ZombieInv, Zombie!Drama
    PROVE  ZombieInv'
<1>1. PICK g : g = [game EXCEPT !.drama = FALSE]
  OBVIOUS
<1>2. game' = IF g.nShotguns >= ZombieRules.ShotgunsToKill THEN Zombie!EndTurn(g) ELSE g
  BY <1>1 DEF Zombie!Drama
<1>3. /\ g \in Zombie!Table /\ g.score = game.score
      /\ g.box = game.box /\ g.brains = game.brains /\ g.feet = game.feet
      /\ g.nShotguns = game.nShotguns /\ g.last = game.last
  BY <1>1 DEF ZombieInv, Zombie!TypeOK, Zombie!Table
<1>4. /\ ZombieDiceThere(g)
      /\ g.last # Zombie!None =>
              g.score[Zombie!After(g.last)] >= ZombieRules.PointsToEndGame
  BY <1>3 DEF ZombieInv, ZombieDiceThere, Zombie!FirstOverThreshold
<1>5. CASE g.nShotguns >= ZombieRules.ShotgunsToKill
  BY <1>2, <1>3, <1>4, <1>5, ZombieEndTurn
<1>6. CASE ~(g.nShotguns >= ZombieRules.ShotgunsToKill)
  <2>1. game' = g
    BY <1>2, <1>6
  <2> QED
    BY <1>3, <1>4, <1>6, <2>1 DEF ZombieInv, Zombie!TypeOK, Zombie!DeadDontStop,
       Zombie!FirstOverThreshold
<1> QED
  BY <1>5, <1>6

(* The dice that a throw takes from, and how many.                          *)
LEMMA ZombieBoxes ==
    ASSUME ZombieInv, NEW b, b = Zombie!Boxes
    PROVE  /\ b.box \in Zombie!Bags /\ b.brains \in Zombie!Bags
           /\ Zombie!Size(b.box) + Zombie!Size(b.brains)
                = Zombie!Size(game.box) + Zombie!Size(game.brains)
           /\ \A d \in Zombie!Dice : b.box[d] + b.brains[d] = game.box[d] + game.brains[d]
           /\ b.need \in Int /\ b.need <= ZombieRules.DicePerThrow - Zombie!Size(game.feet)
<1> DEFINE need == ZombieRules.DicePerThrow - Zombie!Size(game.feet)
           all == Zombie!Plus(game.box, game.brains)
<1>1. /\ game.box \in Zombie!Bags /\ game.brains \in Zombie!Bags /\ game.feet \in Zombie!Bags
  BY DEF ZombieInv, Zombie!TypeOK, Zombie!Table
<1>2. /\ Zombie!Size(game.box) \in Nat /\ Zombie!Size(game.brains) \in Nat
      /\ Zombie!Size(game.feet) \in Nat
      /\ need \in Int
  BY <1>1, ZombieSize, ZombieNumbers
<1>3. /\ all \in Zombie!Bags
      /\ \A d \in Zombie!Dice : all[d] = game.box[d] + game.brains[d]
      /\ Zombie!Size(all) = Zombie!Size(game.box) + Zombie!Size(game.brains)
  BY <1>1, ZombiePlus
<1>4. \A x, y \in Int : /\ Zombie!Min({x, y}) \in Int
                       /\ Zombie!Min({x, y}) <= x
  <2>1. SUFFICES ASSUME NEW x \in Int, NEW y \in Int
                 PROVE  Zombie!Min({x, y}) \in Int /\ Zombie!Min({x, y}) <= x
    OBVIOUS
  <2>2. \E m \in {x, y} : \A z \in {x, y} : m <= z
    OBVIOUS
  <2>3. /\ Zombie!Min({x, y}) \in {x, y}
        /\ \A z \in {x, y} : Zombie!Min({x, y}) <= z
    BY <2>2 DEF Zombie!Min
  <2> QED
    BY <2>3
<1>5. b = IF Zombie!Size(game.box) < need
          THEN [box |-> all, brains |-> Zombie!NoDice,
                need |-> Zombie!Min({need, Zombie!Size(all)})]
          ELSE [box |-> game.box, brains |-> game.brains, need |-> need]
  BY DEF Zombie!Boxes
<1>6. CASE Zombie!Size(game.box) < need
  <2>1. /\ b.box = all /\ b.brains = Zombie!NoDice
        /\ b.need = Zombie!Min({need, Zombie!Size(all)})
    BY <1>5, <1>6
  <2>2. Zombie!Size(all) \in Int
    BY <1>2, <1>3
  <2>3. /\ Zombie!Min({need, Zombie!Size(all)}) \in Int
        /\ Zombie!Min({need, Zombie!Size(all)}) <= need
    BY <1>2, <1>4, <2>2
  <2>4. ASSUME NEW d \in Zombie!Dice
        PROVE  b.box[d] + b.brains[d] = game.box[d] + game.brains[d]
    <3>1. b.box[d] = game.box[d] + game.brains[d] /\ b.brains[d] = 0
      BY <1>3, <2>1, ZombieNoDice
    <3>2. game.box[d] \in Nat /\ game.brains[d] \in Nat
      BY <1>1 DEF Zombie!Bags
    <3> QED
      BY <3>1, <3>2
  <2> HIDE DEF need, all
  <2>5. Zombie!Size(b.box) + Zombie!Size(b.brains)
                = Zombie!Size(game.box) + Zombie!Size(game.brains)
    BY <1>2, <1>3, <2>1, <2>2, ZombieNoDice
  <2> QED
    BY <1>3, <2>1, <2>3, <2>4, <2>5, ZombieNoDice DEF need
<1>7. CASE ~(Zombie!Size(game.box) < need)
  <2>1. /\ b.box = game.box /\ b.brains = game.brains /\ b.need = need
    BY <1>5, <1>7
  <2> QED
    BY <1>1, <1>2, <2>1
<1> QED
  BY <1>6, <1>7

LEMMA ZombieThrow ==
    ASSUME ZombieInv, NEW p \in Zombie!Players, Zombie!Throw(p)
    PROVE  ZombieInv'
<1>1. PICK b : b = Zombie!Boxes
  OBVIOUS
<1>2. /\ game.ending => game.late < ZombieRules.LateMax
      /\ \E new \in Zombie!Picks(b.box, b.need) :
         \E thrown \in {Zombie!Plus(game.feet, new)} :
           \E nBrain, nFeet \in 0 .. Zombie!Size(thrown) :
             \E brain \in Zombie!Picks(thrown, nBrain) :
               \E feet \in Zombie!Picks(Zombie!Minus(thrown, brain), nFeet) :
                 game' = Zombie!ScoreDice(b, new, brain, feet)
  BY <1>1 DEF Zombie!Throw, Zombie!CanPress
<1>3. PICK new \in Zombie!Picks(b.box, b.need) :
         \E thrown \in {Zombie!Plus(game.feet, new)} :
           \E nBrain, nFeet \in 0 .. Zombie!Size(thrown) :
             \E brain \in Zombie!Picks(thrown, nBrain) :
               \E feet \in Zombie!Picks(Zombie!Minus(thrown, brain), nFeet) :
                 game' = Zombie!ScoreDice(b, new, brain, feet)
  BY <1>2
<1>4. PICK thrown : thrown = Zombie!Plus(game.feet, new)
  OBVIOUS
<1>5. PICK nBrain \in 0 .. Zombie!Size(thrown), nFeet \in 0 .. Zombie!Size(thrown) :
             \E brain \in Zombie!Picks(thrown, nBrain) :
               \E feet \in Zombie!Picks(Zombie!Minus(thrown, brain), nFeet) :
                 game' = Zombie!ScoreDice(b, new, brain, feet)
  BY <1>3, <1>4
<1>6. PICK brain \in Zombie!Picks(thrown, nBrain) :
               \E feet \in Zombie!Picks(Zombie!Minus(thrown, brain), nFeet) :
                 game' = Zombie!ScoreDice(b, new, brain, feet)
  BY <1>5
<1>7. PICK feet \in Zombie!Picks(Zombie!Minus(thrown, brain), nFeet) :
                 game' = Zombie!ScoreDice(b, new, brain, feet)
  BY <1>6
<1>8. /\ b.box \in Zombie!Bags /\ b.brains \in Zombie!Bags
      /\ Zombie!Size(b.box) + Zombie!Size(b.brains)
           = Zombie!Size(game.box) + Zombie!Size(game.brains)
      /\ \A d \in Zombie!Dice : b.box[d] + b.brains[d] = game.box[d] + game.brains[d]
      /\ b.need <= ZombieRules.DicePerThrow - Zombie!Size(game.feet)
  BY <1>1, ZombieBoxes
<1>9. /\ new \in Zombie!Bags /\ Zombie!Size(new) = b.need
      /\ \A d \in Zombie!Dice : new[d] <= b.box[d]
  BY <1>8, ZombiePicks
<1>10. PICK box : box = Zombie!Minus(b.box, new)
  OBVIOUS
<1>11. /\ box \in Zombie!Bags
       /\ \A d \in Zombie!Dice : box[d] = b.box[d] - new[d]
       /\ Zombie!Size(box) = Zombie!Size(b.box) - Zombie!Size(new)
  BY <1>8, <1>9, <1>10, ZombieMinus
<1>12. game.feet \in Zombie!Bags /\ game.box \in Zombie!Bags /\ game.brains \in Zombie!Bags
  BY DEF ZombieInv, Zombie!TypeOK, Zombie!Table
<1>13. /\ thrown \in Zombie!Bags
       /\ \A d \in Zombie!Dice : thrown[d] = game.feet[d] + new[d]
       /\ Zombie!Size(thrown) = Zombie!Size(game.feet) + Zombie!Size(new)
  BY <1>4, <1>9, <1>12, ZombiePlus
<1>14. /\ brain \in Zombie!Bags /\ Zombie!Size(brain) = nBrain
       /\ \A d \in Zombie!Dice : brain[d] <= thrown[d]
  BY <1>13, ZombiePicks
<1>15. PICK rest : rest = Zombie!Minus(thrown, brain)
  OBVIOUS
<1>16. /\ rest \in Zombie!Bags
       /\ \A d \in Zombie!Dice : rest[d] = thrown[d] - brain[d]
       /\ Zombie!Size(rest) = Zombie!Size(thrown) - Zombie!Size(brain)
  BY <1>13, <1>14, <1>15, ZombieMinus
<1>17. /\ feet \in Zombie!Bags /\ Zombie!Size(feet) = nFeet
       /\ \A d \in Zombie!Dice : feet[d] <= rest[d]
  BY <1>15, <1>16, ZombiePicks
<1>18. PICK left : left = Zombie!Minus(rest, feet)
  OBVIOUS
<1>19. left \in Zombie!Bags /\ Zombie!Size(left) = Zombie!Size(rest) - Zombie!Size(feet)
  BY <1>16, <1>17, <1>18, ZombieMinus
<1>20. PICK brains : brains = Zombie!Plus(b.brains, brain)
  OBVIOUS
<1>21. /\ brains \in Zombie!Bags
       /\ \A d \in Zombie!Dice : brains[d] = b.brains[d] + brain[d]
       /\ Zombie!Size(brains) = Zombie!Size(b.brains) + Zombie!Size(brain)
  BY <1>8, <1>14, <1>20, ZombiePlus
<1>22. /\ Zombie!Size(game.feet) \in Nat /\ Zombie!Size(new) \in Nat
       /\ Zombie!Size(thrown) \in Nat /\ Zombie!Size(brain) \in Nat
       /\ Zombie!Size(rest) \in Nat /\ Zombie!Size(feet) \in Nat
       /\ Zombie!Size(left) \in Nat /\ Zombie!Size(b.box) \in Nat
       /\ Zombie!Size(b.brains) \in Nat /\ Zombie!Size(game.box) \in Nat
       /\ Zombie!Size(game.brains) \in Nat
  BY <1>8, <1>9, <1>12, <1>13, <1>14, <1>16, <1>17, <1>19, ZombieSize
<1>23. PICK n : n = Zombie!Size(thrown) - nBrain - nFeet
  OBVIOUS
<1>24. n \in Nat
  BY <1>14, <1>16, <1>17, <1>19, <1>22, <1>23
<1>25. PICK shot : shot = game.nShotguns + Zombie!Size(game.feet) + Zombie!Size(new)
                            - Zombie!Size(brain) - Zombie!Size(feet)
  OBVIOUS
<1>26. game.nShotguns \in Nat /\ shot = game.nShotguns + n /\ nBrain \in Nat /\ shot \in Nat
  BY <1>13, <1>14, <1>17, <1>22, <1>23, <1>24, <1>25 DEF ZombieInv, Zombie!TypeOK, Zombie!Table
<1>27. Zombie!Late \in 0 .. ZombieRules.LateMax
  BY <1>2, ZombieNumbers DEF Zombie!Late, ZombieInv, Zombie!TypeOK, Zombie!Table
<1>28. game' = [game EXCEPT !.box = box, !.feet = feet, !.brains = brains,
                    !.nBrains = game.nBrains + nBrain, !.nShotguns = shot,
                    !.drama = TRUE, !.late = Zombie!Late]
  BY <1>7, <1>10, <1>14, <1>20, <1>25 DEF Zombie!ScoreDice
<1>29. /\ game' \in Zombie!Table
       /\ game'.box = box /\ game'.feet = feet /\ game'.brains = brains
       /\ game'.nShotguns = shot /\ game'.drama
       /\ game'.last = game.last /\ game'.score = game.score
  <2>1. game \in Zombie!Table /\ game.nBrains + nBrain \in Nat
    BY <1>26 DEF ZombieInv, Zombie!TypeOK, Zombie!Table
  <2>2. box \in Zombie!Bags /\ feet \in Zombie!Bags /\ brains \in Zombie!Bags /\ shot \in Nat
    BY <1>11, <1>17, <1>21, <1>26
  <2> QED
    BY <1>27, <1>28, <2>1, <2>2 DEF Zombie!Table
<1>30. Zombie!Size(box) + Zombie!Size(brains) + Zombie!Size(feet) + shot
         = Zombie!Size(ZombieRules.StartAmount)
  <2>1. Zombie!Size(game.box) + Zombie!Size(game.brains) + Zombie!Size(game.feet)
          + game.nShotguns = Zombie!Size(ZombieRules.StartAmount)
    BY DEF ZombieInv, ZombieDiceThere
  <2> QED
    BY <1>8, <1>11, <1>13, <1>14, <1>17, <1>21, <1>22, <1>23, <1>26, <2>1
<1>31. Zombie!Size(feet) <= ZombieRules.DicePerThrow
  BY <1>8, <1>9, <1>13, <1>16, <1>19, <1>22, ZombieNumbers
<1>32. ASSUME NEW d \in Zombie!Dice
       PROVE  box[d] + brains[d] + feet[d] <= ZombieRules.StartAmount[d]
  <2>1. /\ game.box[d] \in Nat /\ game.brains[d] \in Nat /\ game.feet[d] \in Nat
        /\ b.box[d] \in Nat /\ b.brains[d] \in Nat /\ new[d] \in Nat
        /\ brain[d] \in Nat /\ feet[d] \in Nat /\ ZombieRules.StartAmount[d] \in Nat
    BY <1>8, <1>9, <1>12, <1>14, <1>17, ZombieNumbers DEF Zombie!Bags
  <2>2. game.box[d] + game.brains[d] + game.feet[d] <= ZombieRules.StartAmount[d]
    BY DEF ZombieInv, ZombieDiceThere
  <2>3. /\ box[d] = b.box[d] - new[d] /\ brains[d] = b.brains[d] + brain[d]
        /\ feet[d] <= rest[d] /\ rest[d] = thrown[d] - brain[d]
        /\ thrown[d] = game.feet[d] + new[d]
        /\ b.box[d] + b.brains[d] = game.box[d] + game.brains[d]
    BY <1>8, <1>11, <1>13, <1>16, <1>17, <1>21
  <2> QED
    BY <2>1, <2>2, <2>3
<1> QED
  BY <1>29, <1>30, <1>31, <1>32 DEF ZombieInv, ZombieDiceThere, Zombie!TypeOK, Zombie!DeadDontStop,
     Zombie!FirstOverThreshold

LEMMA ZombieStep == ZombieInv /\ [Zombie!Next]_game => ZombieInv'
<1> SUFFICES ASSUME ZombieInv, [Zombie!Next]_game
             PROVE  ZombieInv'
  OBVIOUS
<1>1. CASE Zombie!GameOver
  <2>1. /\ game' \in Zombie!Table /\ game'.over
        /\ game'.box = game.box /\ game'.brains = game.brains /\ game'.feet = game.feet
        /\ game'.nShotguns = game.nShotguns /\ game'.last = game.last
        /\ game'.score = game.score
    BY <1>1 DEF Zombie!GameOver, ZombieInv, Zombie!TypeOK, Zombie!Table
  <2> QED
    BY <2>1 DEF ZombieInv, ZombieDiceThere, Zombie!TypeOK, Zombie!DeadDontStop, Zombie!Playing,
       Zombie!FirstOverThreshold
<1>2. CASE UNCHANGED game
  BY <1>2 DEF ZombieInv, ZombieDiceThere, Zombie!TypeOK, Zombie!DeadDontStop, Zombie!Playing,
     Zombie!FirstOverThreshold
<1> QED
  BY <1>1, <1>2, ZombieThrow, ZombieStop, ZombieDrama
     DEF Zombie!Next, Zombie!Timers, Zombie!Press

(* Who is alive has left enough dice for another throw.                     *)
LEMMA ZombieMeans ==
    ZombieInv => /\ Zombie!TypeOK
                 /\ Zombie!DiceConserved
                 /\ Zombie!DeadDontStop
                 /\ Zombie!FirstOverThreshold
<1> SUFFICES ASSUME ZombieInv, Zombie!Playing, ~game.drama
             PROVE  Zombie!Size(game.box) + Zombie!Size(game.brains)
                      + Zombie!Size(game.feet) >= ZombieRules.DicePerThrow
  BY DEF ZombieInv, ZombieDiceThere, Zombie!DiceConserved
<1>1. /\ game.box \in Zombie!Bags /\ game.brains \in Zombie!Bags /\ game.feet \in Zombie!Bags
      /\ game.nShotguns \in Nat
  BY DEF ZombieInv, Zombie!TypeOK, Zombie!Table
<1>2. /\ Zombie!Size(game.box) \in Nat /\ Zombie!Size(game.brains) \in Nat
      /\ Zombie!Size(game.feet) \in Nat
  BY <1>1, ZombieSize
<1>3. game.nShotguns < ZombieRules.ShotgunsToKill
  BY <1>1, ZombieNumbers DEF ZombieInv, Zombie!DeadDontStop
<1>4. Zombie!Size(game.box) + Zombie!Size(game.brains) + Zombie!Size(game.feet)
         + game.nShotguns = Zombie!Size(ZombieRules.StartAmount)
  BY DEF ZombieInv, ZombieDiceThere
<1> QED
  BY <1>1, <1>2, <1>3, <1>4, ZombieNumbers

--------------------------------------------------------------------------
(* Werewolf: the decks *)

\* The roles that are one player.
WolfSingle == {Werewolf!Seer, Werewolf!Robber, Werewolf!Troublemaker, Werewolf!Drunk}

WolfDeckOK(deck) ==
    /\ deck \in Werewolf!Bags
    /\ \A r \in WolfSingle : deck[r] <= 1

LEMMA WolfNumbers ==
    /\ WerewolfRules.NPlayers \in Nat /\ WerewolfRules.NPlayers >= 3
    /\ WerewolfRules.NPlayers <= 10
    /\ WerewolfRules.Former \in Nat /\ WerewolfRules.Former <= 10
    /\ WerewolfRules.Modes \subseteq 1 .. 9
  BY Setups DEF Setups, Werewolf!Setup, Werewolf!MaxPlayers

LEMMA WolfRoles ==
    /\ IsFiniteSet(Werewolf!Roles)
    /\ Cardinality(Werewolf!Roles) = 11
    /\ \A S : Werewolf!Cardinality(S) = Cardinality(S)
    /\ \A S : Werewolf!Min(S) = Min(S)
<1>1. \A S : Werewolf!Cardinality(S) = Cardinality(S)
  BY DEF Werewolf!Cardinality, Cardinality
<1>2. \A S : Werewolf!Min(S) = Min(S)
  BY DEF Werewolf!Min, Min
<1>3. /\ IsFiniteSet(0 .. 10)
      /\ Cardinality(0 .. 10) = 11
  <2>1. 0 \in Int /\ 10 \in Int /\ 10 - 0 + 1 = 11 /\ ~(0 > 10)
    OBVIOUS
  <2>2. /\ IsFiniteSet(0 .. 10)
        /\ Cardinality(0 .. 10) = 10 - 0 + 1
    BY <2>1, FS_Interval
  <2> QED
    BY <2>1, <2>2
<1> QED
  BY <1>1, <1>2, <1>3 DEF Werewolf!Roles

(* A part of a finite set, and the rest of it.                               *)
LEMMA TakenAway ==
    ASSUME NEW S, IsFiniteSet(S), NEW T, T \subseteq S
    PROVE  /\ Cardinality(S) = Cardinality(T) + Cardinality(S \ T)
           /\ Cardinality(T) \in Nat /\ Cardinality(S \ T) \in Nat
<1>1. PICK R : R = S \ T
  OBVIOUS
<1>2. T \in SUBSET S /\ R \in SUBSET S /\ T \cap R = {} /\ T \cup R = S
  BY <1>1
<1>3. IsFiniteSet(T) /\ IsFiniteSet(R)
  BY <1>2, FS_Subset
<1>4. /\ Cardinality(T \cup R) = Cardinality(T) + Cardinality(R)
      /\ Cardinality(T) \in Nat /\ Cardinality(R) \in Nat
  BY <1>2, <1>3, Together
<1> QED
  BY <1>1, <1>2, <1>4

LEMMA WolfPlayers ==
    /\ IsFiniteSet(Werewolf!Players)
    /\ Cardinality(Werewolf!Players) = WerewolfRules.NPlayers
<1> DEFINE m == WerewolfRules.NPlayers - 1
<1>1. 0 \in Int /\ m \in Int /\ m >= 0 /\ m + 1 = WerewolfRules.NPlayers
  BY WolfNumbers
<1>2. /\ IsFiniteSet(0 .. m)
      /\ Cardinality(0 .. m) = m - 0 + 1
  <2> HIDE DEF m
  <2> QED
    BY <1>1, FS_Interval
<1> QED
  BY <1>1, <1>2 DEF Werewolf!Players

(* The records of players[], those that nobody plays included.               *)
LEMMA WolfRecords ==
    /\ Werewolf!Players \subseteq Werewolf!Records
    /\ Werewolf!Places \subseteq Werewolf!Records
    /\ IsFiniteSet(Werewolf!Records)
    /\ Cardinality(Werewolf!Records \ Werewolf!Players) = 10 - WerewolfRules.NPlayers
<1>1. /\ Werewolf!Players \subseteq Werewolf!Records
      /\ Werewolf!Places \subseteq Werewolf!Records
  BY WolfNumbers DEF Werewolf!Players, Werewolf!Places, Werewolf!Records, Werewolf!MaxPlayers
<1>2. /\ IsFiniteSet(0 .. 9)
      /\ Cardinality(0 .. 9) = 10
  <2>1. 0 \in Int /\ 9 \in Int /\ 9 - 0 + 1 = 10 /\ ~(0 > 9)
    OBVIOUS
  <2>2. /\ IsFiniteSet(0 .. 9)
        /\ Cardinality(0 .. 9) = 9 - 0 + 1
    BY <2>1, FS_Interval
  <2> QED
    BY <2>1, <2>2
<1>3. Werewolf!Records = 0 .. 9
  BY DEF Werewolf!Records, Werewolf!MaxPlayers
<1>4. Cardinality(Werewolf!Records \ Werewolf!Players) = 10 - WerewolfRules.NPlayers
  <2>1. /\ Cardinality(Werewolf!Records)
            = Cardinality(Werewolf!Players) + Cardinality(Werewolf!Records \ Werewolf!Players)
        /\ Cardinality(Werewolf!Records \ Werewolf!Players) \in Nat
    BY <1>1, <1>2, <1>3, WolfPlayers, TakenAway
  <2> QED
    BY <1>2, <1>3, <2>1, WolfPlayers, WolfNumbers
<1> QED
  BY <1>1, <1>2, <1>3, <1>4

LEMMA WolfSize ==
    /\ \A b : Werewolf!Size(b) = Sum(b, Werewolf!Roles)
    /\ \A b \in Werewolf!Bags : Werewolf!Size(b) \in Nat
<1>1. \A b : Werewolf!Size(b) = Sum(b, Werewolf!Roles)
  BY DEF Werewolf!Size, Sum, Werewolf!MapThenSumSet, MapThenSumSet,
     Werewolf!MapThenFoldSet, MapThenFoldSet
<1>2. ASSUME NEW b \in Werewolf!Bags
      PROVE  Sum(b, Werewolf!Roles) \in Nat
  <2>1. \A d \in Werewolf!Roles : b[d] \in Nat
    BY DEF Werewolf!Bags
  <2> QED
    BY <2>1, WolfRoles, SumNat
<1> QED
  BY <1>1, <1>2

LEMMA WolfSizeChange ==
    ASSUME NEW a \in Werewolf!Bags, NEW r \in Werewolf!Roles, NEW n \in Nat
    PROVE  /\ [a EXCEPT ![r] = n] \in Werewolf!Bags
           /\ Werewolf!Size([a EXCEPT ![r] = n]) = Werewolf!Size(a) + n - a[r]
<1>1. PICK b : b = [a EXCEPT ![r] = n]
  OBVIOUS
<1>2. /\ b \in Werewolf!Bags
      /\ \A i \in Werewolf!Roles : a[i] \in Int /\ b[i] \in Int
      /\ \A i \in Werewolf!Roles : i # r => a[i] = b[i]
      /\ b[r] = n
  BY <1>1 DEF Werewolf!Bags
<1>3. Sum(b, Werewolf!Roles) = Sum(a, Werewolf!Roles) + b[r] - a[r]
  BY <1>2, WolfRoles, SumChange
<1> QED
  BY <1>1, <1>2, <1>3, WolfSize

LEMMA WolfNoCards ==
    Werewolf!NoCards \in Werewolf!Bags /\ Werewolf!Size(Werewolf!NoCards) = 0
<1> DEFINE b == Werewolf!NoCards
<1>1. /\ b \in Werewolf!Bags
      /\ \A r \in Werewolf!Roles : b[r] = 0
  BY DEF Werewolf!NoCards, Werewolf!Bags
<1> HIDE DEF b
<1>2. Sum(b, Werewolf!Roles) = 0 * Cardinality(Werewolf!Roles)
  BY <1>1, WolfRoles, SumConstant
<1> QED
  BY <1>1, <1>2, WolfRoles, WolfSize DEF b

(* A set all of whose elements are the same one has at most one.            *)
LEMMA AtMostOne ==
    ASSUME NEW S, \A x \in S : \A y \in S : x = y
    PROVE  IsFiniteSet(S) /\ Cardinality(S) <= 1
<1>1. CASE S = {}
  <2>1. IsFiniteSet({}) /\ Cardinality({}) = 0
    BY FS_EmptySet
  <2> QED
    BY <1>1, <2>1
<1>2. CASE S # {}
  <2>1. PICK x \in S : TRUE
    BY <1>2
  <2>2. S = {x}
    BY <2>1
  <2>3. IsFiniteSet({x}) /\ Cardinality({x}) = 1
    BY FS_Singleton
  <2> QED
    BY <2>2, <2>3
<1> QED
  BY <1>1, <1>2

\* What a list of roles must be to make a deck for n players.
WolfListOK(roles, n) ==
    /\ DOMAIN roles \in SUBSET Nat
    /\ \A i \in DOMAIN roles :
          /\ roles[i][1] \in Nat /\ roles[i][2] \in Werewolf!Roles
          /\ roles[i][2] # Werewolf!Villager
          /\ n >= roles[i][1] => i \in 1 .. n + 3
    /\ \A i, j \in DOMAIN roles :
          roles[i][2] = roles[j][2] /\ roles[i][2] \in WolfSingle => i = j

WolfNamed(roles, n) ==
    [r \in Werewolf!Roles |->
        Cardinality({i \in DOMAIN roles : n >= roles[i][1] /\ roles[i][2] = r})]

LEMMA WolfNamedOK ==
    ASSUME NEW n \in Nat, NEW roles, WolfListOK(roles, n)
    PROVE  /\ WolfNamed(roles, n) \in Werewolf!Bags
           /\ Werewolf!Size(WolfNamed(roles, n)) <= n + 3
           /\ WolfNamed(roles, n)[Werewolf!Villager] = 0
           /\ \A r \in WolfSingle : WolfNamed(roles, n)[r] <= 1
<1> DEFINE D == {i \in DOMAIN roles : n >= roles[i][1]}
           v == [i \in D |-> roles[i][2]]
           f == WolfNamed(roles, n)
<1>1. /\ D \subseteq 1 .. n + 3
      /\ \A i \in D : v[i] \in Werewolf!Roles /\ v[i] # Werewolf!Villager
      /\ \A i, j \in D : v[i] = v[j] /\ v[i] \in WolfSingle => i = j
  BY DEF WolfListOK
<1>2. IsFiniteSet(1 .. n + 3) /\ Cardinality(1 .. n + 3) = n + 3
  <2>1. 1 \in Int /\ n + 3 \in Int /\ (n + 3) - 1 + 1 = n + 3 /\ ~(1 > n + 3)
    OBVIOUS
  <2>2. IsFiniteSet(1 .. n + 3) /\ Cardinality(1 .. n + 3) = (n + 3) - 1 + 1
    BY <2>1, FS_Interval
  <2> QED
    BY <2>1, <2>2
<1>3. IsFiniteSet(D) /\ Cardinality(D) <= n + 3
  <2> HIDE DEF D
  <2> QED
    BY <1>1, <1>2, FS_Subset
<1>4. \A r \in Werewolf!Roles : f[r] = Cardinality(Fibre(v, D, r))
  <2>1. SUFFICES ASSUME NEW r \in Werewolf!Roles
                 PROVE  f[r] = Cardinality(Fibre(v, D, r))
    OBVIOUS
  <2>2. {i \in DOMAIN roles : n >= roles[i][1] /\ roles[i][2] = r} = Fibre(v, D, r)
    BY DEF Fibre
  <2> QED
    BY <2>2 DEF WolfNamed
<1>5. f \in Werewolf!Bags
  <2>1. \A r \in Werewolf!Roles : f[r] \in Nat
    <3> HIDE DEF D, v, f
    <3> QED
      BY <1>3, <1>4, FibreFinite
  <2> QED
    BY <2>1 DEF WolfNamed, Werewolf!Bags
<1> HIDE DEF D, v, f
<1>6. Sum(f, Werewolf!Roles) = Cardinality(D)
  <2>1. \A i \in D : v[i] \in Werewolf!Roles
    BY <1>1
  <2>2. IsFiniteSet(Werewolf!Roles) /\ IsFiniteSet(D)
    BY <1>3, WolfRoles
  <2> QED
    BY <1>4, <2>1, <2>2, SumOfFibres
<1>7. f[Werewolf!Villager] = 0
  <2>1. Fibre(v, D, Werewolf!Villager) = {}
    BY <1>1 DEF Fibre
  <2>2. Werewolf!Villager \in Werewolf!Roles
    BY DEF Werewolf!Villager, Werewolf!Roles
  <2> QED
    BY <1>4, <2>1, <2>2, FS_EmptySet
<1>8. ASSUME NEW r \in WolfSingle
      PROVE  f[r] <= 1
  <2>1. \A x, y \in Fibre(v, D, r) : x = y
    BY <1>1 DEF Fibre
  <2>2. Cardinality(Fibre(v, D, r)) <= 1
    BY <2>1, AtMostOne
  <2>3. r \in Werewolf!Roles
    BY DEF WolfSingle, Werewolf!Seer, Werewolf!Robber, Werewolf!Troublemaker,
       Werewolf!Drunk, Werewolf!Roles
  <2> QED
    BY <1>4, <2>2, <2>3
<1> QED
  BY <1>3, <1>5, <1>6, <1>7, <1>8, WolfSize DEF f

(* Two sequences, one after the other.                                      *)
LEMMA Joined ==
    ASSUME NEW S, NEW a \in Seq(S), NEW b \in Seq(S), NEW c, c = a \o b
    PROVE  /\ DOMAIN c = 1 .. Len(a) + Len(b)
           /\ \A i \in 1 .. Len(a) : c[i] = a[i]
           /\ \A i \in 1 .. Len(b) : c[Len(a) + i] = b[i]
  OBVIOUS
(* A deck of deck_modes: the roles of everybody, then those of many players. *)
DeckHas(d, min, always, later) ==
    /\ d.min = min
    /\ DOMAIN d.roles = 1 .. Len(always) + Len(later)
    /\ \A i \in 1 .. Len(always) : d.roles[i] = <<0, always[i]>>
    /\ \A i \in 1 .. Len(later) : d.roles[Len(always) + i] = later[i]

LEMMA DeckIs ==
    ASSUME NEW min, NEW max, NEW always \in Seq(Nat), NEW later \in Seq(Nat \X Nat),
           NEW d, d = Werewolf!Deck(min, max, always, later)
    PROVE  DeckHas(d, min, always, later)
<1>1. PICK a : a = [i \in 1 .. Len(always) |-> <<0, always[i]>>]
  OBVIOUS
<1>2. PICK S : S = Nat \X Nat
  OBVIOUS
<1>3. a \in Seq(S)
  BY <1>1, <1>2
<1>9. Len(a) = Len(always)
  BY <1>1, <1>2
<1>4. later \in Seq(S)
  BY <1>2
<1>5. PICK c : c = a \o later
  OBVIOUS
<1>6. /\ DOMAIN c = 1 .. Len(a) + Len(later)
      /\ \A i \in 1 .. Len(a) : c[i] = a[i]
      /\ \A i \in 1 .. Len(later) : c[Len(a) + i] = later[i]
  BY <1>3, <1>4, <1>5, Joined
<1>7. d = [min |-> min, max |-> max, roles |-> c]
  BY <1>1, <1>5 DEF Werewolf!Deck
<1>8. /\ d.min = min
      /\ d.roles = c
  BY <1>7
<1> QED
  BY <1>1, <1>6, <1>8, <1>9 DEF DeckHas

(* The lists of pcx-werewolf.c, each for the numbers of players it is for.   *)
LEMMA WolfLists ==
    ASSUME NEW m \in 1 .. 8, NEW n \in Nat,
           Werewolf!DeckModes[m].min <= n
    PROVE  WolfListOK(Werewolf!DeckModes[m].roles, n)
<1> USE DEF Werewolf!Villager, Werewolf!Wolf, Werewolf!Minion, Werewolf!Mason,
        Werewolf!Seer, Werewolf!Robber, Werewolf!Troublemaker, Werewolf!Drunk,
        Werewolf!Insomniac, Werewolf!Tanner, Werewolf!Hunter, Werewolf!Roles, WolfSingle
<1>1. CASE m = 1
  <2> DEFINE roles == Werewolf!DeckModes[1].roles
  <2>1. PICK always : always = <<1, 1, 4, 5, 6>>
    OBVIOUS
  <2>2. PICK later : later = << >>
    OBVIOUS
  <2>3. /\ always \in Seq(Nat) /\ Len(always) = 5
        /\ always[1] = 1 /\ always[2] = 1 /\ always[3] = 4 /\ always[4] = 5
        /\ always[5] = 6
    BY <2>1
  <2>4. /\ later \in Seq(Nat \X Nat) /\ Len(later) = 0
    BY <2>2
  <2>5. PICK d : d = Werewolf!DeckModes[1]
    OBVIOUS
  <2>9. d = Werewolf!Deck(3, 5, always, later)
    BY <2>1, <2>2, <2>5 DEF Werewolf!DeckModes
  <2>10. always \in Seq(Nat) /\ later \in Seq(Nat \X Nat)
    BY <2>3, <2>4
  <2>11. DeckHas(d, 3, always, later)
    BY <2>9, <2>10, DeckIs
  <2>6. /\ n >= 3 /\ DOMAIN roles = 1 .. 5
        /\ \A i \in 1 .. 5 : roles[i] = <<0, always[i]>>
    BY <1>1, <2>3, <2>4, <2>5, <2>11 DEF DeckHas
  <2> HIDE DEF roles
  <2>7. /\ n >= 3 /\ DOMAIN roles = 1 .. 5
        /\ roles[1] = <<0, 1>> /\ roles[2] = <<0, 1>> /\ roles[3] = <<0, 4>>
        /\ roles[4] = <<0, 5>> /\ roles[5] = <<0, 6>>
    BY <2>3, <2>4, <2>6
  <2>8. WolfListOK(roles, n)
    BY <2>7 DEF WolfListOK
  <2> QED
    BY <1>1, <2>8 DEF roles
<1>2. CASE m = 2
  <2> DEFINE roles == Werewolf!DeckModes[2].roles
  <2>1. PICK always : always = <<1, 1, 8, 5, 6>>
    OBVIOUS
  <2>2. PICK later : later = << <<5, 4>> >>
    OBVIOUS
  <2>3. /\ always \in Seq(Nat) /\ Len(always) = 5
        /\ always[1] = 1 /\ always[2] = 1 /\ always[3] = 8 /\ always[4] = 5
        /\ always[5] = 6
    BY <2>1
  <2>4. /\ later \in Seq(Nat \X Nat) /\ Len(later) = 1
        /\ later[1] = <<5, 4>>
    BY <2>2
  <2>5. PICK d : d = Werewolf!DeckModes[2]
    OBVIOUS
  <2>9. d = Werewolf!Deck(3, 6, always, later)
    BY <2>1, <2>2, <2>5 DEF Werewolf!DeckModes
  <2>10. always \in Seq(Nat) /\ later \in Seq(Nat \X Nat)
    BY <2>3, <2>4
  <2>11. DeckHas(d, 3, always, later)
    BY <2>9, <2>10, DeckIs
  <2>6. /\ n >= 3 /\ DOMAIN roles = 1 .. 6
        /\ \A i \in 1 .. 5 : roles[i] = <<0, always[i]>>
        /\ \A i \in 1 .. 1 : roles[5 + i] = later[i]
    BY <1>2, <2>3, <2>4, <2>5, <2>11 DEF DeckHas
  <2> HIDE DEF roles
  <2>7. /\ n >= 3 /\ DOMAIN roles = 1 .. 6
        /\ roles[1] = <<0, 1>> /\ roles[2] = <<0, 1>> /\ roles[3] = <<0, 8>>
        /\ roles[4] = <<0, 5>> /\ roles[5] = <<0, 6>> /\ roles[6] = <<5, 4>>
    BY <2>3, <2>4, <2>6
  <2>8. WolfListOK(roles, n)
    BY <2>7 DEF WolfListOK
  <2> QED
    BY <1>2, <2>8 DEF roles
<1>3. CASE m = 3
  <2> DEFINE roles == Werewolf!DeckModes[3].roles
  <2>1. PICK always : always = <<1, 4, 5, 6>>
    OBVIOUS
  <2>2. PICK later : later = << >>
    OBVIOUS
  <2>3. /\ always \in Seq(Nat) /\ Len(always) = 4
        /\ always[1] = 1 /\ always[2] = 4 /\ always[3] = 5 /\ always[4] = 6
    BY <2>1
  <2>4. /\ later \in Seq(Nat \X Nat) /\ Len(later) = 0
    BY <2>2
  <2>5. PICK d : d = Werewolf!DeckModes[3]
    OBVIOUS
  <2>9. d = Werewolf!Deck(3, 4, always, later)
    BY <2>1, <2>2, <2>5 DEF Werewolf!DeckModes
  <2>10. always \in Seq(Nat) /\ later \in Seq(Nat \X Nat)
    BY <2>3, <2>4
  <2>11. DeckHas(d, 3, always, later)
    BY <2>9, <2>10, DeckIs
  <2>6. /\ n >= 3 /\ DOMAIN roles = 1 .. 4
        /\ \A i \in 1 .. 4 : roles[i] = <<0, always[i]>>
    BY <1>3, <2>3, <2>4, <2>5, <2>11 DEF DeckHas
  <2> HIDE DEF roles
  <2>7. /\ n >= 3 /\ DOMAIN roles = 1 .. 4
        /\ roles[1] = <<0, 1>> /\ roles[2] = <<0, 4>> /\ roles[3] = <<0, 5>>
        /\ roles[4] = <<0, 6>>
    BY <2>3, <2>4, <2>6
  <2>8. WolfListOK(roles, n)
    BY <2>7 DEF WolfListOK
  <2> QED
    BY <1>3, <2>8 DEF roles
<1>4. CASE m = 4
  <2> DEFINE roles == Werewolf!DeckModes[4].roles
  <2>1. PICK always : always = <<1, 1, 7, 5, 6, 8>>
    OBVIOUS
  <2>2. PICK later : later = << <<5, 4>>, <<8, 2>>, <<9, 3>>, <<9, 3>> >>
    OBVIOUS
  <2>3. /\ always \in Seq(Nat) /\ Len(always) = 6
        /\ always[1] = 1 /\ always[2] = 1 /\ always[3] = 7 /\ always[4] = 5
        /\ always[5] = 6 /\ always[6] = 8
    BY <2>1
  <2>4. /\ later \in Seq(Nat \X Nat) /\ Len(later) = 4
        /\ later[1] = <<5, 4>> /\ later[2] = <<8, 2>> /\ later[3] = <<9, 3>> /\ later[4] = <<9, 3>>
    BY <2>2
  <2>5. PICK d : d = Werewolf!DeckModes[4]
    OBVIOUS
  <2>9. d = Werewolf!Deck(3, 9, always, later)
    BY <2>1, <2>2, <2>5 DEF Werewolf!DeckModes
  <2>10. always \in Seq(Nat) /\ later \in Seq(Nat \X Nat)
    BY <2>3, <2>4
  <2>11. DeckHas(d, 3, always, later)
    BY <2>9, <2>10, DeckIs
  <2>6. /\ n >= 3 /\ DOMAIN roles = 1 .. 10
        /\ \A i \in 1 .. 6 : roles[i] = <<0, always[i]>>
        /\ \A i \in 1 .. 4 : roles[6 + i] = later[i]
    BY <1>4, <2>3, <2>4, <2>5, <2>11 DEF DeckHas
  <2> HIDE DEF roles
  <2>7. /\ n >= 3 /\ DOMAIN roles = 1 .. 10
        /\ roles[1] = <<0, 1>> /\ roles[2] = <<0, 1>> /\ roles[3] = <<0, 7>>
        /\ roles[4] = <<0, 5>> /\ roles[5] = <<0, 6>> /\ roles[6] = <<0, 8>>
        /\ roles[7] = <<5, 4>> /\ roles[8] = <<8, 2>> /\ roles[9] = <<9, 3>>
        /\ roles[10] = <<9, 3>>
    BY <2>3, <2>4, <2>6
  <2>8. WolfListOK(roles, n)
    BY <2>7 DEF WolfListOK
  <2> QED
    BY <1>4, <2>8 DEF roles
<1>5. CASE m = 5
  <2> DEFINE roles == Werewolf!DeckModes[5].roles
  <2>1. PICK always : always = <<1, 1, 10, 4, 5, 7, 8>>
    OBVIOUS
  <2>2. PICK later : later = << <<5, 6>> >>
    OBVIOUS
  <2>3. /\ always \in Seq(Nat) /\ Len(always) = 7
        /\ always[1] = 1 /\ always[2] = 1 /\ always[3] = 10 /\ always[4] = 4
        /\ always[5] = 5 /\ always[6] = 7 /\ always[7] = 8
    BY <2>1
  <2>4. /\ later \in Seq(Nat \X Nat) /\ Len(later) = 1
        /\ later[1] = <<5, 6>>
    BY <2>2
  <2>5. PICK d : d = Werewolf!DeckModes[5]
    OBVIOUS
  <2>9. d = Werewolf!Deck(4, 7, always, later)
    BY <2>1, <2>2, <2>5 DEF Werewolf!DeckModes
  <2>10. always \in Seq(Nat) /\ later \in Seq(Nat \X Nat)
    BY <2>3, <2>4
  <2>11. DeckHas(d, 4, always, later)
    BY <2>9, <2>10, DeckIs
  <2>6. /\ n >= 4 /\ DOMAIN roles = 1 .. 8
        /\ \A i \in 1 .. 7 : roles[i] = <<0, always[i]>>
        /\ \A i \in 1 .. 1 : roles[7 + i] = later[i]
    BY <1>5, <2>3, <2>4, <2>5, <2>11 DEF DeckHas
  <2> HIDE DEF roles
  <2>7. /\ n >= 4 /\ DOMAIN roles = 1 .. 8
        /\ roles[1] = <<0, 1>> /\ roles[2] = <<0, 1>> /\ roles[3] = <<0, 10>>
        /\ roles[4] = <<0, 4>> /\ roles[5] = <<0, 5>> /\ roles[6] = <<0, 7>>
        /\ roles[7] = <<0, 8>> /\ roles[8] = <<5, 6>>
    BY <2>3, <2>4, <2>6
  <2>8. WolfListOK(roles, n)
    BY <2>7 DEF WolfListOK
  <2> QED
    BY <1>5, <2>8 DEF roles
<1>6. CASE m = 6
  <2> DEFINE roles == Werewolf!DeckModes[6].roles
  <2>1. PICK always : always = <<1, 1, 2, 10, 4, 5, 6, 3, 3>>
    OBVIOUS
  <2>2. PICK later : later = << >>
    OBVIOUS
  <2>3. /\ always \in Seq(Nat) /\ Len(always) = 9
        /\ always[1] = 1 /\ always[2] = 1 /\ always[3] = 2 /\ always[4] = 10
        /\ always[5] = 4 /\ always[6] = 5 /\ always[7] = 6 /\ always[8] = 3
        /\ always[9] = 3
    BY <2>1
  <2>4. /\ later \in Seq(Nat \X Nat) /\ Len(later) = 0
    BY <2>2
  <2>5. PICK d : d = Werewolf!DeckModes[6]
    OBVIOUS
  <2>9. d = Werewolf!Deck(6, 7, always, later)
    BY <2>1, <2>2, <2>5 DEF Werewolf!DeckModes
  <2>10. always \in Seq(Nat) /\ later \in Seq(Nat \X Nat)
    BY <2>3, <2>4
  <2>11. DeckHas(d, 6, always, later)
    BY <2>9, <2>10, DeckIs
  <2>6. /\ n >= 6 /\ DOMAIN roles = 1 .. 9
        /\ \A i \in 1 .. 9 : roles[i] = <<0, always[i]>>
    <3>1. d.roles = roles /\ d.min <= n
      BY <1>6, <2>5
    <3>2. /\ d.min \in Nat /\ DOMAIN d.roles = 1 .. Len(always) + Len(later)
          /\ \A i \in 1 .. Len(always) : d.roles[i] = <<0, always[i]>>
          /\ \A i \in 1 .. Len(later) : d.roles[Len(always) + i] = later[i]
      BY <2>11 DEF DeckHas
    <3>3. Len(always) = 9 /\ Len(later) = 0 /\ d.min = 6
      BY <2>3, <2>4, <2>11 DEF DeckHas
    <3> QED
      BY <3>1, <3>2, <3>3
  <2> HIDE DEF roles
  <2>7. /\ n >= 6 /\ DOMAIN roles = 1 .. 9
        /\ roles[1] = <<0, 1>> /\ roles[2] = <<0, 1>> /\ roles[3] = <<0, 2>>
        /\ roles[4] = <<0, 10>> /\ roles[5] = <<0, 4>> /\ roles[6] = <<0, 5>>
        /\ roles[7] = <<0, 6>> /\ roles[8] = <<0, 3>> /\ roles[9] = <<0, 3>>
    BY <2>3, <2>4, <2>6
  <2>8. WolfListOK(roles, n)
    BY <2>7 DEF WolfListOK
  <2> QED
    BY <1>6, <2>8 DEF roles
<1>7. CASE m = 7
  <2> DEFINE roles == Werewolf!DeckModes[7].roles
  <2>1. PICK always : always = <<1, 1, 9, 4, 5, 7, 8>>
    OBVIOUS
  <2>2. PICK later : later = << <<5, 6>>, <<7, 3>>, <<7, 3>>, <<8, 10>>, <<9, 2>> >>
    OBVIOUS
  <2>3. /\ always \in Seq(Nat) /\ Len(always) = 7
        /\ always[1] = 1 /\ always[2] = 1 /\ always[3] = 9 /\ always[4] = 4
        /\ always[5] = 5 /\ always[6] = 7 /\ always[7] = 8
    BY <2>1
  <2>4. /\ later \in Seq(Nat \X Nat) /\ Len(later) = 5
        /\ later[1] = <<5, 6>> /\ later[2] = <<7, 3>> /\ later[3] = <<7, 3>> /\ later[4] = <<8, 10>>
        /\ later[5] = <<9, 2>>
    BY <2>2
  <2>5. PICK d : d = Werewolf!DeckModes[7]
    OBVIOUS
  <2>9. d = Werewolf!Deck(4, 10, always, later)
    BY <2>1, <2>2, <2>5 DEF Werewolf!DeckModes
  <2>10. always \in Seq(Nat) /\ later \in Seq(Nat \X Nat)
    BY <2>3, <2>4
  <2>11. DeckHas(d, 4, always, later)
    BY <2>9, <2>10, DeckIs
  <2>6. /\ n >= 4 /\ DOMAIN roles = 1 .. 12
        /\ \A i \in 1 .. 7 : roles[i] = <<0, always[i]>>
        /\ \A i \in 1 .. 5 : roles[7 + i] = later[i]
    <3>1. d.roles = roles /\ d.min <= n
      BY <1>7, <2>5
    <3>2. /\ d.min \in Nat /\ DOMAIN d.roles = 1 .. Len(always) + Len(later)
          /\ \A i \in 1 .. Len(always) : d.roles[i] = <<0, always[i]>>
          /\ \A i \in 1 .. Len(later) : d.roles[Len(always) + i] = later[i]
      BY <2>11 DEF DeckHas
    <3>3. Len(always) = 7 /\ Len(later) = 5 /\ d.min = 4
      BY <2>3, <2>4, <2>11 DEF DeckHas
    <3> QED
      BY <3>1, <3>2, <3>3
  <2> HIDE DEF roles
  <2>7. /\ n >= 4 /\ DOMAIN roles = 1 .. 12
        /\ roles[1] = <<0, 1>> /\ roles[2] = <<0, 1>> /\ roles[3] = <<0, 9>>
        /\ roles[4] = <<0, 4>> /\ roles[5] = <<0, 5>> /\ roles[6] = <<0, 7>>
        /\ roles[7] = <<0, 8>> /\ roles[8] = <<5, 6>> /\ roles[9] = <<7, 3>>
        /\ roles[10] = <<7, 3>> /\ roles[11] = <<8, 10>> /\ roles[12] = <<9, 2>>
    BY <2>3, <2>4, <2>6, SMTT(30)
  <2>8. WolfListOK(roles, n)
    BY <2>7 DEF WolfListOK
  <2> QED
    BY <1>7, <2>8 DEF roles
<1>8. CASE m = 8
  <2> DEFINE roles == Werewolf!DeckModes[8].roles
  <2>1. PICK always : always = <<1, 1, 3, 3, 2, 5, 6, 8>>
    OBVIOUS
  <2>2. PICK later : later = << <<6, 7>>, <<7, 4>>, <<10, 9>> >>
    OBVIOUS
  <2>3. /\ always \in Seq(Nat) /\ Len(always) = 8
        /\ always[1] = 1 /\ always[2] = 1 /\ always[3] = 3 /\ always[4] = 3
        /\ always[5] = 2 /\ always[6] = 5 /\ always[7] = 6 /\ always[8] = 8
    BY <2>1
  <2>4. /\ later \in Seq(Nat \X Nat) /\ Len(later) = 3
        /\ later[1] = <<6, 7>> /\ later[2] = <<7, 4>> /\ later[3] = <<10, 9>>
    BY <2>2
  <2>5. PICK d : d = Werewolf!DeckModes[8]
    OBVIOUS
  <2>9. d = Werewolf!Deck(5, 10, always, later)
    BY <2>1, <2>2, <2>5 DEF Werewolf!DeckModes
  <2>10. always \in Seq(Nat) /\ later \in Seq(Nat \X Nat)
    BY <2>3, <2>4
  <2>11. DeckHas(d, 5, always, later)
    BY <2>9, <2>10, DeckIs
  <2>6. /\ n >= 5 /\ DOMAIN roles = 1 .. 11
        /\ \A i \in 1 .. 8 : roles[i] = <<0, always[i]>>
        /\ \A i \in 1 .. 3 : roles[8 + i] = later[i]
    <3>1. d.roles = roles /\ d.min <= n
      BY <1>8, <2>5
    <3>2. /\ d.min \in Nat /\ DOMAIN d.roles = 1 .. Len(always) + Len(later)
          /\ \A i \in 1 .. Len(always) : d.roles[i] = <<0, always[i]>>
          /\ \A i \in 1 .. Len(later) : d.roles[Len(always) + i] = later[i]
      BY <2>11 DEF DeckHas
    <3>3. Len(always) = 8 /\ Len(later) = 3 /\ d.min = 5
      BY <2>3, <2>4, <2>11 DEF DeckHas
    <3> QED
      BY <3>1, <3>2, <3>3
  <2> HIDE DEF roles
  <2>12. /\ roles[1] = <<0, 1>> /\ roles[2] = <<0, 1>> /\ roles[3] = <<0, 3>>
         /\ roles[4] = <<0, 3>> /\ roles[5] = <<0, 2>> /\ roles[6] = <<0, 5>>
         /\ roles[7] = <<0, 6>> /\ roles[8] = <<0, 8>>
    BY <2>3, <2>6
  <2>13. roles[8 + 1] = <<6, 7>> /\ roles[8 + 2] = <<7, 4>> /\ roles[8 + 3] = <<10, 9>>
    BY <2>4, <2>6
  <2>7. /\ roles[9] = <<6, 7>> /\ roles[10] = <<7, 4>> /\ roles[11] = <<10, 9>>
    BY <2>13
  <2>8. WolfListOK(roles, n)
    BY <2>6, <2>7, <2>12 DEF WolfListOK
  <2> QED
    BY <1>8, <2>8 DEF roles
<1> QED
  BY <1>1, <1>2, <1>3, <1>4, <1>5, <1>6, <1>7, <1>8

(* make_deck_from_mode: the roles of the list, and villagers for the rest.   *)
LEMMA WolfModeDeck ==
    ASSUME NEW m \in 1 .. 8, Werewolf!Allowed(m, WerewolfRules.NPlayers)
    PROVE  WolfDeckOK(Werewolf!ModeDeck(m, WerewolfRules.NPlayers))
<1> DEFINE n == WerewolfRules.NPlayers
           roles == Werewolf!DeckModes[m].roles
           named == WolfNamed(roles, n)
<1>1. n \in Nat
  BY WolfNumbers
<1>2. WolfListOK(roles, n)
  <2>1. Werewolf!Anarchy = 9
    BY DEF Werewolf!Anarchy, Werewolf!DeckModes
  <2>2. n \in Werewolf!DeckModes[m].min .. Werewolf!DeckModes[m].max
    BY <2>1 DEF Werewolf!Allowed
  <2>3. Werewolf!DeckModes[m].min <= n
    BY <2>2
  <2> QED
    BY <1>1, <2>3, WolfLists
<1>3. Werewolf!ModeDeck(m, n) = [named EXCEPT ![Werewolf!Villager] = (n + 3) - Werewolf!Size(named)]
  BY DEF Werewolf!ModeDeck, WolfNamed, Werewolf!Cardinality, Cardinality, Werewolf!NExtra
<1> HIDE DEF roles, n
<1>4. /\ named \in Werewolf!Bags
      /\ Werewolf!Size(named) <= n + 3
      /\ \A r \in WolfSingle : named[r] <= 1
  BY <1>1, <1>2, WolfNamedOK
<1> HIDE DEF named
<1>5. (n + 3) - Werewolf!Size(named) \in Nat
  BY <1>1, <1>4, WolfSize
<1>6. /\ Werewolf!Villager \in Werewolf!Roles /\ Werewolf!Villager \notin WolfSingle
      /\ WolfSingle \subseteq Werewolf!Roles
  BY DEF Werewolf!Villager, WolfSingle, Werewolf!Seer, Werewolf!Robber,
     Werewolf!Troublemaker, Werewolf!Drunk, Werewolf!Roles
<1>7. WolfDeckOK(Werewolf!ModeDeck(m, n))
  BY <1>3, <1>4, <1>5, <1>6 DEF WolfDeckOK, Werewolf!Bags
<1> QED
  BY <1>7 DEF n

--------------------------------------------------------------------------
(* Werewolf: the deck of anarchy *)

WolfSpecial == Werewolf!Roles \ {Werewolf!Wolf, Werewolf!Villager}

WolfGrowing(d) ==
    /\ d \in [cards : Werewolf!Bags, available : SUBSET WolfSpecial]
    /\ \A r \in d.available : d.cards[r] = 0
    /\ \A r \in WolfSingle : d.cards[r] <= 1

\* Some roles, and where they are.
LEMMA WolfSpecials ==
    /\ WolfSingle \subseteq WolfSpecial /\ WolfSpecial \subseteq Werewolf!Roles
    /\ Werewolf!Mason \in WolfSpecial /\ Werewolf!Mason \notin WolfSingle
    /\ Werewolf!Insomniac \in WolfSpecial /\ Werewolf!Insomniac \notin WolfSingle
    /\ Werewolf!Villager \in Werewolf!Roles /\ Werewolf!Wolf \in Werewolf!Roles
    /\ Werewolf!Villager \notin WolfSpecial /\ Werewolf!Wolf \notin WolfSpecial
    /\ Werewolf!Wolf # Werewolf!Villager
    /\ Werewolf!Robber \in WolfSingle /\ Werewolf!Troublemaker \in WolfSingle
BY DEF WolfSpecial, WolfSingle, Werewolf!Villager, Werewolf!Wolf, Werewolf!Minion,
   Werewolf!Mason, Werewolf!Seer, Werewolf!Robber, Werewolf!Troublemaker, Werewolf!Drunk,
   Werewolf!Insomniac, Werewolf!Tanner, Werewolf!Hunter, Werewolf!Roles

LEMMA WolfAddCard ==
    ASSUME NEW d, WolfGrowing(d), NEW r \in WolfSpecial, r \in d.available \/ r \notin WolfSingle
    PROVE  /\ WolfGrowing(Werewolf!AddCard(d, r))
           /\ Werewolf!Size(Werewolf!AddCard(d, r).cards) = Werewolf!Size(d.cards) + 1
           /\ Werewolf!AddCard(d, r).available = d.available \ {r}
<1> DEFINE e == Werewolf!AddCard(d, r)
           k == d.cards[r] + 1
<1>1. d.cards \in Werewolf!Bags /\ r \in Werewolf!Roles
  BY WolfSpecials DEF WolfGrowing
<1>2. d.cards[r] \in Nat /\ k \in Nat
  BY <1>1 DEF Werewolf!Bags
<1>3. /\ e.cards = [d.cards EXCEPT ![r] = k]
      /\ e.available = d.available \ {r}
      /\ e \in [cards : Werewolf!Bags, available : SUBSET WolfSpecial]
  BY <1>1, <1>2 DEF Werewolf!AddCard, WolfGrowing, Werewolf!Bags
<1> HIDE DEF e, k
<1>4. Werewolf!Size([d.cards EXCEPT ![r] = k]) = Werewolf!Size(d.cards) + k - d.cards[r]
  BY <1>1, <1>2, WolfSizeChange
<1>5. Werewolf!Size(d.cards) \in Nat
  BY <1>1, WolfSize
<1>6. Werewolf!Size(e.cards) = Werewolf!Size(d.cards) + 1
  BY <1>2, <1>3, <1>4, <1>5 DEF k
<1>7. WolfGrowing(e)
  BY <1>1, <1>2, <1>3, WolfSpecials DEF WolfGrowing, k, Werewolf!Bags
<1> QED
  BY <1>3, <1>6, <1>7 DEF e

LEMMA WolfTakeAway ==
    ASSUME NEW d, WolfGrowing(d), NEW r
    PROVE  /\ WolfGrowing([d EXCEPT !.available = @ \ {r}])
           /\ [d EXCEPT !.available = @ \ {r}].cards = d.cards
BY DEF WolfGrowing

\* The deck of d grows to at most n cards.
WolfFits(d, n) == WolfGrowing(d) /\ Werewolf!Size(d.cards) <= n

LEMMA WolfGrows ==
    ASSUME NEW n \in Nat, NEW d, WolfFits(d, n), NEW e \in Werewolf!Grown(d, n)
    PROVE  WolfFits(e, n)
<1>1. WolfGrowing(d) /\ Werewolf!Size(d.cards) \in Nat /\ Werewolf!Size(d.cards) <= n
  BY WolfSize DEF WolfFits, WolfGrowing
<1>2. CASE Werewolf!Size(d.cards) >= n \/ d.available = {}
  BY <1>2 DEF Werewolf!Grown
<1>3. CASE ~(Werewolf!Size(d.cards) >= n \/ d.available = {})
  <2>1. PICK r \in d.available :
           e = IF r = Werewolf!Mason THEN Werewolf!MasonAdded(d, n)
               ELSE IF r = Werewolf!Insomniac THEN Werewolf!InsomniacAdded(d, n)
               ELSE Werewolf!AddCard(d, r)
    BY <1>3 DEF Werewolf!Grown
  <2>2. r \in WolfSpecial
    BY <1>1 DEF WolfGrowing
  <2>3. /\ WolfGrowing(Werewolf!AddCard(d, r))
        /\ Werewolf!Size(Werewolf!AddCard(d, r).cards) = Werewolf!Size(d.cards) + 1
        /\ Werewolf!AddCard(d, r).available = d.available \ {r}
    BY <1>1, <2>2, WolfAddCard
  <2>4. CASE r = Werewolf!Mason
    <3>1. e = Werewolf!MasonAdded(d, n)
      BY <2>1, <2>4
    <3>2. CASE Werewolf!Size(d.cards) + 2 <= n
      <4>1. e = Werewolf!AddCard(Werewolf!AddCard(d, r), r)
        BY <2>4, <3>1, <3>2 DEF Werewolf!MasonAdded
      <4>2. r \notin WolfSingle
        BY <2>4, WolfSpecials
      <4>3. PICK b : b = Werewolf!AddCard(d, r)
        OBVIOUS
      <4>4. WolfGrowing(b)
        BY <2>3, <4>3
      <4>5. /\ WolfGrowing(Werewolf!AddCard(b, r))
            /\ Werewolf!Size(Werewolf!AddCard(b, r).cards) = Werewolf!Size(b.cards) + 1
        BY <2>2, <4>2, <4>4, WolfAddCard
      <4> QED
        BY <1>1, <2>3, <3>2, <4>1, <4>3, <4>5 DEF WolfFits
    <3>3. CASE ~(Werewolf!Size(d.cards) + 2 <= n)
      <4>1. e = [d EXCEPT !.available = @ \ {Werewolf!Mason}]
        BY <3>1, <3>3 DEF Werewolf!MasonAdded
      <4> QED
        BY <1>1, <4>1, WolfTakeAway DEF WolfFits
    <3> QED
      BY <3>2, <3>3
  <2>5. CASE r = Werewolf!Insomniac
    <3> DEFINE needed == {Werewolf!Robber, Werewolf!Troublemaker}
    <3>1. e = Werewolf!InsomniacAdded(d, n)
      <4>1. r # Werewolf!Mason
        BY <2>5 DEF Werewolf!Mason, Werewolf!Insomniac
      <4> QED
        BY <2>1, <2>5, <4>1
    <3>2. CASE Werewolf!Has(d.cards) \cap needed # {}
      <4>1. e = Werewolf!AddCard(d, r)
        BY <2>5, <3>1, <3>2 DEF Werewolf!InsomniacAdded
      <4> QED
        BY <1>1, <1>3, <2>3, <4>1 DEF WolfFits
    <3>3. CASE /\ Werewolf!Has(d.cards) \cap needed = {}
               /\ needed \cap d.available # {} /\ Werewolf!Size(d.cards) + 2 <= n
      <4>1. PICK q : q = Min(needed \cap d.available)
        OBVIOUS
      <4>2. e = Werewolf!AddCard(Werewolf!AddCard(d, q), r)
        <5>1. q = Werewolf!Min(needed \cap d.available)
          BY <4>1, WolfRoles
        <5> QED
          BY <2>5, <3>1, <3>3, <5>1 DEF Werewolf!InsomniacAdded
      <4>3. q \in needed /\ q \in d.available
        <5>1. /\ needed \cap d.available \subseteq Nat
              /\ needed \cap d.available # {}
          BY <3>3 DEF Werewolf!Robber, Werewolf!Troublemaker
        <5>2. Min(needed \cap d.available) \in needed \cap d.available
          <6> HIDE DEF needed
          <6> QED
            BY <5>1, MinProperties
        <5> QED
          BY <4>1, <5>2
      <4>4. q \in WolfSpecial /\ q # r
        BY <2>5, <4>3, WolfSpecials
      <4>5. PICK b : b = Werewolf!AddCard(d, q)
        OBVIOUS
      <4>6. /\ WolfGrowing(b)
            /\ Werewolf!Size(b.cards) = Werewolf!Size(d.cards) + 1
        BY <1>1, <4>3, <4>4, <4>5, WolfAddCard
      <4>7. r \notin WolfSingle
        BY <2>5, WolfSpecials
      <4>8. /\ WolfGrowing(Werewolf!AddCard(b, r))
            /\ Werewolf!Size(Werewolf!AddCard(b, r).cards) = Werewolf!Size(b.cards) + 1
        BY <2>2, <4>6, <4>7, WolfAddCard
      <4> QED
        BY <1>1, <3>3, <4>2, <4>5, <4>6, <4>8 DEF WolfFits
    <3>4. CASE /\ Werewolf!Has(d.cards) \cap needed = {}
               /\ ~(needed \cap d.available # {} /\ Werewolf!Size(d.cards) + 2 <= n)
      <4>1. e = [d EXCEPT !.available = @ \ {Werewolf!Insomniac}]
        BY <3>1, <3>4 DEF Werewolf!InsomniacAdded
      <4> QED
        BY <1>1, <4>1, WolfTakeAway DEF WolfFits
    <3> QED
      BY <3>2, <3>3, <3>4
  <2>6. CASE r # Werewolf!Mason /\ r # Werewolf!Insomniac
    <3>1. e = Werewolf!AddCard(d, r)
      BY <2>1, <2>6
    <3> QED
      BY <1>1, <1>3, <2>3, <3>1 DEF WolfFits
  <2> QED
    BY <2>4, <2>5, <2>6
<1> QED
  BY <1>2, <1>3

LEMMA WolfBaseDeck ==
    ASSUME NEW n \in Nat, n >= 6
    PROVE  WolfFits(Werewolf!BaseDeck(n), n)
<1> DEFINE pair == {3, n - 3 - 2}
           a == [Werewolf!NoCards EXCEPT ![Werewolf!Wolf] = 2]
           b == [a EXCEPT ![Werewolf!Villager] = Min(pair)]
<1>1. Min(pair) \in pair /\ Min(pair) <= n - 5 /\ Min(pair) \in Nat
  <2>1. pair \in SUBSET Nat /\ pair # {}
    OBVIOUS
  <2>2. Min(pair) \in pair /\ \A y \in pair : Min(pair) =< y
    <3> HIDE DEF pair
    <3> QED
      BY <2>1, MinProperties
  <2> QED
    BY <2>1, <2>2
<1>2. Werewolf!BaseDeck(n) = [cards |-> b, available |-> WolfSpecial]
  BY WolfRoles DEF Werewolf!BaseDeck, WolfSpecial, Werewolf!NWerewolves, Werewolf!NExtra
<1> HIDE DEF pair
<1>3. /\ a \in Werewolf!Bags
      /\ Werewolf!Size(a) = 2
      /\ a = [r \in Werewolf!Roles |-> IF r = Werewolf!Wolf THEN 2 ELSE 0]
  <2>1. PICK z : z = Werewolf!NoCards
    OBVIOUS
  <2>2. z \in Werewolf!Bags /\ Werewolf!Size(z) = 0
    BY <2>1, WolfNoCards
  <2>3. 2 \in Nat /\ Werewolf!Wolf \in Werewolf!Roles
    BY WolfSpecials
  <2>4. /\ [z EXCEPT ![Werewolf!Wolf] = 2] \in Werewolf!Bags
        /\ Werewolf!Size([z EXCEPT ![Werewolf!Wolf] = 2])
             = Werewolf!Size(z) + 2 - z[Werewolf!Wolf]
    BY <2>2, <2>3, WolfSizeChange
  <2>5. \A r \in Werewolf!Roles : z[r] = 0
    BY <2>1 DEF Werewolf!NoCards
  <2>6. a = [r \in Werewolf!Roles |-> IF r = Werewolf!Wolf THEN 2 ELSE 0]
    BY DEF Werewolf!NoCards
  <2> HIDE DEF a
  <2>7. a = [z EXCEPT ![Werewolf!Wolf] = 2]
    BY <2>1 DEF a
  <2>8. z[Werewolf!Wolf] = 0
    BY <2>3, <2>5
  <2>9. a \in Werewolf!Bags
    BY <2>4, <2>7
  <2>10. Werewolf!Size(a) = 0 + 2 - 0
    <3>1. Werewolf!Size(a) = Werewolf!Size(z) + 2 - z[Werewolf!Wolf]
      BY <2>4, <2>7
    <3> QED
      BY <2>2, <2>8, <3>1
  <2> QED
    BY <2>6, <2>9, <2>10
<1> HIDE DEF a
<1>4. /\ b \in Werewolf!Bags
      /\ Werewolf!Size(b) = 2 + Min(pair) - a[Werewolf!Villager]
  BY <1>1, <1>3, WolfSpecials, WolfSizeChange
<1>5. a[Werewolf!Villager] = 0
  BY <1>3, WolfSpecials
<1>6. Werewolf!Size(b) <= n
  BY <1>1, <1>4, <1>5
<1>7. \A r \in WolfSpecial : b[r] = 0
  <2>1. \A r \in WolfSpecial : r \in Werewolf!Roles /\ r # Werewolf!Villager /\ r # Werewolf!Wolf
    BY WolfSpecials
  <2>2. \A r \in WolfSpecial : b[r] = a[r]
    BY <1>3, <2>1 DEF Werewolf!Bags
  <2> QED
    BY <1>3, <2>1, <2>2
<1> HIDE DEF b
<1>8. WolfGrowing(Werewolf!BaseDeck(n))
  BY <1>2, <1>4, <1>7, WolfSpecials DEF WolfGrowing
<1> QED
  BY <1>2, <1>6, <1>8 DEF WolfFits

\* The decks after one more step, and after k of them.
WolfGrow(n, ds) == UNION {Werewolf!Grown(d, n) : d \in ds}
WolfSteps(n, k, g) ==
    g = [i \in 0 .. k |-> IF i = 0 THEN {Werewolf!BaseDeck(n)} ELSE WolfGrow(n, g[i - 1])]

(* There is a function of the decks after each step.                         *)
LEMMA WolfStepsExist ==
    ASSUME NEW n
    PROVE  \A k \in Nat : \E g : WolfSteps(n, k, g)
<1> DEFINE C == {k \in Nat : \E g : WolfSteps(n, k, g)}
<1>1. 0 \in C
  <2>1. WolfSteps(n, 0, [i \in 0 .. 0 |-> {Werewolf!BaseDeck(n)}])
    BY DEF WolfSteps
  <2> QED
    BY <2>1
<1>2. \A k \in Nat : k \in C => k + 1 \in C
  <2>1. SUFFICES ASSUME NEW k \in Nat, NEW g, WolfSteps(n, k, g)
                 PROVE  \E h : WolfSteps(n, k + 1, h)
    OBVIOUS
  <2>2. PICK h : h = [i \in 0 .. k + 1 |-> IF i = 0 THEN {Werewolf!BaseDeck(n)}
                                           ELSE WolfGrow(n, g[i - 1])]
    OBVIOUS
  <2>3. /\ DOMAIN g = 0 .. k
        /\ \A i \in 0 .. k : g[i] = IF i = 0 THEN {Werewolf!BaseDeck(n)}
                                    ELSE WolfGrow(n, g[i - 1])
    BY <2>1 DEF WolfSteps
  <2>4. \A i \in 0 .. k : h[i] = g[i]
    BY <2>2, <2>3
  <2>5. \A i \in 0 .. k + 1 : i # 0 => h[i - 1] = g[i - 1]
    <3>1. \A i \in 0 .. k + 1 : i # 0 => i - 1 \in 0 .. k
      OBVIOUS
    <3> QED
      BY <2>4, <3>1
  <2>6. h = [i \in 0 .. k + 1 |-> IF i = 0 THEN {Werewolf!BaseDeck(n)}
                                  ELSE WolfGrow(n, h[i - 1])]
    BY <2>2, <2>5
  <2>7. WolfSteps(n, k + 1, h)
    BY <2>6 DEF WolfSteps
  <2> QED
    BY <2>7
<1>3. Nat \subseteq C
  <2> HIDE DEF C
  <2> QED
    BY <1>1, <1>2, NatSetInduction
<1> QED
  BY <1>3

(* GrownDecks is that function.                                              *)
LEMMA WolfGrownDecks ==
    ASSUME NEW n
    PROVE  WolfSteps(n, 11, Werewolf!GrownDecks(n))
<1>1. \E g : WolfSteps(n, 11, g)
  BY WolfStepsExist
<1>2. Werewolf!GrownDecks(n) = CHOOSE g : WolfSteps(n, 11, g)
  BY WolfRoles DEF Werewolf!GrownDecks, WolfSteps, WolfGrow
<1> QED
  BY <1>1, <1>2

LEMMA WolfGrownFit ==
    ASSUME NEW n \in Nat, n >= 6, NEW d \in Werewolf!GrownDecks(n)[Werewolf!Cardinality(Werewolf!Roles)]
    PROVE  WolfFits(d, n)
<1>1. PICK g : g = Werewolf!GrownDecks(n)
  OBVIOUS
<1>2. /\ g[0] = {Werewolf!BaseDeck(n)}
      /\ \A i \in 1 .. 11 : g[i] = WolfGrow(n, g[i - 1])
  <2>1. WolfSteps(n, 11, g)
    BY <1>1, WolfGrownDecks
  <2>2. \A i \in 0 .. 11 : g[i] = IF i = 0 THEN {Werewolf!BaseDeck(n)}
                                  ELSE WolfGrow(n, g[i - 1])
    BY <2>1 DEF WolfSteps
  <2> QED
    BY <2>2
<1> DEFINE C == {k \in Nat : k <= 11 => \A e \in g[k] : WolfFits(e, n)}
<1>3. 0 \in C
  BY <1>2, WolfBaseDeck
<1>4. \A k \in Nat : k \in C => k + 1 \in C
  <2>1. SUFFICES ASSUME NEW k \in Nat, k + 1 <= 11, \A e \in g[k] : WolfFits(e, n),
                        NEW e \in g[k + 1]
                 PROVE  WolfFits(e, n)
    OBVIOUS
  <2>2. k + 1 \in 1 .. 11 /\ (k + 1) - 1 = k
    BY <2>1
  <2>3. g[k + 1] = WolfGrow(n, g[k])
    BY <1>2, <2>2
  <2>4. PICK b \in g[k] : e \in Werewolf!Grown(b, n)
    BY <2>3 DEF WolfGrow
  <2>5. WolfFits(b, n)
    BY <2>1
  <2> QED
    BY <2>4, <2>5, WolfGrows
<1>5. Nat \subseteq C
  <2> HIDE DEF C
  <2> QED
    BY <1>3, <1>4, NatSetInduction
<1> QED
  BY <1>1, <1>5, WolfRoles

(* make_anarchy_deck: a deck of n cards.                                     *)
LEMMA WolfAnarchy ==
    ASSUME NEW n \in Nat, n >= 6, NEW deck \in Werewolf!AnarchyDecks(n)
    PROVE  WolfDeckOK(deck)
<1>1. PICK d \in Werewolf!GrownDecks(n)[Werewolf!Cardinality(Werewolf!Roles)] :
         deck = [d.cards EXCEPT ![Werewolf!Villager] = @ + n - Werewolf!Size(d.cards)]
  BY DEF Werewolf!AnarchyDecks
<1>2. WolfFits(d, n)
  BY WolfGrownFit
<1>3. PICK c : c = d.cards
  OBVIOUS
<1>4. /\ c \in Werewolf!Bags /\ Werewolf!Size(c) <= n
      /\ \A r \in WolfSingle : c[r] <= 1
  BY <1>2, <1>3 DEF WolfFits, WolfGrowing
<1>5. c[Werewolf!Villager] + n - Werewolf!Size(c) \in Nat
  <2>1. c[Werewolf!Villager] \in Nat /\ Werewolf!Size(c) \in Nat
    BY <1>4, WolfSize, WolfSpecials DEF Werewolf!Bags
  <2> QED
    BY <1>4, <2>1
<1>6. deck = [c EXCEPT ![Werewolf!Villager] = c[Werewolf!Villager] + n - Werewolf!Size(c)]
  BY <1>1, <1>3
<1> QED
  BY <1>4, <1>5, <1>6, WolfSpecials DEF WolfDeckOK, Werewolf!Bags

(* handle_mode_cb: whatever mode is allowed.                                 *)
LEMMA WolfDecks ==
    ASSUME NEW m \in WerewolfRules.Modes, Werewolf!Allowed(m, WerewolfRules.NPlayers),
           NEW deck \in Werewolf!DecksOf(m, WerewolfRules.NPlayers)
    PROVE  WolfDeckOK(deck)
<1>1. Werewolf!Anarchy = 9
  BY DEF Werewolf!Anarchy, Werewolf!DeckModes
<1>2. m \in 1 .. 9
  BY WolfNumbers
<1>3. CASE m = 9
  <2>1. deck \in Werewolf!AnarchyDecks(WerewolfRules.NPlayers + 3)
    BY <1>1, <1>3 DEF Werewolf!DecksOf, Werewolf!NExtra
  <2>2. WerewolfRules.NPlayers + 3 \in Nat /\ WerewolfRules.NPlayers + 3 >= 6
    BY WolfNumbers
  <2> QED
    BY <2>1, <2>2, WolfAnarchy
<1>4. CASE m # 9
  <2>1. deck = Werewolf!ModeDeck(m, WerewolfRules.NPlayers)
    BY <1>1, <1>4 DEF Werewolf!DecksOf
  <2>2. m \in 1 .. 8
    BY <1>2, <1>4
  <2> QED
    BY <2>1, <2>2, WolfModeDeck
<1> QED
  BY <1>3, <1>4

--------------------------------------------------------------------------
(* Werewolf: the night *)

\* The players to whom v gives the role r, and the records.
WolfHave(v, r) == Cardinality(Fibre(v, Werewolf!Players, r))
WolfAll(v, r) == Cardinality(Fibre(v, Werewolf!Records, r))

\* No more players wake up as a role than the deck has, and no card is lost.
WolfCards(g) ==
    /\ g \in Werewolf!Table
    /\ WolfDeckOK(g.deck)
    /\ \A r \in Werewolf!Roles : WolfHave(g.wakeup, r) <= g.deck[r]
    /\ \A r \in Werewolf!Roles :
          g.deck[r] + Werewolf!Spare(r) = g.extra[r] + WolfAll(g.card, r)
    /\ ~g.stray => \A r \in Werewolf!Roles : g.deck[r] = g.extra[r] + WolfHave(g.card, r)

\* What only an old button brings about.
WolfStray(g) ==
    /\ g.aborted => g.stray
    /\ g.stray \/ g.first \in Werewolf!Players \cup {Werewolf!None}

WolfNight(g) ==
    g.phase \in Werewolf!Nightly \cup {Werewolf!Waiting} /\ ~g.over /\ ~g.aborted =>
       /\ g.timer <=> Werewolf!Awaited(g) = {}
       /\ Cardinality(Werewolf!Awaited(g)) <= 1

WolfHolds(g) ==
    /\ g \in Werewolf!Table
    /\ g.phase = Werewolf!PickMode =>
          /\ ~g.timer
          /\ \A p \in Werewolf!Records : g.card[p] = Werewolf!Villager
    /\ g.phase # Werewolf!PickMode => WolfCards(g)
    /\ WolfNight(g)
    /\ WolfStray(g)

WerewolfInv == WolfHolds(game)

LEMMA WolfHaveNat ==
    /\ \A v, r : WolfHave(v, r) \in Nat
    /\ \A v, r : WolfAll(v, r) \in Nat
<1>1. \A v, r : WolfHave(v, r) \in Nat
  BY WolfPlayers, FibreFinite DEF WolfHave
<1>2. \A v, r : WolfAll(v, r) \in Nat
  BY WolfRecords, FibreFinite DEF WolfAll
<1> QED
  BY <1>1, <1>2

LEMMA WolfAwake ==
    /\ \A g, r : Werewolf!Awake(g, r) = Fibre(g.wakeup, Werewolf!Players, r)
    /\ \A g : Werewolf!Awaited(g) =
           IF \/ g.phase = Werewolf!Wolf /\ WolfHave(g.wakeup, Werewolf!Wolf) = 1
              \/ g.phase \in WolfSingle
           THEN Fibre(g.wakeup, Werewolf!Players, g.phase) ELSE {}
<1>1. \A g, r : Werewolf!Awake(g, r) = Fibre(g.wakeup, Werewolf!Players, r)
  BY DEF Werewolf!Awake, Fibre
<1>2. \A g : Werewolf!Cardinality(Werewolf!Awake(g, Werewolf!Wolf)) = WolfHave(g.wakeup, Werewolf!Wolf)
  BY <1>1, WolfRoles DEF WolfHave
<1> QED
  BY <1>1, <1>2 DEF Werewolf!Awaited, WolfSingle

(* Nobody is awaited who is not one player.                                  *)
LEMMA WolfAwaitsOne ==
    ASSUME NEW g, WolfCards(g)
    PROVE  Cardinality(Werewolf!Awaited(g)) <= 1
<1>1. CASE g.phase \in WolfSingle
  <2>1. Werewolf!Awaited(g) = Fibre(g.wakeup, Werewolf!Players, g.phase)
    BY <1>1, WolfAwake
  <2>2. g.phase \in Werewolf!Roles
    BY <1>1, WolfSpecials
  <2>3. /\ WolfHave(g.wakeup, g.phase) <= g.deck[g.phase]
        /\ g.deck[g.phase] <= 1 /\ g.deck[g.phase] \in Nat
    BY <1>1, <2>2 DEF WolfCards, WolfDeckOK, Werewolf!Bags
  <2> QED
    BY <2>1, <2>3, WolfHaveNat DEF WolfHave
<1>2. CASE g.phase = Werewolf!Wolf /\ WolfHave(g.wakeup, Werewolf!Wolf) = 1
  BY <1>2, WolfAwake DEF WolfHave
<1>3. CASE g.phase \notin WolfSingle
           /\ ~(g.phase = Werewolf!Wolf /\ WolfHave(g.wakeup, Werewolf!Wolf) = 1)
  <2>1. Werewolf!Awaited(g) = {}
    BY <1>3, WolfAwake
  <2>2. Cardinality({}) = 0
    BY FS_EmptySet
  <2> QED
    BY <2>1, <2>2
<1> QED
  BY <1>1, <1>2, <1>3

(* start_next_phase: what the next phase is, and its timer.                  *)
LEMMA WolfNextIs ==
    ASSUME NEW g \in Werewolf!Table, ~g.timer, NEW e, e = Werewolf!NextPhase(g)
    PROVE  /\ e \in Werewolf!Table
           /\ e.phase \in Werewolf!Nightly \cup {Werewolf!Discussion}
           /\ e.timer <=> Werewolf!Awaited(e) = {}
           /\ e.deck = g.deck /\ e.extra = g.extra /\ e.card = g.card
           /\ e.wakeup = g.wakeup /\ e.stray = g.stray /\ e.aborted = g.aborted
           /\ e.first = g.first \/ e.first = Werewolf!None
<1> DEFINE later == {r \in Werewolf!Nightly : r > g.phase /\ g.deck[r] > 0}
           h == [g EXCEPT !.phase = IF later = {} THEN Werewolf!Discussion
                                                  ELSE Werewolf!Min(later),
                          !.first = IF later # {} /\ Werewolf!Min(later) = Werewolf!Troublemaker
                                    THEN Werewolf!None ELSE @]
<1>1. Werewolf!NextPhase(g) = [h EXCEPT !.timer = @ \/ Werewolf!Awaited(h) = {}]
  BY DEF Werewolf!NextPhase
<1>2. later # {} => Werewolf!Min(later) \in Werewolf!Nightly
  <2>1. later \in SUBSET Nat /\ later \subseteq Werewolf!Nightly
    BY DEF Werewolf!Nightly, Werewolf!Wolf, Werewolf!Minion, Werewolf!Mason, Werewolf!Seer,
       Werewolf!Robber, Werewolf!Troublemaker, Werewolf!Drunk, Werewolf!Insomniac
  <2> HIDE DEF later
  <2>2. later # {} => Min(later) \in later
    BY <2>1, MinProperties
  <2> QED
    BY <2>1, <2>2, WolfRoles
<1> HIDE DEF later
<1>3. /\ h.phase \in Werewolf!Nightly \cup {Werewolf!Discussion}
      /\ h \in Werewolf!Table
      /\ h.deck = g.deck /\ h.extra = g.extra /\ h.card = g.card
      /\ h.wakeup = g.wakeup /\ h.timer = FALSE
      /\ h.stray = g.stray /\ h.aborted = g.aborted
      /\ h.first = g.first \/ h.first = Werewolf!None
  <2>1. PICK x : x = IF later = {} THEN Werewolf!Discussion ELSE Werewolf!Min(later)
    OBVIOUS
  <2>2. PICK y : y = IF later # {} /\ Werewolf!Min(later) = Werewolf!Troublemaker
                     THEN Werewolf!None ELSE g.first
    OBVIOUS
  <2>3. x \in Werewolf!Nightly \cup {Werewolf!Discussion}
    BY <1>2, <2>1
  <2>4. x \in Werewolf!PickMode .. Werewolf!Discussion
    BY <2>3 DEF Werewolf!Nightly, Werewolf!Wolf, Werewolf!Minion, Werewolf!Mason,
       Werewolf!Seer, Werewolf!Robber, Werewolf!Troublemaker, Werewolf!Drunk,
       Werewolf!Insomniac, Werewolf!PickMode, Werewolf!Discussion
  <2>5. /\ y \in Werewolf!Records \cup {Werewolf!None}
        /\ y = g.first \/ y = Werewolf!None
    BY <2>2 DEF Werewolf!Table
  <2>6. h = [g EXCEPT !.phase = x, !.first = y]
    BY <2>1, <2>2
  <2> HIDE DEF h
  <2> QED
    BY <2>3, <2>4, <2>5, <2>6 DEF Werewolf!Table
<1> HIDE DEF h
<1>4. PICK b \in BOOLEAN : b <=> Werewolf!Awaited(h) = {}
  OBVIOUS
<1>5. e = [h EXCEPT !.timer = b]
  BY <1>1, <1>3, <1>4
<1>6. /\ e \in Werewolf!Table /\ e.phase = h.phase /\ e.wakeup = h.wakeup
      /\ e.deck = h.deck /\ e.extra = h.extra /\ e.card = h.card /\ e.timer = b
      /\ e.stray = h.stray /\ e.aborted = h.aborted /\ e.first = h.first
  BY <1>3, <1>5 DEF Werewolf!Table
<1>7. Werewolf!Awaited(e) = Werewolf!Awaited(h)
  BY <1>6, WolfAwake
<1> QED
  BY <1>3, <1>4, <1>6, <1>7

LEMMA WolfNextPhase ==
    ASSUME NEW g, WolfCards(g), WolfStray(g), ~g.timer
    PROVE  WolfHolds(Werewolf!NextPhase(g))
<1>1. PICK e : e = Werewolf!NextPhase(g)
  OBVIOUS
<1>2. /\ e \in Werewolf!Table
      /\ e.phase \in Werewolf!Nightly \cup {Werewolf!Discussion}
      /\ e.timer <=> Werewolf!Awaited(e) = {}
      /\ e.deck = g.deck /\ e.extra = g.extra /\ e.card = g.card
      /\ e.wakeup = g.wakeup /\ e.stray = g.stray /\ e.aborted = g.aborted
      /\ e.first = g.first \/ e.first = Werewolf!None
  BY <1>1, WolfNextIs DEF WolfCards
<1>3. WolfCards(e) /\ WolfStray(e)
  BY <1>2 DEF WolfCards, WolfStray
<1>4. Cardinality(Werewolf!Awaited(e)) <= 1
  BY <1>3, WolfAwaitsOne
<1>5. e.phase # Werewolf!PickMode
  BY <1>2 DEF Werewolf!Nightly, Werewolf!Wolf, Werewolf!Minion, Werewolf!Mason,
     Werewolf!Seer, Werewolf!Robber, Werewolf!Troublemaker, Werewolf!Drunk,
     Werewolf!Insomniac, Werewolf!PickMode, Werewolf!Discussion
<1> QED
  BY <1>1, <1>2, <1>3, <1>4, <1>5 DEF WolfHolds, WolfNight

LEMMA WerewolfInitially ==
    ASSUME Werewolf!Init
    PROVE  WerewolfInv
<1>1. game.phase = Werewolf!PickMode /\ ~game.timer
  BY DEF Werewolf!Init
<1>2. game \in Werewolf!Table
  <2>1. Werewolf!NoCards \in Werewolf!Bags
    BY WolfNoCards
  <2>2. 0 \in Werewolf!Players
    BY WolfNumbers DEF Werewolf!Players
  <2> QED
    BY <2>1, <2>2, WolfSpecials, WolfRecords DEF Werewolf!Init, Werewolf!Table,
       Werewolf!PickMode, Werewolf!Discussion
<1>3. game.phase \notin Werewolf!Nightly \cup {Werewolf!Waiting}
  BY <1>1 DEF Werewolf!Nightly, Werewolf!Wolf, Werewolf!Minion, Werewolf!Mason,
     Werewolf!Seer, Werewolf!Robber, Werewolf!Troublemaker, Werewolf!Drunk,
     Werewolf!Insomniac, Werewolf!PickMode, Werewolf!Waiting
<1>4. WolfStray(game)
  <2>1. game.first \in Werewolf!Players /\ ~game.aborted
    BY WolfNumbers DEF Werewolf!Init, Werewolf!Players
  <2> QED
    BY <2>1 DEF WolfStray
<1>5. \A p \in Werewolf!Records : game.card[p] = Werewolf!Villager
  BY DEF Werewolf!Init
<1> QED
  BY <1>1, <1>2, <1>3, <1>4, <1>5 DEF WerewolfInv, WolfHolds, WolfNight

(* A role that is answered at night had been waited for: no timer runs.      *)
WolfLonely(r) ==
    \/ r \in WolfSingle
    \/ r = Werewolf!Wolf /\ Werewolf!Cardinality(Werewolf!Awake(game, Werewolf!Wolf)) = 1

LEMMA WolfAsked ==
    ASSUME WerewolfInv, NEW p \in Werewolf!Players, NEW r,
           Werewolf!Asked(p, r),
           WolfLonely(r)
    PROVE  WolfCards(game) /\ WolfStray(game) /\ ~game.timer
<1>1. game.phase = r /\ game.wakeup[p] = r /\ ~game.over /\ ~game.aborted
  BY DEF Werewolf!Asked, Werewolf!Running
<1>2. p \in Fibre(game.wakeup, Werewolf!Players, r)
  BY <1>1 DEF Fibre
<1>3. r = Werewolf!Wolf => WolfHave(game.wakeup, Werewolf!Wolf) = 1 \/ r \in WolfSingle
  BY WolfAwake, WolfRoles DEF WolfHave, WolfLonely
<1>4. Werewolf!Awaited(game) # {}
  BY <1>1, <1>2, <1>3, WolfAwake DEF WolfLonely
<1>5. r \in Werewolf!Nightly /\ r # Werewolf!PickMode
  BY DEF WolfLonely, WolfSingle, Werewolf!Nightly, Werewolf!Wolf, Werewolf!Minion,
     Werewolf!Mason, Werewolf!Seer, Werewolf!Robber, Werewolf!Troublemaker, Werewolf!Drunk,
     Werewolf!Insomniac, Werewolf!PickMode
<1> QED
  BY <1>1, <1>4, <1>5 DEF WerewolfInv, WolfHolds, WolfNight

(* deal_roles: what is left of the deck when everybody has a card.           *)
LEMMA WolfDealt ==
    ASSUME NEW deck, WolfDeckOK(deck), NEW cards \in Werewolf!Deals(deck),
           NEW extra,
           extra = [r \in Werewolf!Roles |->
               deck[r] - Werewolf!Cardinality({q \in Werewolf!Players : cards[q] = r})]
    PROVE  /\ cards \in [Werewolf!Players -> Werewolf!Roles]
           /\ extra \in Werewolf!Bags
           /\ \A r \in Werewolf!Roles : /\ WolfHave(cards, r) <= deck[r]
                                        /\ deck[r] = extra[r] + WolfHave(cards, r)
<1>1. /\ cards \in [Werewolf!Players -> Werewolf!Has(deck)]
      /\ \A r \in Werewolf!Has(deck) : WolfHave(cards, r) <= deck[r]
  BY WolfRoles DEF Werewolf!Deals, WolfHave, Fibre
<1>2. cards \in [Werewolf!Players -> Werewolf!Roles]
  BY <1>1 DEF Werewolf!Has
<1>3. ASSUME NEW r \in Werewolf!Roles
      PROVE  /\ deck[r] \in Nat /\ WolfHave(cards, r) \in Nat
             /\ WolfHave(cards, r) <= deck[r]
             /\ extra[r] = deck[r] - WolfHave(cards, r)
  <2>1. deck[r] \in Nat /\ WolfHave(cards, r) \in Nat
    BY WolfHaveNat DEF WolfDeckOK, Werewolf!Bags
  <2>2. ASSUME deck[r] > 0
        PROVE  WolfHave(cards, r) <= deck[r]
    BY <1>1, <2>2 DEF Werewolf!Has
  <2>3. ASSUME deck[r] = 0
        PROVE  WolfHave(cards, r) <= deck[r]
    <3>1. r \notin Werewolf!Has(deck)
      BY <2>3 DEF Werewolf!Has
    <3>2. Fibre(cards, Werewolf!Players, r) = {}
      BY <1>1, <3>1 DEF Fibre
    <3>3. WolfHave(cards, r) = 0
      BY <3>2, FS_EmptySet DEF WolfHave
    <3> QED
      BY <2>3, <3>3
  <2>4. extra[r] = deck[r] - WolfHave(cards, r)
    BY WolfRoles DEF WolfHave, Fibre
  <2>5. WolfHave(cards, r) <= deck[r]
    BY <2>1, <2>2, <2>3
  <2> QED
    BY <2>1, <2>4, <2>5
<1>4. extra \in Werewolf!Bags
  BY <1>3 DEF Werewolf!Bags
<1> QED
  BY <1>2, <1>3, <1>4

(* The cards as they lie when the records of nobody are counted as well.     *)
LEMMA WolfLaid ==
    ASSUME NEW cards \in [Werewolf!Players -> Werewolf!Roles], NEW old,
           \A p \in Werewolf!Records : old[p] = Werewolf!Villager, NEW all,
           all = [p \in Werewolf!Records |-> IF p \in Werewolf!Players THEN cards[p] ELSE old[p]]
    PROVE  /\ all \in [Werewolf!Records -> Werewolf!Roles]
           /\ \A r : WolfHave(all, r) = WolfHave(cards, r)
           /\ \A r : WolfAll(all, r) = WolfHave(cards, r) + Werewolf!Spare(r)
<1>1. all \in [Werewolf!Records -> Werewolf!Roles]
  BY WolfSpecials
<1>2. ASSUME NEW r
      PROVE  Fibre(all, Werewolf!Players, r) = Fibre(cards, Werewolf!Players, r)
  BY WolfRecords DEF Fibre
<1>3. ASSUME NEW r
      PROVE  WolfAll(all, r) = WolfHave(cards, r) + Werewolf!Spare(r)
  <2>1. PICK S : S = Fibre(cards, Werewolf!Players, r)
    OBVIOUS
  <2>2. S \subseteq Werewolf!Players /\ IsFiniteSet(S) /\ Cardinality(S) \in Nat
    BY <2>1, WolfPlayers, FibreFinite
  <2>3. CASE r = Werewolf!Villager
    <3>1. PICK T : T = Werewolf!Records \ Werewolf!Players
      OBVIOUS
    <3>2. Fibre(all, Werewolf!Records, r) = S \cup T
      BY <2>1, <2>3, <3>1, WolfRecords DEF Fibre
    <3>3. T \in SUBSET Werewolf!Records /\ S \cap T = {}
      BY <2>2, <3>1
    <3>4. IsFiniteSet(T)
      BY <3>3, WolfRecords, FS_Subset
    <3>5. Cardinality(S \cup T) = Cardinality(S) + Cardinality(T)
      BY <2>2, <3>3, <3>4, Together
    <3>6. Cardinality(T) = Werewolf!Spare(r)
      BY <2>3, <3>1, WolfRecords DEF Werewolf!Spare, Werewolf!MaxPlayers
    <3> QED
      BY <2>1, <3>2, <3>5, <3>6 DEF WolfAll, WolfHave
  <2>4. CASE r # Werewolf!Villager
    <3>1. Fibre(all, Werewolf!Records, r) = S
      BY <2>1, <2>4, WolfRecords DEF Fibre
    <3>2. Werewolf!Spare(r) = 0
      BY <2>4 DEF Werewolf!Spare
    <3> QED
      BY <2>1, <2>2, <3>1, <3>2 DEF WolfAll, WolfHave
  <2> QED
    BY <2>3, <2>4
<1> QED
  BY <1>1, <1>2, <1>3 DEF WolfHave

(* A button that names somebody, and nothing else.                           *)
WolfOnlyNamed(g, h, target) ==
    /\ WolfCards(h) /\ WolfStray(h)
    /\ h.stray <=> g.stray \/ target \notin Werewolf!Players
    /\ h.phase = g.phase /\ h.timer = g.timer /\ h.wakeup = g.wakeup /\ h.first = g.first
    /\ h.aborted = g.aborted /\ h.over = g.over

LEMMA WolfSomebody ==
    ASSUME NEW g, WolfCards(g), WolfStray(g), NEW target, NEW h,
           h = Werewolf!Named(g, target)
    PROVE  WolfOnlyNamed(g, h, target)
<1>1. g \in Werewolf!Table
  BY DEF WolfCards
<1>2. PICK b \in BOOLEAN : b <=> g.stray \/ target \notin Werewolf!Players
  OBVIOUS
<1>3. g.stray \in BOOLEAN
  BY <1>1 DEF Werewolf!Table
<1>4. h = [g EXCEPT !.stray = b]
  BY <1>2, <1>3 DEF Werewolf!Named
<1>5. /\ h \in Werewolf!Table /\ h.stray = b /\ h.phase = g.phase /\ h.timer = g.timer
      /\ h.wakeup = g.wakeup /\ h.first = g.first /\ h.aborted = g.aborted
      /\ h.deck = g.deck /\ h.extra = g.extra /\ h.card = g.card /\ h.over = g.over
  BY <1>1, <1>4 DEF Werewolf!Table
<1>6. WolfCards(h) /\ WolfStray(h)
  BY <1>2, <1>5 DEF WolfCards, WolfStray
<1> QED
  BY <1>2, <1>5, <1>6 DEF WolfOnlyNamed

(* handle_rob_cb and handle_swap_cb: two cards exchanged.                    *)
LEMMA WolfSwapped ==
    ASSUME NEW g, WolfCards(g), WolfStray(g), ~g.timer,
           NEW p \in Werewolf!Records, NEW q \in Werewolf!Records,
           g.stray \/ (p \in Werewolf!Players /\ q \in Werewolf!Players)
    PROVE  WolfHolds(Werewolf!NextPhase(Werewolf!Swapped(g, p, q)))
<1>1. PICK h : h = Werewolf!Swapped(g, p, q)
  OBVIOUS
<1>2. PICK c : c = [[g.card EXCEPT ![p] = g.card[q]] EXCEPT ![q] = g.card[p]]
  OBVIOUS
<1>3. /\ g.card \in [Werewolf!Records -> Werewolf!Roles]
      /\ g \in Werewolf!Table
  BY DEF WolfCards, Werewolf!Table
<1>4. c \in [Werewolf!Records -> Werewolf!Roles]
  BY <1>2, <1>3
<1>5. h = [g EXCEPT !.card = c]
  BY <1>1, <1>2, <1>3 DEF Werewolf!Swapped, Werewolf!Table
<1>6. /\ h \in Werewolf!Table /\ h.card = c /\ h.timer = g.timer
      /\ h.deck = g.deck /\ h.extra = g.extra /\ h.wakeup = g.wakeup
      /\ h.stray = g.stray /\ h.aborted = g.aborted /\ h.first = g.first
  BY <1>3, <1>4, <1>5 DEF Werewolf!Table
<1>7. PICK v : v = g.card
  OBVIOUS
<1>8. /\ c[p] = v[q] /\ c[q] = v[p]
      /\ \A i \in Werewolf!Records : i # p /\ i # q => c[i] = v[i]
  BY <1>2, <1>3, <1>7
<1>9. ASSUME NEW r \in Werewolf!Roles
      PROVE  WolfAll(c, r) = WolfAll(g.card, r)
  <2>1. Cardinality(Fibre(c, Werewolf!Records, r)) = Cardinality(Fibre(v, Werewolf!Records, r))
    BY <1>8, WolfRecords, FibreSwap
  <2> QED
    BY <1>7, <2>1 DEF WolfAll
<1>10. ASSUME ~g.stray, NEW r \in Werewolf!Roles
       PROVE  WolfHave(c, r) = WolfHave(g.card, r)
  <2>1. /\ p \in Werewolf!Players /\ q \in Werewolf!Players
        /\ \A i \in Werewolf!Players : i # p /\ i # q => c[i] = v[i]
    BY <1>8, <1>10, WolfRecords
  <2>2. Cardinality(Fibre(c, Werewolf!Players, r)) = Cardinality(Fibre(v, Werewolf!Players, r))
    BY <1>8, <2>1, WolfPlayers, FibreSwap
  <2> QED
    BY <1>7, <2>2 DEF WolfHave
<1>11. WolfCards(h) /\ WolfStray(h)
  BY <1>6, <1>9, <1>10 DEF WolfCards, WolfStray
<1> QED
  BY <1>1, <1>6, <1>11, WolfNextPhase

(* handle_first_swap_choice: the buttons of the second question are counted  *)
(* right when a player of this game was named.                               *)
LEMMA WolfCounted ==
    ASSUME NEW p \in Werewolf!Players, NEW q \in Werewolf!Players
    PROVE  ~Werewolf!Miscounted({p, q})
<1>1. PICK T : T = {p, q}
  OBVIOUS
<1>2. T \subseteq Werewolf!Players
  BY <1>1
<1>3. /\ Cardinality(Werewolf!Players) = Cardinality(T) + Cardinality(Werewolf!Players \ T)
      /\ Cardinality(T) \in Nat /\ Cardinality(Werewolf!Players \ T) \in Nat
  BY <1>2, WolfPlayers, TakenAway
<1>4. Cardinality(Werewolf!Players \ T) = WerewolfRules.NPlayers - Cardinality(T)
  BY <1>3, WolfPlayers
<1> QED
  BY <1>1, <1>4, WolfRoles DEF Werewolf!Miscounted

LEMMA WolfFirstChoice ==
    ASSUME NEW g, WolfCards(g), WolfStray(g), WolfNight(g), ~g.timer,
           g.phase = Werewolf!Troublemaker, ~g.over, ~g.aborted,
           NEW p \in Werewolf!Players, NEW q \in Werewolf!Records,
           g.stray \/ q \in Werewolf!Players,
           NEW e, e = Werewolf!FirstChoice(g, p, q)
    PROVE  WolfHolds(e)
<1>1. PICK b \in BOOLEAN : b = Werewolf!Miscounted({p, q})
  BY DEF Werewolf!Miscounted
<1>2. e = [g EXCEPT !.first = q, !.aborted = b]
  BY <1>1 DEF Werewolf!FirstChoice
<1>3. g \in Werewolf!Table
  BY DEF WolfCards
<1>4. /\ e \in Werewolf!Table /\ e.first = q /\ e.aborted = b
      /\ e.phase = g.phase /\ e.timer = g.timer /\ e.deck = g.deck /\ e.extra = g.extra
      /\ e.card = g.card /\ e.wakeup = g.wakeup /\ e.over = g.over /\ e.stray = g.stray
  BY <1>2, <1>3 DEF Werewolf!Table
<1>5. WolfCards(e)
  BY <1>4 DEF WolfCards
<1>6. WolfStray(e)
  <2>1. b => g.stray
    BY <1>1, WolfCounted
  <2> QED
    BY <1>4, <2>1 DEF WolfStray
<1>7. WolfNight(e)
  <2>1. Werewolf!Awaited(e) = Werewolf!Awaited(g)
    BY <1>4, WolfAwake
  <2> QED
    BY <1>4, <2>1 DEF WolfNight
<1>8. e.phase # Werewolf!PickMode
  BY <1>4 DEF Werewolf!PickMode, Werewolf!Troublemaker
<1> QED
  BY <1>4, <1>5, <1>6, <1>7, <1>8 DEF WolfHolds

(* handle_take_cb: a card exchanged for one of the table.                    *)
LEMMA WolfTaken ==
    ASSUME NEW g, WolfCards(g), WolfStray(g), ~g.timer, NEW p \in Werewolf!Players,
           NEW r \in Werewolf!Has(g.extra), NEW h,
           h = [g EXCEPT !.card[p] = r, !.extra = Werewolf!Traded(g.extra, r, g.card[p])]
    PROVE  WolfHolds(Werewolf!NextPhase(h))
<1>1. /\ g.card \in [Werewolf!Records -> Werewolf!Roles]
      /\ g.extra \in Werewolf!Bags
      /\ g \in Werewolf!Table
      /\ p \in Werewolf!Records
  BY WolfRecords DEF WolfCards, Werewolf!Table
<1>2. r \in Werewolf!Roles /\ g.extra[r] > 0
  BY DEF Werewolf!Has
<1>3. PICK old \in Werewolf!Roles : old = g.card[p]
  BY <1>1
<1>4. PICK c : c = [g.card EXCEPT ![p] = r]
  OBVIOUS
<1>5. PICK x : x = Werewolf!Traded(g.extra, r, g.card[p])
  OBVIOUS
<1>6. h = [g EXCEPT !.card = c, !.extra = x]
  BY <1>1, <1>4, <1>5 DEF Werewolf!Table
<1>7. c \in [Werewolf!Records -> Werewolf!Roles]
  BY <1>1, <1>2, <1>4
<1>8. PICK e : e = g.extra
  OBVIOUS
<1>9. /\ \A i \in Werewolf!Roles : e[i] \in Nat
      /\ e[r] > 0
  BY <1>1, <1>2, <1>8 DEF Werewolf!Bags
<1>10. \A i \in Werewolf!Roles :
          x[i] = e[i] + (IF i = old THEN 1 ELSE 0) - (IF i = r THEN 1 ELSE 0)
  <2>1. x = [e EXCEPT ![r] = @ - 1, ![old] = @ + 1]
    BY <1>3, <1>5, <1>8 DEF Werewolf!Traded
  <2> QED
    BY <1>1, <1>2, <1>8, <1>9, <2>1 DEF Werewolf!Bags
<1>11. x \in Werewolf!Bags
  <2>1. \A i \in Werewolf!Roles : x[i] \in Nat
    BY <1>9, <1>10
  <2> QED
    BY <1>1, <1>5, <2>1 DEF Werewolf!Bags, Werewolf!Traded
<1>12. /\ h \in Werewolf!Table /\ h.card = c /\ h.extra = x /\ h.timer = g.timer
       /\ h.deck = g.deck /\ h.wakeup = g.wakeup
       /\ h.stray = g.stray /\ h.aborted = g.aborted /\ h.first = g.first
  BY <1>1, <1>6, <1>7, <1>11 DEF Werewolf!Table
<1>13. ASSUME NEW i \in Werewolf!Roles
       PROVE  /\ WolfAll(c, i) = WolfAll(g.card, i) + e[i] - x[i]
              /\ WolfHave(c, i) = WolfHave(g.card, i) + e[i] - x[i]
  <2>1. PICK v : v = g.card
    OBVIOUS
  <2>2. \A j \in Werewolf!Records : j # p => v[j] = c[j]
    BY <1>1, <1>4, <2>1
  <2>3. Cardinality(Fibre(c, Werewolf!Records, i))
          = Cardinality(Fibre(v, Werewolf!Records, i)) + Counts(c, p, i) - Counts(v, p, i)
    BY <1>1, <2>2, WolfRecords, FibreChange
  <2>4. \A j \in Werewolf!Players : j # p => v[j] = c[j]
    BY <2>2, WolfRecords
  <2>5. Cardinality(Fibre(c, Werewolf!Players, i))
          = Cardinality(Fibre(v, Werewolf!Players, i)) + Counts(c, p, i) - Counts(v, p, i)
    BY <2>4, WolfPlayers, FibreChange
  <2>6. /\ WolfAll(c, i) = WolfAll(g.card, i) + Counts(c, p, i) - Counts(v, p, i)
        /\ WolfHave(c, i) = WolfHave(g.card, i) + Counts(c, p, i) - Counts(v, p, i)
    BY <2>1, <2>3, <2>5 DEF WolfAll, WolfHave
  <2>7. /\ Counts(c, p, i) = IF i = r THEN 1 ELSE 0
        /\ Counts(v, p, i) = IF i = old THEN 1 ELSE 0
    BY <1>1, <1>3, <1>4, <2>1 DEF Counts
  <2>8. WolfHave(g.card, i) \in Nat /\ WolfAll(g.card, i) \in Nat /\ e[i] \in Nat
    BY <1>9, WolfHaveNat
  <2>9. PICK m, n, k \in Nat : m = WolfHave(g.card, i) /\ n = WolfAll(g.card, i) /\ k = e[i]
    BY <2>8
  <2>10. PICK a, b \in {0, 1} : a = Counts(c, p, i) /\ b = Counts(v, p, i)
    BY <2>7
  <2>11. x[i] = k + b - a
    BY <1>10, <2>7, <2>9, <2>10
  <2>12. WolfAll(c, i) = n + a - b /\ WolfHave(c, i) = m + a - b
    BY <2>6, <2>9, <2>10
  <2> QED
    BY <2>9, <2>11, <2>12
<1>14. WolfCards(h)
  <2>1. ASSUME NEW i \in Werewolf!Roles
        PROVE  /\ g.deck[i] + Werewolf!Spare(i) = x[i] + WolfAll(c, i)
               /\ ~g.stray => g.deck[i] = x[i] + WolfHave(c, i)
    <3>1. PICK m, n, k, y \in Nat :
            m = WolfHave(g.card, i) /\ n = WolfAll(g.card, i) /\ k = e[i] /\ y = x[i]
      BY <1>9, <1>11, WolfHaveNat DEF Werewolf!Bags
    <3>2. WolfAll(c, i) = n + k - y /\ WolfHave(c, i) = m + k - y
      BY <1>13, <3>1
    <3>3. /\ g.deck[i] + Werewolf!Spare(i) = k + n
          /\ ~g.stray => g.deck[i] = k + m
      BY <1>8, <3>1 DEF WolfCards
    <3> QED
      BY <3>1, <3>2, <3>3
  <2> QED
    BY <1>12, <2>1 DEF WolfCards
<1>15. WolfStray(h)
  BY <1>12 DEF WolfStray
<1> QED
  BY <1>12, <1>14, <1>15, WolfNextPhase

LEMMA WerewolfStep ==
    ASSUME WerewolfInv, [Werewolf!Next]_game
    PROVE  WerewolfInv'
<1>1. game \in Werewolf!Table /\ WolfHolds(game)
  BY DEF WerewolfInv, WolfHolds
<1>2. CASE UNCHANGED game
  BY <1>2 DEF WerewolfInv
<1>3. ASSUME NEW m \in WerewolfRules.Modes, Werewolf!HandleMode(m)
      PROVE  WerewolfInv'
  <2>1. Werewolf!Allowed(m, WerewolfRules.NPlayers)
    BY <1>3 DEF Werewolf!HandleMode
  <2>2. PICK deck \in Werewolf!DecksOf(m, WerewolfRules.NPlayers) :
        \E cards \in Werewolf!Deals(deck) :
          game' = [game EXCEPT !.phase = Werewolf!Waiting, !.timer = TRUE, !.deck = deck,
                     !.card = [p \in Werewolf!Records |->
                                IF p \in Werewolf!Players THEN cards[p] ELSE game.card[p]],
                     !.wakeup = cards,
                     !.extra = [r \in Werewolf!Roles |->
                         deck[r] - Werewolf!Cardinality({p \in Werewolf!Players : cards[p] = r})]]
    BY <1>3 DEF Werewolf!HandleMode
  <2>3. PICK cards \in Werewolf!Deals(deck) :
          game' = [game EXCEPT !.phase = Werewolf!Waiting, !.timer = TRUE, !.deck = deck,
                     !.card = [p \in Werewolf!Records |->
                                IF p \in Werewolf!Players THEN cards[p] ELSE game.card[p]],
                     !.wakeup = cards,
                     !.extra = [r \in Werewolf!Roles |->
                         deck[r] - Werewolf!Cardinality({p \in Werewolf!Players : cards[p] = r})]]
    BY <2>2
  <2>4. PICK extra : extra = [r \in Werewolf!Roles |->
                 deck[r] - Werewolf!Cardinality({p \in Werewolf!Players : cards[p] = r})]
    OBVIOUS
  <2>5. WolfDeckOK(deck)
    BY <2>1, WolfDecks
  <2>6. /\ cards \in [Werewolf!Players -> Werewolf!Roles]
        /\ extra \in Werewolf!Bags
        /\ \A r \in Werewolf!Roles : /\ WolfHave(cards, r) <= deck[r]
                                     /\ deck[r] = extra[r] + WolfHave(cards, r)
    BY <2>4, <2>5, WolfDealt
  <2>14. PICK all : all = [p \in Werewolf!Records |->
                            IF p \in Werewolf!Players THEN cards[p] ELSE game.card[p]]
    OBVIOUS
  <2>15. /\ all \in [Werewolf!Records -> Werewolf!Roles]
         /\ \A r : WolfHave(all, r) = WolfHave(cards, r)
         /\ \A r : WolfAll(all, r) = WolfHave(cards, r) + Werewolf!Spare(r)
    <3>1. \A p \in Werewolf!Records : game.card[p] = Werewolf!Villager
      BY <1>1, <1>3 DEF Werewolf!HandleMode, WolfHolds
    <3>2. PICK old : old = game.card
      OBVIOUS
    <3>3. /\ \A p \in Werewolf!Records : old[p] = Werewolf!Villager
          /\ all = [p \in Werewolf!Records |->
                       IF p \in Werewolf!Players THEN cards[p] ELSE old[p]]
      BY <2>14, <3>1, <3>2
    <3> QED
      BY <2>6, <3>3, WolfLaid
  <2>7. game' = [game EXCEPT !.phase = Werewolf!Waiting, !.timer = TRUE, !.deck = deck,
                     !.card = all, !.wakeup = cards, !.extra = extra]
    BY <2>3, <2>4, <2>14
  <2>8. PICK e : e = game'
    OBVIOUS
  <2>9. /\ e \in Werewolf!Table
        /\ e.phase = Werewolf!Waiting /\ e.timer = TRUE /\ e.deck = deck
        /\ e.card = all /\ e.wakeup = cards /\ e.extra = extra
        /\ e.stray = game.stray /\ e.aborted = game.aborted /\ e.first = game.first
    <3>1. deck \in Werewolf!Bags
      BY <2>5 DEF WolfDeckOK
    <3>2. Werewolf!Waiting \in Werewolf!PickMode .. Werewolf!Discussion
      BY DEF Werewolf!PickMode, Werewolf!Discussion, Werewolf!Waiting
    <3> QED
      BY <1>1, <2>6, <2>7, <2>8, <2>15, <3>1, <3>2 DEF Werewolf!Table
  <2>10. WolfCards(e)
    <3>1. ASSUME NEW r \in Werewolf!Roles
          PROVE  /\ deck[r] + Werewolf!Spare(r) = extra[r] + WolfAll(all, r)
                 /\ deck[r] = extra[r] + WolfHave(all, r)
      <4>1. PICK c, k, d \in Nat : c = WolfHave(cards, r) /\ k = extra[r] /\ d = deck[r]
        BY <2>5, <2>6, WolfHaveNat DEF WolfDeckOK, Werewolf!Bags
      <4>2. PICK z \in Nat : z = Werewolf!Spare(r)
        BY WolfNumbers DEF Werewolf!Spare, Werewolf!MaxPlayers
      <4>3. WolfAll(all, r) = c + z /\ WolfHave(all, r) = c /\ d = k + c
        BY <2>6, <2>15, <4>1, <4>2
      <4> QED
        BY <4>1, <4>2, <4>3
    <3> QED
      BY <2>5, <2>6, <2>9, <3>1 DEF WolfCards
  <2>11. Werewolf!Awaited(e) = {}
    BY <2>9, WolfAwake DEF WolfSingle, Werewolf!Wolf, Werewolf!Seer, Werewolf!Robber,
       Werewolf!Troublemaker, Werewolf!Drunk, Werewolf!Waiting
  <2>12. e.phase # Werewolf!PickMode
    BY <2>9 DEF Werewolf!Waiting, Werewolf!PickMode
  <2>13. Cardinality(Werewolf!Awaited(e)) <= 1
    BY <2>10, WolfAwaitsOne
  <2>16. WolfStray(e)
    BY <1>1, <2>9 DEF WolfHolds, WolfStray
  <2> QED
    BY <2>8, <2>9, <2>10, <2>11, <2>12, <2>13, <2>16 DEF WerewolfInv, WolfHolds, WolfNight
<1>4. ASSUME NEW p \in Werewolf!Players, Werewolf!See(p)
      PROVE  WerewolfInv'
  <2>1. WolfLonely(Werewolf!Seer) /\ Werewolf!Asked(p, Werewolf!Seer)
    BY <1>4 DEF WolfLonely, WolfSingle, Werewolf!See
  <2>2. WolfCards(game) /\ WolfStray(game) /\ ~game.timer
    BY <2>1, WolfAsked
  <2>3. CASE game' = Werewolf!NextPhase(game)
    BY <2>2, <2>3, WolfNextPhase DEF WerewolfInv
  <2>4. ASSUME NEW q, game' = Werewolf!NextPhase(Werewolf!Named(game, q))
        PROVE  WerewolfInv'
    <3>1. PICK h : h = Werewolf!Named(game, q)
      OBVIOUS
    <3>2. WolfCards(h) /\ WolfStray(h) /\ ~h.timer
      BY <2>2, <3>1, WolfSomebody DEF WolfOnlyNamed
    <3>3. WolfHolds(Werewolf!NextPhase(h))
      BY <3>2, WolfNextPhase
    <3> QED
      BY <2>4, <3>1, <3>3 DEF WerewolfInv
  <2> QED
    BY <1>4, <2>3, <2>4 DEF Werewolf!See
<1>5. ASSUME NEW p \in Werewolf!Players, Werewolf!WolfSee(p)
      PROVE  WerewolfInv'
  <2>1. WolfCards(game) /\ WolfStray(game) /\ ~game.timer
    <3>1. WolfLonely(Werewolf!Wolf) /\ Werewolf!Asked(p, Werewolf!Wolf)
      BY <1>5 DEF WolfLonely, WolfSingle, Werewolf!WolfSee
    <3> QED
      BY <3>1, WolfAsked
  <2> QED
    BY <1>5, <2>1, WolfNextPhase DEF Werewolf!WolfSee, WerewolfInv
<1>6. ASSUME NEW p \in Werewolf!Players, Werewolf!Rob(p)
      PROVE  WerewolfInv'
  <2>1. WolfCards(game) /\ WolfStray(game) /\ ~game.timer
    <3>1. WolfLonely(Werewolf!Robber) /\ Werewolf!Asked(p, Werewolf!Robber)
      BY <1>6 DEF WolfLonely, WolfSingle, Werewolf!Rob
    <3> QED
      BY <3>1, WolfAsked
  <2>2. CASE game' = Werewolf!NextPhase(game)
    BY <2>1, <2>2, WolfNextPhase DEF WerewolfInv
  <2>3. ASSUME NEW q \in Werewolf!Places,
               game' = Werewolf!NextPhase(Werewolf!Swapped(Werewolf!Named(game, q), p, q))
        PROVE  WerewolfInv'
    <3>1. PICK h : h = Werewolf!Named(game, q)
      OBVIOUS
    <3>2. /\ WolfCards(h) /\ WolfStray(h) /\ ~h.timer
          /\ h.stray \/ q \in Werewolf!Players
      BY <2>1, <3>1, WolfSomebody DEF WolfOnlyNamed
    <3>3. p \in Werewolf!Records /\ q \in Werewolf!Records
      BY WolfRecords
    <3>4. WolfHolds(Werewolf!NextPhase(Werewolf!Swapped(h, p, q)))
      BY <3>2, <3>3, WolfSwapped
    <3> QED
      BY <2>3, <3>1, <3>4 DEF WerewolfInv
  <2> QED
    BY <1>6, <2>2, <2>3 DEF Werewolf!Rob
<1>7. ASSUME NEW p \in Werewolf!Players, Werewolf!Swap(p)
      PROVE  WerewolfInv'
  <2>1. WolfCards(game) /\ WolfStray(game) /\ ~game.timer
    <3>1. WolfLonely(Werewolf!Troublemaker) /\ Werewolf!Asked(p, Werewolf!Troublemaker)
      BY <1>7 DEF WolfLonely, WolfSingle, Werewolf!Swap
    <3> QED
      BY <3>1, WolfAsked
  <2>2. CASE game' = Werewolf!NextPhase(game)
    BY <2>1, <2>2, WolfNextPhase DEF WerewolfInv
  <2>3. ASSUME NEW q \in Werewolf!Places,
               game' = Werewolf!FirstChoice(Werewolf!Named(game, q), p, q)
        PROVE  WerewolfInv'
    <3>1. PICK h : h = Werewolf!Named(game, q)
      OBVIOUS
    <3>2. WolfOnlyNamed(game, h, q)
      BY <2>1, <3>1, WolfSomebody
    <3>3. /\ WolfCards(h) /\ WolfStray(h) /\ ~h.timer /\ ~h.over /\ ~h.aborted
          /\ h.phase = Werewolf!Troublemaker
          /\ h.stray \/ q \in Werewolf!Players
      BY <1>7, <2>1, <3>2 DEF WolfOnlyNamed, Werewolf!Swap, Werewolf!Asked, Werewolf!Running
    <3>4. WolfNight(h)
      <4>1. Werewolf!Awaited(h) = Werewolf!Awaited(game)
        BY <3>2, WolfAwake DEF WolfOnlyNamed
      <4> QED
        BY <1>1, <3>2, <4>1 DEF WolfHolds, WolfNight, WolfOnlyNamed
    <3>5. q \in Werewolf!Records
      BY WolfRecords
    <3>6. PICK e : e = game'
      OBVIOUS
    <3>7. e = Werewolf!FirstChoice(h, p, q)
      BY <2>3, <3>1, <3>6
    <3>8. WolfHolds(e)
      BY <3>3, <3>4, <3>5, <3>7, WolfFirstChoice
    <3> QED
      BY <3>6, <3>8 DEF WerewolfInv
  <2>4. ASSUME NEW q \in Werewolf!Places, game.first # Werewolf!None,
               game' = Werewolf!NextPhase(
                           Werewolf!Swapped(Werewolf!Named(game, q), game.first, q))
        PROVE  WerewolfInv'
    <3>1. PICK h : h = Werewolf!Named(game, q)
      OBVIOUS
    <3>2. WolfOnlyNamed(game, h, q)
      BY <2>1, <3>1, WolfSomebody
    <3>3. PICK a : a = game.first
      OBVIOUS
    <3>4. a \in Werewolf!Records /\ q \in Werewolf!Records
      BY <1>1, <2>4, <3>3, WolfRecords DEF Werewolf!Table
    <3>5. /\ WolfCards(h) /\ WolfStray(h) /\ ~h.timer
          /\ h.stray \/ (a \in Werewolf!Players /\ q \in Werewolf!Players)
      BY <2>1, <2>4, <3>2, <3>3 DEF WolfOnlyNamed, WolfStray
    <3>6. WolfHolds(Werewolf!NextPhase(Werewolf!Swapped(h, a, q)))
      BY <3>4, <3>5, WolfSwapped
    <3> QED
      BY <2>4, <3>1, <3>3, <3>6 DEF WerewolfInv
  <2> QED
    BY <1>7, <2>2, <2>3, <2>4 DEF Werewolf!Swap
<1>8. ASSUME NEW p \in Werewolf!Players, Werewolf!Take(p)
      PROVE  WerewolfInv'
  <2>1. WolfLonely(Werewolf!Drunk) /\ Werewolf!Asked(p, Werewolf!Drunk)
    BY <1>8 DEF WolfLonely, WolfSingle, Werewolf!Take
  <2>2. WolfCards(game) /\ WolfStray(game) /\ ~game.timer
    BY <2>1, WolfAsked
  <2>3. PICK r \in Werewolf!Has(game.extra) :
          game' = Werewolf!NextPhase([game EXCEPT !.card[p] = r,
                          !.extra = Werewolf!Traded(game.extra, r, game.card[p])])
    BY <1>8 DEF Werewolf!Take
  <2>4. PICK h : h = [game EXCEPT !.card[p] = r,
                          !.extra = Werewolf!Traded(game.extra, r, game.card[p])]
    OBVIOUS
  <2>5. WolfHolds(Werewolf!NextPhase(h))
    BY <2>2, <2>4, WolfTaken
  <2> QED
    BY <2>3, <2>4, <2>5 DEF WerewolfInv
<1>9. ASSUME Werewolf!NextPhaseCb
      PROVE  WerewolfInv'
  <2>1. game.timer /\ game' = Werewolf!NextPhase([game EXCEPT !.timer = FALSE])
    BY <1>9 DEF Werewolf!NextPhaseCb
  <2>2. WolfCards(game)
    BY <1>1, <2>1 DEF WolfHolds
  <2>3. PICK h : h = [game EXCEPT !.timer = FALSE]
    OBVIOUS
  <2>4. /\ h \in Werewolf!Table /\ h.timer = FALSE
        /\ h.deck = game.deck /\ h.extra = game.extra /\ h.card = game.card
        /\ h.wakeup = game.wakeup /\ h.stray = game.stray /\ h.aborted = game.aborted
        /\ h.first = game.first
    BY <1>1, <2>3 DEF Werewolf!Table
  <2>5. WolfCards(h) /\ WolfStray(h)
    BY <1>1, <2>2, <2>4 DEF WolfCards, WolfStray, WolfHolds
  <2>6. WolfHolds(Werewolf!NextPhase(h))
    BY <2>4, <2>5, WolfNextPhase
  <2> QED
    BY <2>1, <2>3, <2>6 DEF WerewolfInv
<1>10. ASSUME NEW p \in Werewolf!Players, NEW choice \in Werewolf!Players,
              Werewolf!Vote(p, choice)
       PROVE  WerewolfInv'
  <2>1. PICK e : e = game'
    OBVIOUS
  <2>2. game.phase = Werewolf!Discussion
    BY <1>10 DEF Werewolf!Vote
  <2>3. /\ e \in Werewolf!Table /\ e.phase = game.phase /\ e.timer = game.timer
        /\ e.deck = game.deck /\ e.extra = game.extra /\ e.card = game.card
        /\ e.wakeup = game.wakeup /\ e.over = game.over
        /\ e.stray = game.stray /\ e.aborted = game.aborted /\ e.first = game.first
    <3>1. [game.votes EXCEPT ![p] = choice] \in [Werewolf!Players -> Werewolf!Players]
      BY <1>1 DEF Werewolf!Table
    <3>2. game.voted \cup {p} \in SUBSET Werewolf!Players
      BY <1>1 DEF Werewolf!Table
    <3>3. PICK b \in BOOLEAN : b = (game.ending \/ (p \notin game.voted
                                             /\ game.voted \cup {p} = Werewolf!Players))
      BY <1>1 DEF Werewolf!Table
    <3>4. e = [game EXCEPT !.votes = [game.votes EXCEPT ![p] = choice],
                           !.voted = game.voted \cup {p}, !.ending = b]
      BY <1>10, <2>1, <3>3 DEF Werewolf!Vote
    <3> QED
      BY <1>1, <3>1, <3>2, <3>3, <3>4 DEF Werewolf!Table
  <2>4. e.phase \notin Werewolf!Nightly \cup {Werewolf!Waiting, Werewolf!PickMode}
    BY <2>2, <2>3 DEF Werewolf!Nightly, Werewolf!Wolf, Werewolf!Minion, Werewolf!Mason,
       Werewolf!Seer, Werewolf!Robber, Werewolf!Troublemaker, Werewolf!Drunk,
       Werewolf!Insomniac, Werewolf!PickMode, Werewolf!Discussion, Werewolf!Waiting
  <2>5. WolfCards(e) /\ WolfStray(e)
    BY <1>1, <2>3, <2>4 DEF WolfHolds, WolfCards, WolfStray
  <2> QED
    BY <2>1, <2>3, <2>4, <2>5 DEF WerewolfInv, WolfHolds, WolfNight
<1>11. ASSUME Werewolf!GameOver
       PROVE  WerewolfInv'
  <2>1. PICK e : e = game'
    OBVIOUS
  <2>2. /\ e \in Werewolf!Table /\ e.phase = game.phase /\ e.timer = FALSE
        /\ e.deck = game.deck /\ e.extra = game.extra /\ e.card = game.card
        /\ e.wakeup = game.wakeup /\ e.over = TRUE
        /\ e.stray = game.stray /\ e.aborted = game.aborted /\ e.first = game.first
    BY <1>1, <1>11, <2>1 DEF Werewolf!GameOver, Werewolf!Table
  <2>3. /\ e.phase # Werewolf!PickMode => WolfCards(e)
        /\ WolfStray(e)
    BY <1>1, <2>2 DEF WolfHolds, WolfCards, WolfStray
  <2> QED
    BY <1>1, <2>1, <2>2, <2>3 DEF WerewolfInv, WolfHolds, WolfNight
<1> QED
  BY <1>2, <1>3, <1>4, <1>5, <1>6, <1>7, <1>8, <1>9, <1>10, <1>11
     DEF Werewolf!Next, Werewolf!Timers, Werewolf!Press

(* What the invariant says of the properties of the game.                    *)
LEMMA WerewolfMeans ==
    ASSUME WerewolfInv
    PROVE  Werewolf!TypeOK /\ Werewolf!CardsConserved /\ Werewolf!NightGoesOn
<1>1. Werewolf!TypeOK
  BY DEF WerewolfInv, WolfHolds, Werewolf!TypeOK
<1>2. Werewolf!CardsConserved
  <2>1. \A r : /\ Werewolf!Cardinality(Werewolf!Holders(r, Werewolf!Records))
                     = WolfAll(game.card, r)
              /\ Werewolf!Cardinality(Werewolf!Holders(r, Werewolf!Players))
                     = WolfHave(game.card, r)
    BY WolfRoles DEF WolfAll, WolfHave, Fibre, Werewolf!Holders
  <2> QED
    BY <2>1 DEF WerewolfInv, WolfHolds, WolfCards, Werewolf!CardsConserved
<1>3. Werewolf!NightGoesOn
  BY WolfRoles DEF WerewolfInv, WolfHolds, WolfNight, WolfStray, Werewolf!NightGoesOn,
     Werewolf!Running
<1> QED
  BY <1>1, <1>2, <1>3

--------------------------------------------------------------------------
(* Werewolf: the vote *)

(* Everybody votes once: unless everybody has one vote, who has most of them *)
(* has more than one.                                                        *)
LEMMA WolfTopVotes ==
    ASSUME NEW votes \in [Werewolf!Players -> Werewolf!Players]
    PROVE  /\ Werewolf!Top(votes) = Werewolf!Players =>
                \A p \in Werewolf!Players : Werewolf!Votes(votes, p) = 1
           /\ Werewolf!Top(votes) # Werewolf!Players =>
                \A p \in Werewolf!Top(votes) : Werewolf!Votes(votes, p) > 1
<1> DEFINE P == Werewolf!Players
           N == WerewolfRules.NPlayers
<1>1. PICK f : f = [p \in P |-> Werewolf!Votes(votes, p)]
  OBVIOUS
<1>2. \A p \in P : f[p] = Cardinality(Fibre(votes, P, p)) /\ f[p] \in Nat
  <2>1. \A p \in P : f[p] = Cardinality(Fibre(votes, P, p))
    BY <1>1, WolfRoles DEF Werewolf!Votes, Fibre
  <2> QED
    BY <2>1, WolfPlayers, FibreFinite
<1>3. /\ IsFiniteSet(P) /\ Cardinality(P) = N /\ N \in Nat /\ N >= 3
      /\ \A p \in P : votes[p] \in P
  BY WolfNumbers, WolfPlayers
<1>4. Werewolf!Top(votes) = {p \in P : \A q \in P : f[q] <= f[p]}
  BY <1>1 DEF Werewolf!Top
<1>5. \A p \in P : Werewolf!Votes(votes, p) = f[p]
  BY <1>1
<1> HIDE DEF P, N
<1>6. Sum(f, P) = N
  <2>1. Sum(f, P) = Cardinality(P)
    BY <1>2, <1>3, SumOfFibres
  <2> QED
    BY <1>3, <2>1
<1>7. ASSUME \A p, q \in P : f[q] <= f[p], NEW p \in P
      PROVE  f[p] = 1
  <2>1. \A q \in P : f[q] = f[p]
    BY <1>2, <1>7
  <2>2. f[p] \in Int
    BY <1>2
  <2>3. Sum(f, P) = f[p] * Cardinality(P)
    <3>1. PICK c \in Int : c = f[p]
      BY <2>2
    <3>2. \A q \in P : f[q] = c
      BY <2>1, <3>1
    <3>3. Sum(f, P) = c * Cardinality(P)
      BY <1>3, <3>2, SumConstant
    <3> QED
      BY <3>1, <3>3
  <2>4. f[p] * N = N
    BY <1>3, <1>6, <2>3
  <2>5. f[p] = 0 \/ f[p] = 1 \/ f[p] >= 2
    BY <1>2
  <2>6. CASE f[p] = 0
    BY <1>3, <2>4, <2>6
  <2>7. CASE f[p] >= 2
    <3>1. \A a, b \in Nat : a >= 2 /\ b >= 3 => a * b >= 2 * b
      OBVIOUS
    <3>2. f[p] * N >= 2 * N
      BY <1>2, <1>3, <2>7, <3>1
    <3> QED
      BY <1>3, <2>4, <3>2
  <2> QED
    BY <2>5, <2>6, <2>7
<1>8. ASSUME NEW p \in P, \A q \in P : f[q] <= f[p], f[p] <= 1, NEW q \in P
      PROVE  f[q] = 1
  <2>1. SUFFICES ASSUME f[q] = 0
                 PROVE  FALSE
    BY <1>2, <1>8
  <2>2. PICK g : g = [f EXCEPT ![q] = 1]
    OBVIOUS
  <2>3. PICK ones : ones = [i \in P |-> 1]
    OBVIOUS
  <2>4. /\ \A i \in P : f[i] \in Int /\ g[i] \in Int
        /\ \A i \in P : i # q => f[i] = g[i]
        /\ g[q] = 1
    BY <1>1, <1>2, <2>2
  <2>5. Sum(g, P) = Sum(f, P) + g[q] - f[q]
    <3>1. IsFiniteSet(P) /\ q \in P
      BY <1>3
    <3>2. \A i \in P : f[i] \in Int /\ g[i] \in Int
      BY <2>4
    <3>3. \A i \in P : i # q => f[i] = g[i]
      BY <2>4
    <3> QED
      BY <3>1, <3>2, <3>3, SumChange
  <2>6. /\ \A i \in P : g[i] \in Int /\ ones[i] \in Int
        /\ \A i \in P : g[i] <= ones[i]
    BY <1>2, <1>8, <2>3, <2>4
  <2>7. Sum(g, P) <= Sum(ones, P)
    BY <1>3, <2>6, SumMonotonic
  <2>8. Sum(ones, P) = 1 * Cardinality(P)
    BY <1>3, <2>3, SumConstant
  <2> QED
    BY <1>3, <1>6, <2>1, <2>4, <2>5, <2>7, <2>8
<1>9. Werewolf!Top(votes) = P => \A p \in P : f[p] = 1
  BY <1>4, <1>7
<1>10. Werewolf!Top(votes) # P => \A p \in Werewolf!Top(votes) : f[p] > 1
  <2>1. SUFFICES ASSUME NEW p \in Werewolf!Top(votes), f[p] <= 1
                 PROVE  Werewolf!Top(votes) = P
    BY <1>2, <1>4
  <2>2. p \in P /\ \A q \in P : f[q] <= f[p]
    BY <1>4
  <2>3. \A q \in P : f[q] = 1
    BY <1>8, <2>1, <2>2
  <2> QED
    BY <1>4, <2>3
<1>11. Werewolf!Top(votes) \subseteq P
  BY <1>4
<1> QED
  BY <1>5, <1>9, <1>10, <1>11 DEF P

(* show_vote_results: whatever the cards and the votes.                      *)
LEMMA WolfVerdict == Werewolf!VerdictIsRight
<1> DEFINE dead(card, votes) ==
               LET killed == {p \in Werewolf!Top(votes) : Werewolf!Votes(votes, p) > 1}
                   shot == {votes[p] : p \in {q \in killed : card[q] = Werewolf!Hunter}}
               IN {card[p] : p \in killed \cup shot}
<1>1. SUFFICES
        ASSUME NEW card \in [Werewolf!Players -> {Werewolf!Villager, Werewolf!Wolf, Werewolf!Minion,
                                                  Werewolf!Tanner, Werewolf!Hunter}],
               NEW votes \in [Werewolf!Players -> Werewolf!Players]
        PROVE  LET winners == Werewolf!Winners(card, votes)
               IN /\ Werewolf!Wolf \in dead(card, votes) =>
                         "villagers" \in winners /\ "werewolves" \notin winners
                  /\ "tanner" \in winners <=> Werewolf!Tanner \in dead(card, votes)
                  /\ Werewolf!Tanner \in dead(card, votes) =>
                         winners \subseteq {"tanner", "villagers"}
                  /\ Werewolf!Tanner \in dead(card, votes)
                       /\ Werewolf!Wolf \notin dead(card, votes) => winners = {"tanner"}
                  /\ Werewolf!Wolf \notin dead(card, votes)
                       /\ Werewolf!Tanner \notin dead(card, votes) =>
                       ("werewolves" \in winners <=>
                          \E p \in Werewolf!Players : card[p] = Werewolf!Wolf)
  BY DEF Werewolf!VerdictIsRight
<1>2. PICK top : top = Werewolf!Top(votes)
  OBVIOUS
<1>3. PICK d : d = dead(card, votes)
  OBVIOUS
<1>4. PICK winners : winners = Werewolf!Winners(card, votes)
  OBVIOUS
<1>5. CASE top = Werewolf!Players
  <2>1. {p \in top : Werewolf!Votes(votes, p) > 1} = {}
    <3>1. \A p \in Werewolf!Players : Werewolf!Votes(votes, p) = 1
      BY <1>2, <1>5, WolfTopVotes
    <3> QED
      BY <1>5, <3>1
  <2>2. d = {}
    BY <1>2, <1>3, <2>1
  <2>3. winners = IF \E p \in Werewolf!Players : card[p] = Werewolf!Wolf
                  THEN {"werewolves"} ELSE {"villagers"}
    BY <1>2, <1>4, <1>5 DEF Werewolf!Winners
  <2> HIDE DEF dead
  <2> QED
    BY <1>3, <1>4, <2>2, <2>3
<1>6. CASE top # Werewolf!Players
  <2>1. {p \in top : Werewolf!Votes(votes, p) > 1} = top
    BY <1>2, <1>6, WolfTopVotes
  <2>2. PICK body : body = Werewolf!WithHunter(card, votes, top)
    OBVIOUS
  <2>3. d = {card[p] : p \in body}
    BY <1>2, <1>3, <2>1, <2>2 DEF Werewolf!WithHunter
  <2> HIDE DEF dead
  <2>4. winners =
          IF Werewolf!Tanner \in d
          THEN {"tanner"} \cup (IF Werewolf!Wolf \in d THEN {"villagers"} ELSE {})
          ELSE IF Werewolf!Wolf \in d THEN {"villagers"}
          ELSE IF \E p \in Werewolf!Players : card[p] = Werewolf!Wolf THEN {"werewolves"}
          ELSE IF Werewolf!Minion \in d THEN {"villagers"}
          ELSE IF \E p \in Werewolf!Players : card[p] = Werewolf!Minion THEN {"minion"} ELSE {}
    <3>1. \A r : (\E p \in body : card[p] = r) <=> r \in d
      BY <2>3
    <3> QED
      BY <1>2, <1>4, <1>6, <2>2, <3>1 DEF Werewolf!Winners
  <2> QED
    BY <1>3, <1>4, <2>4
<1> QED
  BY <1>5, <1>6

--------------------------------------------------------------------------
(* Superfight *)

SuperfightInv ==
    /\ Superfight!TypeOK
    /\ Superfight!VotesAreOfThisFight
    /\ Superfight!FightIsFair

LEMMA SuperfightInitially == Superfight!Init => SuperfightInv
<1> DEFINE n == SuperfightRules.NPlayers
<1> USE DEF Superfight!Players, Superfight!Corners, Superfight!None
<1>0. /\ n \in Nat /\ n >= 3
      /\ SuperfightRules.PointsToWin \in Nat /\ SuperfightRules.PointsToWin > 0
      /\ SuperfightRules.MessageMax \in Nat
      /\ SuperfightRules.LateMax \in Nat
  BY Setups DEF Setups, Superfight!Setup
<1>1. SUFFICES ASSUME NEW p \in 0 .. n - 1,
        game = [fighters |-> [i \in {0, 1} |-> Superfight!Fighter((p + i) % n)],
                current |-> p, votes |-> [q \in 0 .. n - 1 |-> 0],
                scores |-> [q \in 0 .. n - 1 |-> 0], timer |-> FALSE, messages |-> 0,
                ending |-> FALSE, over |-> FALSE, late |-> 0]
               PROVE  SuperfightInv
  BY DEF Superfight!Init
<1>2. /\ (p + 0) % n \in 0 .. n - 1 /\ (p + 1) % n \in 0 .. n - 1
      /\ (p + 1) % n # (p + 0) % n
  BY <1>0
<1>3. Superfight!TypeOK
  BY <1>0, <1>1, <1>2 DEF Superfight!TypeOK, Superfight!Table, Superfight!Fighters,
     Superfight!Fighter
<1>4. /\ ~Superfight!AllRolesChosen(game)
      /\ game.timer = FALSE
  BY <1>1 DEF Superfight!AllRolesChosen, Superfight!Fighter
<1>5. Superfight!FightIsFair
  BY <1>0, <1>1, <1>2 DEF Superfight!FightIsFair, Superfight!Fighter
<1> QED
  BY <1>3, <1>4, <1>5 DEF SuperfightInv, Superfight!VotesAreOfThisFight

LEMMA SuperfightNumbers ==
    /\ SuperfightRules.NPlayers \in Nat /\ SuperfightRules.NPlayers >= 3
    /\ SuperfightRules.PointsToWin \in Nat /\ SuperfightRules.PointsToWin > 0
    /\ SuperfightRules.MessageMax \in Nat
    /\ SuperfightRules.LateMax \in Nat
  BY Setups DEF Setups, Superfight!Setup

(* Somebody watches every fight.                                            *)
LEMMA SuperfightWatched ==
    ASSUME NEW g \in Superfight!Table
    PROVE  \E p \in Superfight!Players : ~Superfight!IsFighter(g, p)
<1> DEFINE a == g.fighters[0].player
           b == g.fighters[1].player
<1>1. a \in 0 .. SuperfightRules.NPlayers - 1 /\ b \in 0 .. SuperfightRules.NPlayers - 1
  BY DEF Superfight!Table, Superfight!Fighters, Superfight!Players, Superfight!Corners
<1>2. \E p \in {0, 1, 2} : p # a /\ p # b
  BY <1>1, SuperfightNumbers
<1>3. \A p \in {0, 1, 2} : p \in Superfight!Players
  BY SuperfightNumbers DEF Superfight!Players
<1> QED
  BY <1>2, <1>3 DEF Superfight!IsFighter, Superfight!Corners

LEMMA SuperfightChallenger ==
    ASSUME NEW g \in Superfight!Table
    PROVE  /\ Superfight!Challenger(g) \in Superfight!Players
           /\ ~Superfight!IsFighter(g, Superfight!Challenger(g))
<1> DEFINE n == SuperfightRules.NPlayers
           S == {p \in Superfight!Players : ~Superfight!IsFighter(g, p)}
<1>0. n \in Nat \ {0} /\ g.current \in 0 .. n - 1
  BY SuperfightNumbers DEF Superfight!Table, Superfight!Players
<1>1. n \in Nat \ {0} /\ g.current \in 0 .. n - 1
      /\ S \in SUBSET (0 .. n - 1) /\ S # {}
  <2>1. S # {}
    BY SuperfightWatched
  <2>2. S \in SUBSET (0 .. n - 1)
    BY DEF Superfight!Players
  <2> QED
    BY <1>0, <2>1, <2>2
<1>2. \E p \in S : \E k \in 1 .. n :
          /\ p = (g.current + k) % n
          /\ \A j \in 1 .. k - 1 : (g.current + j) % n \notin S
  <2> HIDE DEF S
  <2> DEFINE a == g.current
  <2>1. a \in 0 .. n - 1
    BY <1>1
  <2> HIDE DEF a
  <2>2. \E p \in S : \E k \in 1 .. n :
          /\ p = (a + k) % n
          /\ \A j \in 1 .. k - 1 : (a + j) % n \notin S
    BY <1>1, <2>1, FirstAhead
  <2> QED
    BY <2>2 DEF a
<1>3. \A j \in Int : (g.current + j) % n \in Superfight!Players
  BY <1>1 DEF Superfight!Players
<1>4. \E p \in Superfight!Players : \E k \in 1 .. n :
          /\ p = (g.current + k) % n
          /\ ~Superfight!IsFighter(g, p)
          /\ \A j \in 1 .. k - 1 : Superfight!IsFighter(g, (g.current + j) % n)
  BY <1>2, <1>3
<1> QED
  BY <1>4 DEF Superfight!Challenger

LEMMA SuperfightStartArgument ==
    ASSUME NEW g \in Superfight!Table
    PROVE  /\ Superfight!StartArgument(g) \in Superfight!Table
           /\ Superfight!StartArgument(g).fighters = g.fighters
           /\ Superfight!StartArgument(g).scores = g.scores
           /\ Superfight!StartArgument(g).timer = TRUE
           /\ Superfight!StartArgument(g).ending = g.ending
           /\ Superfight!StartArgument(g).over = g.over
           /\ Superfight!StartArgument(g).votes
                 = [q \in Superfight!Players |-> Superfight!None]
<1> DEFINE h == [g EXCEPT !.votes = [q \in Superfight!Players |-> Superfight!None],
                         !.messages = 0, !.timer = TRUE]
<1>1. 0 \in 0 .. SuperfightRules.MessageMax
  BY SuperfightNumbers
<1>2. h \in Superfight!Table
  BY <1>1 DEF Superfight!Table
<1> QED
  BY <1>2 DEF Superfight!StartArgument, Superfight!Table

LEMMA SuperfightChooseRole ==
    ASSUME SuperfightInv, NEW p \in Superfight!Players, Superfight!ChooseRole(p)
    PROVE  SuperfightInv'
<1>1. PICK i \in Superfight!Corners :
        /\ ~game.over /\ game.fighters[i] = Superfight!Fighter(p)
        /\ game' = [game EXCEPT !.fighters[i].chosen = "role"]
  BY DEF Superfight!ChooseRole
<1>2. Superfight!TypeOK'
  <2>1. /\ game \in Superfight!Table /\ i \in Superfight!Corners
        /\ game.fighters \in [Superfight!Corners -> Superfight!Fighters]
    BY <1>1 DEF SuperfightInv, Superfight!TypeOK, Superfight!Table
  <2>2. PICK f : f = [game.fighters EXCEPT ![i].chosen = "role"]
    OBVIOUS
  <2>3. f \in [Superfight!Corners -> Superfight!Fighters]
    BY <2>1, <2>2 DEF Superfight!Fighters
  <2>4. game' = [game EXCEPT !.fighters = f]
    BY <1>1, <2>2
  <2>5. game' \in Superfight!Table
    BY <2>1, <2>3, <2>4 DEF Superfight!Table
  <2> QED
    BY <2>5 DEF Superfight!TypeOK
<1>3. /\ ~Superfight!AllRolesChosen(game)
      /\ ~Superfight!AllRolesChosen(game')
  BY <1>1 DEF Superfight!AllRolesChosen, Superfight!Fighter, SuperfightInv,
     Superfight!TypeOK, Superfight!Table, Superfight!Fighters
<1>4. /\ \A q : game'.fighters[q].player = game.fighters[q].player \/ q \notin Superfight!Corners
      /\ game'.votes = game.votes /\ game'.scores = game.scores
      /\ game'.timer = game.timer
      /\ game'.ending = game.ending /\ game'.over = game.over
  BY <1>1 DEF SuperfightInv, Superfight!TypeOK, Superfight!Table, Superfight!Fighters
<1>5. Superfight!VotesAreOfThisFight'
  BY <1>3, <1>4 DEF SuperfightInv, Superfight!VotesAreOfThisFight, Superfight!Going,
     Superfight!IsFighter
<1>6. Superfight!FightIsFair'
  BY <1>4 DEF SuperfightInv, Superfight!FightIsFair, Superfight!Going, Superfight!Corners
<1> QED
  BY <1>2, <1>5, <1>6 DEF SuperfightInv

LEMMA SuperfightChooseAttribute ==
    ASSUME SuperfightInv, NEW p \in Superfight!Players, Superfight!ChooseAttribute(p)
    PROVE  SuperfightInv'
<1>1. PICK i \in Superfight!Corners :
        /\ ~game.over /\ game.fighters[i] = [player |-> p, chosen |-> "role"]
        /\ \E g \in {[game EXCEPT !.fighters[i].chosen = "complete"]} :
              game' = IF Superfight!AllRolesChosen(g) THEN Superfight!StartArgument(g) ELSE g
  BY DEF Superfight!ChooseAttribute
<1> DEFINE g == [game EXCEPT !.fighters[i].chosen = "complete"]
<1>2. game' = IF Superfight!AllRolesChosen(g) THEN Superfight!StartArgument(g) ELSE g
  BY <1>1
<1>3. /\ g \in Superfight!Table
      /\ g.fighters \in [Superfight!Corners -> Superfight!Fighters]
      /\ g.votes = game.votes /\ g.scores = game.scores
      /\ g.ending = game.ending /\ g.over = game.over /\ g.timer = game.timer
      /\ \A q \in Superfight!Corners : g.fighters[q].player = game.fighters[q].player
  BY <1>1 DEF SuperfightInv, Superfight!TypeOK, Superfight!Table, Superfight!Fighters
<1>4. ~Superfight!AllRolesChosen(game)
  BY <1>1 DEF Superfight!AllRolesChosen
<1> HIDE DEF g
<1>5. CASE Superfight!AllRolesChosen(g)
  <2>1. game' = Superfight!StartArgument(g)
    BY <1>2, <1>5
  <2>2. /\ game' \in Superfight!Table
        /\ game'.fighters = g.fighters
        /\ game'.scores = g.scores /\ game'.timer = TRUE
        /\ game'.ending = g.ending /\ game'.over = g.over
        /\ game'.votes = [q \in Superfight!Players |-> Superfight!None]
    BY <2>1, <1>3, SuperfightStartArgument
  <2>3. Superfight!AllRolesChosen(game')
    BY <1>5, <2>2 DEF Superfight!AllRolesChosen
  <2>4. Superfight!VotesAreOfThisFight'
    BY <2>2, <2>3, SuperfightWatched DEF Superfight!VotesAreOfThisFight
  <2>5. Superfight!FightIsFair'
    BY <2>2, <1>3 DEF SuperfightInv, Superfight!FightIsFair, Superfight!Going,
       Superfight!Corners
  <2> QED
    BY <2>2, <2>4, <2>5 DEF SuperfightInv, Superfight!TypeOK
<1>6. CASE ~Superfight!AllRolesChosen(g)
  <2>1. game' = g
    BY <1>2, <1>6
  <2>2. Superfight!VotesAreOfThisFight'
    BY <2>1, <1>6, <1>3, <1>4 DEF SuperfightInv, Superfight!VotesAreOfThisFight,
       Superfight!Going
  <2>3. Superfight!FightIsFair'
    BY <2>1, <1>3 DEF SuperfightInv, Superfight!FightIsFair, Superfight!Going,
       Superfight!Corners
  <2> QED
    BY <2>1, <2>2, <2>3, <1>3 DEF SuperfightInv, Superfight!TypeOK
<1> QED
  BY <1>5, <1>6

LEMMA SuperfightSendVote ==
    ASSUME SuperfightInv, NEW p \in Superfight!Players, NEW i \in Superfight!Corners,
           Superfight!SendVote(p, i)
    PROVE  SuperfightInv'
<1> DEFINE g == [game EXCEPT !.votes[p] = i,
                             !.late = IF game.ending THEN game.late + 1 ELSE 0]
<1>1. /\ ~game.over /\ (game.ending => game.late < SuperfightRules.LateMax)
      /\ Superfight!AllRolesChosen(game) /\ ~Superfight!IsFighter(game, p)
      /\ game' = IF Superfight!VotingIsFinished(g) THEN Superfight!EndArgument(g) ELSE g
  BY DEF Superfight!SendVote
<1>2. /\ g \in Superfight!Table
      /\ g.fighters = game.fighters
      /\ g.votes = [game.votes EXCEPT ![p] = i] /\ g.scores = game.scores
      /\ g.ending = game.ending /\ g.over = game.over /\ g.timer = game.timer
  <2>1. (IF game.ending THEN game.late + 1 ELSE 0) \in 0 .. SuperfightRules.LateMax
    BY <1>1, SuperfightNumbers DEF SuperfightInv, Superfight!TypeOK, Superfight!Table
  <2> QED
    BY <2>1 DEF SuperfightInv, Superfight!TypeOK, Superfight!Table
<1>3. /\ Superfight!AllRolesChosen(g)
      /\ \A q : Superfight!IsFighter(g, q) <=> Superfight!IsFighter(game, q)
  BY <1>1, <1>2 DEF Superfight!AllRolesChosen, Superfight!IsFighter
<1>4. CASE ~Superfight!VotingIsFinished(g)
  <2>1. game' = g
    BY <1>1, <1>4
  <2>2. \E q \in Superfight!Players :
           ~Superfight!IsFighter(g, q) /\ g.votes[q] = Superfight!None
    BY <1>4 DEF Superfight!VotingIsFinished
  <2>3. Superfight!VotesAreOfThisFight'
    <3>1. SUFFICES ASSUME Superfight!Going
                   PROVE  /\ g.timer <=> Superfight!AllRolesChosen(g)
                          /\ \A q \in Superfight!Players :
                                Superfight!IsFighter(g, q) => g.votes[q] = Superfight!None
      BY <2>1, <2>2, <1>2 DEF Superfight!VotesAreOfThisFight, Superfight!Going
    <3>2. game.timer
      BY <3>1, <1>1 DEF SuperfightInv, Superfight!VotesAreOfThisFight
    <3>3. \A q \in Superfight!Players :
             Superfight!IsFighter(game, q) => game.votes[q] = Superfight!None
      BY <3>1, <3>2 DEF SuperfightInv, Superfight!VotesAreOfThisFight
    <3> QED
      BY <3>2, <3>3, <1>1, <1>2, <1>3 DEF SuperfightInv, Superfight!TypeOK, Superfight!Table
  <2>4. Superfight!FightIsFair'
    BY <2>1, <1>2 DEF SuperfightInv, Superfight!FightIsFair, Superfight!Going
  <2> QED
    BY <2>1, <2>3, <2>4, <1>2 DEF SuperfightInv, Superfight!TypeOK
<1>5. CASE Superfight!VotingIsFinished(g)
  <2> DEFINE h == [g EXCEPT !.timer = FALSE]
  <2>1. /\ h \in Superfight!Table
        /\ h.fighters = game.fighters /\ h.scores = game.scores
        /\ h.ending = game.ending /\ h.over = game.over /\ h.timer = FALSE
    BY <1>2 DEF Superfight!Table
  <2>2. Superfight!AllRolesChosen(h)
    BY <1>1, <2>1 DEF Superfight!AllRolesChosen
  <2>3. \/ game' = Superfight!StartArgument(h)
        \/ \E w \in Superfight!Corners : game' = Superfight!SetFightWinner(h, w)
    BY <1>1, <1>5 DEF Superfight!EndArgument, Superfight!Corners
  <2> HIDE DEF h
  <2>4. CASE game' = Superfight!StartArgument(h)
    <3>1. /\ game' \in Superfight!Table
          /\ game'.fighters = h.fighters
          /\ game'.scores = h.scores /\ game'.timer = TRUE
          /\ game'.ending = h.ending /\ game'.over = h.over
          /\ game'.votes = [q \in Superfight!Players |-> Superfight!None]
      BY <2>1, <2>4, SuperfightStartArgument
    <3>2. Superfight!AllRolesChosen(game')
      BY <2>2, <3>1 DEF Superfight!AllRolesChosen
    <3>3. Superfight!VotesAreOfThisFight'
      BY <3>1, <3>2, SuperfightWatched DEF Superfight!VotesAreOfThisFight
    <3>4. Superfight!FightIsFair'
      BY <2>1, <3>1 DEF SuperfightInv, Superfight!FightIsFair, Superfight!Going,
         Superfight!Corners
    <3> QED
      BY <3>1, <3>3, <3>4 DEF SuperfightInv, Superfight!TypeOK
  <2>5. ASSUME NEW w \in Superfight!Corners, game' = Superfight!SetFightWinner(h, w)
        PROVE  SuperfightInv'
    <3> DEFINE q == h.fighters[w].player
               k == [h EXCEPT !.scores[q] = @ + 1]
    <3>1. /\ q \in Superfight!Players
          /\ k \in Superfight!Table
          /\ k.fighters = h.fighters /\ k.timer = FALSE
          /\ k.scores = [h.scores EXCEPT ![q] = @ + 1]
          /\ k.ending = h.ending /\ k.over = h.over
      BY <2>1 DEF Superfight!Table, Superfight!Fighters
    <3>2. game' = IF k.scores[q] >= SuperfightRules.PointsToWin
                  THEN [k EXCEPT !.ending = TRUE] ELSE Superfight!StartNextFight(k, w)
      BY <2>5 DEF Superfight!SetFightWinner
    <3> HIDE DEF k
    <3>3. CASE k.scores[q] >= SuperfightRules.PointsToWin
      <4>1. game' \in Superfight!Table /\ game'.ending
        BY <3>1, <3>2, <3>3 DEF Superfight!Table
      <4> QED
        BY <4>1 DEF SuperfightInv, Superfight!TypeOK, Superfight!VotesAreOfThisFight,
           Superfight!FightIsFair, Superfight!Going
    <3>4. CASE ~(k.scores[q] >= SuperfightRules.PointsToWin)
      <4> DEFINE c == Superfight!Challenger(k)
      <4>1. game' = [k EXCEPT !.current = c, !.fighters[1 - w] = Superfight!Fighter(c)]
        BY <3>2, <3>4 DEF Superfight!StartNextFight
      <4>2. c \in Superfight!Players /\ ~Superfight!IsFighter(k, c)
        BY <3>1, SuperfightChallenger
      <4> HIDE DEF c
      <4>3. 1 - w \in Superfight!Corners /\ 1 - w # w /\ w \in Superfight!Corners
            /\ \A j \in Superfight!Corners : j = w \/ j = 1 - w
        BY DEF Superfight!Corners
      <4>4. /\ game' \in Superfight!Table
            /\ game'.fighters = [k.fighters EXCEPT ![1 - w] = Superfight!Fighter(c)]
            /\ game'.scores = k.scores /\ game'.timer = k.timer
            /\ game'.ending = k.ending /\ game'.over = k.over
        BY <3>1, <4>1, <4>2, <4>3 DEF Superfight!Table, Superfight!Fighters,
           Superfight!Fighter
      <4>5. /\ game'.fighters[w] = k.fighters[w]
            /\ game'.fighters[1 - w] = Superfight!Fighter(c)
        BY <3>1, <4>3, <4>4 DEF Superfight!Table
      <4>6. ~Superfight!AllRolesChosen(game')
        BY <4>3, <4>5 DEF Superfight!AllRolesChosen, Superfight!Fighter
      <4>7. Superfight!VotesAreOfThisFight'
        BY <3>1, <4>4, <4>6 DEF Superfight!VotesAreOfThisFight
      <4>8. Superfight!FightIsFair'
        <5>1. SUFFICES ASSUME Superfight!Going'
                       PROVE  Superfight!FightIsFair'
          BY DEF Superfight!FightIsFair
        <5>2. Superfight!Going
          BY <5>1, <2>1, <3>1, <4>4 DEF Superfight!Going
        <5>3. game'.fighters[0].player # game'.fighters[1].player
          BY <4>2, <4>3, <4>5 DEF Superfight!IsFighter, Superfight!Fighter,
             Superfight!Corners
        <5>4. game'.scores[q] > 0 /\ game'.fighters[w].player = q
          BY <2>1, <3>1, <4>4, <4>5 DEF Superfight!Table
        <5>5. ASSUME NEW r \in Superfight!Players
              PROVE  game'.scores[r] < SuperfightRules.PointsToWin
          <6>1. game.scores[r] < SuperfightRules.PointsToWin
            BY <5>2 DEF SuperfightInv, Superfight!FightIsFair
          <6>2. CASE r = q
            BY <6>2, <3>4, <3>1, <4>4, SuperfightNumbers DEF Superfight!Table
          <6>3. CASE r # q
            BY <6>1, <6>3, <2>1, <3>1, <4>4 DEF Superfight!Table
          <6> QED
            BY <6>2, <6>3
        <5> QED
          BY <5>3, <5>4, <5>5 DEF Superfight!FightIsFair
      <4> QED
        BY <4>4, <4>7, <4>8 DEF SuperfightInv, Superfight!TypeOK
    <3> QED
      BY <3>3, <3>4
  <2> QED
    BY <2>3, <2>4, <2>5
<1> QED
  BY <1>4, <1>5

LEMMA SuperfightStep == SuperfightInv /\ [Superfight!Next]_game => SuperfightInv'
<1> SUFFICES ASSUME SuperfightInv, [Superfight!Next]_game
             PROVE  SuperfightInv'
  OBVIOUS
<1>1. CASE Superfight!VoteTimeout
  <2>1. game' \in Superfight!Table
    BY <1>1, SuperfightNumbers DEF Superfight!VoteTimeout, SuperfightInv,
       Superfight!TypeOK, Superfight!Table
  <2>2. /\ game'.fighters = game.fighters /\ game'.votes = game.votes
        /\ game'.scores = game.scores /\ game'.timer = game.timer
        /\ game'.ending = game.ending /\ game'.over = game.over
    BY <1>1 DEF Superfight!VoteTimeout, SuperfightInv, Superfight!TypeOK, Superfight!Table
  <2> QED
    BY <2>1, <2>2 DEF SuperfightInv, Superfight!TypeOK, Superfight!VotesAreOfThisFight,
       Superfight!FightIsFair, Superfight!Going, Superfight!AllRolesChosen,
       Superfight!IsFighter
<1>2. CASE Superfight!GameOver
  <2>1. game' \in Superfight!Table /\ game'.over
    BY <1>2 DEF Superfight!GameOver, SuperfightInv, Superfight!TypeOK, Superfight!Table
  <2> QED
    BY <2>1 DEF SuperfightInv, Superfight!TypeOK, Superfight!VotesAreOfThisFight,
       Superfight!FightIsFair, Superfight!Going
<1>3. CASE UNCHANGED game
  BY <1>3 DEF SuperfightInv, Superfight!TypeOK, Superfight!VotesAreOfThisFight,
     Superfight!FightIsFair, Superfight!Going, Superfight!AllRolesChosen,
     Superfight!IsFighter
<1>4. ASSUME NEW p \in Superfight!Players, Superfight!Press(p)
      PROVE  SuperfightInv'
  BY <1>4, SuperfightChooseRole, SuperfightChooseAttribute, SuperfightSendVote
     DEF Superfight!Press
<1> QED
  BY <1>1, <1>2, <1>3, <1>4 DEF Superfight!Next, Superfight!Timers

--------------------------------------------------------------------------
(* Wordparty *)

WordpartyFull(g) == \A p \in Wordparty!Players :
    /\ g.lives[p] = WordpartyRules.MaxLives <=> g.letters[p] = Wordparty!AllBits
    /\ g.letters[p] # Wordparty!Letters

WordpartyHolds(g) ==
    /\ g \in Wordparty!Table
    /\ g.timer => g.current \in Wordparty!Alive(g)
    /\ ~g.ending /\ ~g.over => g.timer
    /\ WordpartyFull(g)

WordpartyInv == WordpartyHolds(game)

LEMMA WordpartyNumbers ==
    /\ WordpartyRules.NPlayers \in Nat /\ WordpartyRules.NPlayers > 0
    /\ WordpartyRules.Lives \in Nat /\ WordpartyRules.Lives > 0
    /\ WordpartyRules.MaxLives \in Nat /\ WordpartyRules.Lives < WordpartyRules.MaxLives
    /\ WordpartyRules.LateMax \in Nat
    /\ WordpartyRules.NLetters \in 1 .. 31
  BY Setups DEF Setups, Wordparty!Setup

LEMMA WordpartyWords ==
    ASSUME NEW word \in WordpartyRules.Dictionary
    PROVE  Wordparty!Range(word) \subseteq Wordparty!Letters
<1>1. word \in Seq(Wordparty!Letters)
  BY Setups DEF Setups, Wordparty!Setup
<1> QED
  BY <1>1 DEF Wordparty!Range

LEMMA WordpartyLetters ==
    /\ Wordparty!Letters # {} /\ Wordparty!Letters # Wordparty!AllBits
    /\ {} # Wordparty!AllBits
    /\ \A S \in SUBSET Wordparty!Letters : S # Wordparty!AllBits
<1>1. 1 \in Wordparty!Letters /\ 32 \in Wordparty!AllBits /\ 32 \notin Wordparty!Letters
  BY WordpartyNumbers DEF Wordparty!Letters, Wordparty!AllBits
<1> QED
  BY <1>1

LEMMA WordpartyAlive ==
    ASSUME NEW g
    PROVE  /\ IsFiniteSet(Wordparty!Alive(g))
           /\ Wordparty!Cardinality(Wordparty!Alive(g)) = Cardinality(Wordparty!Alive(g))
           /\ Wordparty!Cardinality(Wordparty!Alive(g)) \in Nat
           /\ (Wordparty!Cardinality(Wordparty!Alive(g)) = 0) <=> (Wordparty!Alive(g) = {})
<1>1. IsFiniteSet(Wordparty!Players)
  <2>1. 0 \in Int /\ WordpartyRules.NPlayers - 1 \in Int
    BY WordpartyNumbers
  <2> QED
    BY <2>1, FS_Interval DEF Wordparty!Players
<1>2. Wordparty!Alive(g) \subseteq Wordparty!Players
  BY DEF Wordparty!Alive
<1>3. IsFiniteSet(Wordparty!Alive(g))
  BY <1>1, <1>2, FS_Subset
<1>4. \A S : Wordparty!Cardinality(S) = Cardinality(S)
  BY DEF Wordparty!Cardinality, Cardinality
<1> QED
  BY <1>3, <1>4, FS_CardinalityType, FS_EmptySet

LEMMA WordpartyNextPlayer ==
    ASSUME NEW g, g.current \in Wordparty!Players
    PROVE  /\ Wordparty!NextPlayer(g) \in Wordparty!Players
           /\ Wordparty!Alive(g) # {} => Wordparty!NextPlayer(g) \in Wordparty!Alive(g)
<1> DEFINE n == WordpartyRules.NPlayers
           a == g.current
           S == Wordparty!Alive(g)
           IsNext(p) == \E k \in 1 .. n :
                          /\ p = (a + k) % n
                          /\ k = n \/ p \in S
                          /\ \A i \in 1 .. k - 1 : (a + i) % n \notin S
<1>1. /\ n \in Nat \ {0} /\ a \in 0 .. n - 1
      /\ S \in SUBSET (0 .. n - 1)
  BY WordpartyNumbers DEF Wordparty!Players, Wordparty!Alive
<1>2. Wordparty!NextPlayer(g) = CHOOSE p \in Wordparty!Players : IsNext(p)
  BY DEF Wordparty!NextPlayer
<1> HIDE DEF n, a, S
<1>3. CASE S = {}
  <2>1. (a + n) % n \in 0 .. n - 1
    BY <1>1
  <2>2. IsNext((a + n) % n)
    BY <1>1, <1>3
  <2>3. (a + n) % n \in Wordparty!Players
    BY <2>1 DEF Wordparty!Players, n
  <2> HIDE DEF IsNext
  <2> QED
    BY <1>2, <1>3, <2>2, <2>3 DEF S
<1>4. CASE S # {}
  <2>1. \E p \in S : \E k \in 1 .. n :
              /\ p = (a + k) % n
              /\ \A j \in 1 .. k - 1 : (a + j) % n \notin S
    BY <1>1, <1>4, FirstAhead
  <2>2. \E p \in S : IsNext(p)
    BY <2>1
  <2>3. S \subseteq Wordparty!Players
    BY DEF S, Wordparty!Alive
  <2>4. ASSUME NEW p \in Wordparty!Players, IsNext(p)
        PROVE  p \in S
    <3>1. PICK k \in 1 .. n :
                          /\ p = (a + k) % n
                          /\ k = n \/ p \in S
                          /\ \A i \in 1 .. k - 1 : (a + i) % n \notin S
      BY <2>4
    <3>2. PICK q \in S : \E j \in 1 .. n : q = (a + j) % n
      BY <2>1
    <3>3. PICK j \in 1 .. n : q = (a + j) % n
      BY <3>2
    <3>4. CASE k = n
      <4>1. ~(j \in 1 .. k - 1)
        BY <3>1, <3>3
      <4>2. j = k
        BY <3>4, <4>1, <1>1
      <4> QED
        BY <3>1, <3>3, <4>2
    <3> QED
      BY <3>1, <3>4
  <2> HIDE DEF IsNext
  <2> QED
    BY <1>2, <2>2, <2>3, <2>4 DEF S
<1> QED
  BY <1>3, <1>4

(* What start_turn leaves.                                                  *)
LEMMA WordpartyStartTurn ==
    ASSUME NEW g \in Wordparty!Table, WordpartyFull(g),
           g.timer => Wordparty!Alive(g) # {},
           NEW t, t = Wordparty!StartTurn(g)
    PROVE  WordpartyHolds(t)
<1> DEFINE c == Wordparty!NextPlayer(g)
           h == [g EXCEPT !.current = c]
<1>1. /\ c \in Wordparty!Players
      /\ Wordparty!Alive(g) # {} => c \in Wordparty!Alive(g)
  BY WordpartyNextPlayer DEF Wordparty!Table
<1>2. /\ h \in Wordparty!Table /\ h.lives = g.lives /\ h.letters = g.letters
      /\ h.timer = g.timer /\ h.current = c
  BY <1>1 DEF Wordparty!Table
<1>3. Wordparty!Alive(h) = Wordparty!Alive(g)
  BY <1>2 DEF Wordparty!Alive
<1>4. \/ t = [h EXCEPT !.ending = TRUE]
      \/ t = [h EXCEPT !.timer = TRUE] /\ Wordparty!Alive(h) # {}
  <2>1. /\ Wordparty!Cardinality(Wordparty!Alive(h)) \in Nat
        /\ (Wordparty!Cardinality(Wordparty!Alive(h)) = 0) <=> (Wordparty!Alive(h) = {})
    BY WordpartyAlive
  <2>2. t = IF Wordparty!Cardinality(Wordparty!Alive(h))
                     <= (IF WordpartyRules.NPlayers > 1 THEN 1 ELSE 0)
                THEN [h EXCEPT !.ending = TRUE] ELSE [h EXCEPT !.timer = TRUE]
    BY DEF Wordparty!StartTurn
  <2> HIDE DEF h
  <2> QED
    BY <2>1, <2>2
<1> HIDE DEF h, c
<1>5. /\ t \in Wordparty!Table
      /\ t.lives = g.lives /\ t.letters = g.letters /\ t.current = c
      /\ \/ t.ending /\ t.timer = g.timer
         \/ t.timer /\ Wordparty!Alive(g) # {}
  BY <1>2, <1>3, <1>4 DEF Wordparty!Table
<1>6. Wordparty!Alive(t) = Wordparty!Alive(g)
  BY <1>5 DEF Wordparty!Alive
<1> QED
  BY <1>1, <1>5, <1>6 DEF WordpartyHolds, WordpartyFull

LEMMA WordpartyPickSyllable ==
    ASSUME NEW g \in Wordparty!Table, NEW h \in Wordparty!PickSyllable(g)
    PROVE  /\ h \in Wordparty!Table
           /\ h.lives = g.lives /\ h.letters = g.letters /\ h.current = g.current
           /\ h.timer = g.timer
           /\ Wordparty!Alive(h) = Wordparty!Alive(g)
<1>1. PICK s \in Wordparty!Letters : h = [g EXCEPT !.syllable = s, !.fails = 0,
                              !.maxFails = Wordparty!Cardinality(Wordparty!Alive(g))]
  BY DEF Wordparty!PickSyllable
<1>2. Wordparty!Cardinality(Wordparty!Alive(g)) \in Nat
  BY WordpartyAlive
<1>3. /\ h \in Wordparty!Table
      /\ h.lives = g.lives /\ h.letters = g.letters /\ h.current = g.current
      /\ h.timer = g.timer
  BY <1>1, <1>2 DEF Wordparty!Table
<1> QED
  BY <1>3 DEF Wordparty!Alive


LEMMA WordpartyInitially == Wordparty!Init => WordpartyInv
<1> DEFINE start(p) ==
        [lives |-> [q \in Wordparty!Players |-> WordpartyRules.Lives],
         letters |-> [q \in Wordparty!Players |-> {}],
         current |-> p, syllable |-> 1,
         fails |-> 0, maxFails |-> 0, used |-> {}, timer |-> FALSE,
         ending |-> FALSE, over |-> FALSE, late |-> 0]
<1> SUFFICES ASSUME NEW p \in Wordparty!Players,
                    NEW g \in Wordparty!PickSyllable(start(p)),
                    game = Wordparty!StartTurn(g)
             PROVE  WordpartyInv
  BY DEF Wordparty!Init
<1>1. start(p) \in Wordparty!Table
  <2>1. 1 \in Wordparty!Letters /\ 0 \in 0 .. WordpartyRules.LateMax
        /\ WordpartyRules.Lives \in 0 .. WordpartyRules.MaxLives
    BY WordpartyNumbers DEF Wordparty!Letters
  <2> QED
    BY <2>1 DEF Wordparty!Table
<1>2. /\ start(p).lives = [q \in Wordparty!Players |-> WordpartyRules.Lives]
      /\ start(p).letters = [q \in Wordparty!Players |-> {}]
      /\ start(p).timer = FALSE
  OBVIOUS
<1> HIDE DEF start
<1>3. /\ g \in Wordparty!Table
      /\ g.lives = [q \in Wordparty!Players |-> WordpartyRules.Lives]
      /\ g.letters = [q \in Wordparty!Players |-> {}]
      /\ g.timer = FALSE
  BY <1>1, <1>2, WordpartyPickSyllable
<1>4. WordpartyFull(g)
  BY <1>3, WordpartyNumbers, WordpartyLetters DEF WordpartyFull
<1> QED
  BY <1>3, <1>4, WordpartyStartTurn DEF WordpartyInv

LEMMA WordpartyTallyWord ==
    ASSUME NEW g \in Wordparty!Table, WordpartyFull(g),
           NEW word \in WordpartyRules.Dictionary
    PROVE  /\ Wordparty!TallyWord(g, word) \in Wordparty!Table
           /\ WordpartyFull(Wordparty!TallyWord(g, word))
           /\ Wordparty!TallyWord(g, word).timer = g.timer
           /\ Wordparty!Alive(g) \subseteq Wordparty!Alive(Wordparty!TallyWord(g, word))
<1> DEFINE p == g.current
           letters == g.letters[p] \cup Wordparty!Range(word)
           t == Wordparty!TallyWord(g, word)
<1>1. /\ p \in Wordparty!Players
      /\ g.lives[p] \in 0 .. WordpartyRules.MaxLives
      /\ g.letters[p] \in (SUBSET Wordparty!Letters) \cup {Wordparty!AllBits}
      /\ WordpartyRules.MaxLives \in Nat
  BY WordpartyNumbers DEF Wordparty!Table
<1>2. t = IF g.lives[p] >= WordpartyRules.MaxLives THEN g
          ELSE IF letters # Wordparty!Letters THEN [g EXCEPT !.letters[p] = letters]
          ELSE [g EXCEPT !.lives[p] = @ + 1,
                         !.letters[p] = IF g.lives[p] + 1 < WordpartyRules.MaxLives THEN {}
                                        ELSE Wordparty!AllBits]
  BY DEF Wordparty!TallyWord
<1>3. CASE g.lives[p] >= WordpartyRules.MaxLives
  BY <1>2, <1>3
<1>4. CASE g.lives[p] < WordpartyRules.MaxLives
  <2>1. g.letters[p] \subseteq Wordparty!Letters
    BY <1>1, <1>4 DEF WordpartyFull
  <2>2. letters \in SUBSET Wordparty!Letters
    BY <2>1, WordpartyWords
  <2> DEFINE l == g.lives[p]
  <2> HIDE DEF letters, t, p
  <2>3. CASE letters # Wordparty!Letters
    <3>1. t = [g EXCEPT !.letters[p] = letters]
      BY <1>1, <1>2, <1>4, <2>3
    <3>2. /\ t \in Wordparty!Table /\ t.lives = g.lives
          /\ t.letters = [g.letters EXCEPT ![p] = letters]
          /\ t.timer = g.timer
      BY <3>1, <2>2, <1>1 DEF Wordparty!Table
    <3>3. WordpartyFull(t)
      BY <3>2, <2>2, <2>3, <1>1, <1>4, WordpartyLetters DEF WordpartyFull, Wordparty!Table
    <3> QED
      BY <3>2, <3>3 DEF Wordparty!Alive, t
  <2>4. CASE letters = Wordparty!Letters
    <3> DEFINE row == IF g.lives[p] + 1 < WordpartyRules.MaxLives THEN {}
                      ELSE Wordparty!AllBits
    <3>1. t = [g EXCEPT !.lives[p] = g.lives[p] + 1, !.letters[p] = row]
      BY <1>1, <1>2, <1>4, <2>4
    <3>2. /\ row = {} \/ row = Wordparty!AllBits
          /\ row = Wordparty!AllBits <=> g.lives[p] + 1 = WordpartyRules.MaxLives
          /\ row # Wordparty!Letters
      BY <1>1, <1>4, WordpartyLetters
    <3> HIDE DEF row
    <3>3. /\ t \in Wordparty!Table
          /\ t.lives = [g.lives EXCEPT ![p] = g.lives[p] + 1]
          /\ t.letters = [g.letters EXCEPT ![p] = row]
          /\ t.timer = g.timer
      <4>1. [g.lives EXCEPT ![p] = g.lives[p] + 1]
               \in [Wordparty!Players -> 0 .. WordpartyRules.MaxLives]
        BY <1>1, <1>4 DEF Wordparty!Table
      <4>2. [g.letters EXCEPT ![p] = row]
               \in [Wordparty!Players -> (SUBSET Wordparty!Letters) \cup {Wordparty!AllBits}]
        BY <3>2, <1>1 DEF Wordparty!Table
      <4> QED
        BY <3>1, <4>1, <4>2 DEF Wordparty!Table
    <3>4. WordpartyFull(t)
      BY <3>2, <3>3, <1>1 DEF WordpartyFull, Wordparty!Table
    <3>5. Wordparty!Alive(g) \subseteq Wordparty!Alive(t)
      BY <3>3, <1>1 DEF Wordparty!Alive, Wordparty!Table
    <3> QED
      BY <3>3, <3>4, <3>5 DEF t
  <2> QED
    BY <2>3, <2>4
<1> QED
  BY <1>1, <1>3, <1>4

LEMMA WordpartyType ==
    ASSUME WordpartyInv, NEW p \in Wordparty!Players,
           NEW word \in WordpartyRules.Dictionary, Wordparty!Type(p, word)
    PROVE  WordpartyInv'
<1> DEFINE noted == [game EXCEPT !.used = game.used \cup {word},
                         !.late = IF game.ending THEN game.late + 1 ELSE 0]
<1>1. /\ game.ending => game.late < WordpartyRules.LateMax
      /\ \E g \in Wordparty!PickSyllable(Wordparty!TallyWord(noted, word)) :
            game' = Wordparty!StartTurn(g)
  BY DEF Wordparty!Type
<1>2. PICK g \in Wordparty!PickSyllable(Wordparty!TallyWord(noted, word)) :
            game' = Wordparty!StartTurn(g)
  BY <1>1
<1>3. /\ noted \in Wordparty!Table /\ noted.timer = game.timer
      /\ noted.lives = game.lives /\ noted.letters = game.letters
  <2>1. (IF game.ending THEN game.late + 1 ELSE 0) \in 0 .. WordpartyRules.LateMax
    BY <1>1, WordpartyNumbers DEF WordpartyInv, WordpartyHolds, Wordparty!Table
  <2> QED
    BY <2>1 DEF WordpartyInv, WordpartyHolds, Wordparty!Table
<1> HIDE DEF noted
<1>4. /\ WordpartyFull(noted)
      /\ noted.timer => Wordparty!Alive(noted) # {}
  BY <1>3 DEF WordpartyInv, WordpartyHolds, WordpartyFull, Wordparty!Alive
<1>5. PICK h : h = Wordparty!TallyWord(noted, word)
  OBVIOUS
<1>6. /\ h \in Wordparty!Table /\ WordpartyFull(h)
      /\ h.timer = noted.timer
      /\ Wordparty!Alive(noted) \subseteq Wordparty!Alive(h)
  BY <1>3, <1>4, <1>5, WordpartyTallyWord
<1>7. /\ g \in Wordparty!Table
      /\ g.lives = h.lives /\ g.letters = h.letters /\ g.timer = h.timer
      /\ Wordparty!Alive(g) = Wordparty!Alive(h)
  BY <1>2, <1>5, <1>6, WordpartyPickSyllable
<1>8. /\ WordpartyFull(g)
      /\ g.timer => Wordparty!Alive(g) # {}
  BY <1>4, <1>6, <1>7 DEF WordpartyFull
<1> QED
  BY <1>2, <1>7, <1>8, WordpartyStartTurn DEF WordpartyInv

LEMMA WordpartyTimeout ==
    ASSUME WordpartyInv, Wordparty!WordTimeout
    PROVE  WordpartyInv'
<1> DEFINE p == game.current
           failing == [game EXCEPT !.timer = FALSE, !.fails = game.fails + 1]
           lost(g) == [g EXCEPT
                         !.letters[p] = IF g.lives[p] = WordpartyRules.MaxLives THEN {} ELSE @,
                         !.lives[p] = @ - 1]
<1>1. /\ game.timer
      /\ \E g \in IF failing.fails >= failing.maxFails THEN Wordparty!PickSyllable(failing)
                                                       ELSE {failing} :
             game' = Wordparty!StartTurn(lost(g))
  BY DEF Wordparty!WordTimeout
<1>2. PICK g : /\ g \in Wordparty!PickSyllable(failing) \/ g = failing
               /\ game' = Wordparty!StartTurn(lost(g))
  BY <1>1
<1>3. /\ failing \in Wordparty!Table
      /\ failing.lives = game.lives /\ failing.letters = game.letters
      /\ failing.timer = FALSE
  <2>1. game \in Wordparty!Table
    BY DEF WordpartyInv, WordpartyHolds
  <2>2. game.fails + 1 \in Nat
    BY <2>1 DEF Wordparty!Table
  <2> HIDE DEF lost
  <2> QED
    BY <2>1, <2>2 DEF Wordparty!Table
<1>4. /\ p \in Wordparty!Players
      /\ game.lives[p] > 0
  BY <1>1 DEF WordpartyInv, WordpartyHolds, Wordparty!Table, Wordparty!Alive
<1> HIDE DEF failing, p
<1>5. /\ g \in Wordparty!Table
      /\ g.lives = game.lives /\ g.letters = game.letters
      /\ g.timer = FALSE
  BY <1>2, <1>3, WordpartyPickSyllable
<1> DEFINE row == IF g.lives[p] = WordpartyRules.MaxLives THEN {} ELSE g.letters[p]
<1>6. /\ row \in (SUBSET Wordparty!Letters) \cup {Wordparty!AllBits}
      /\ row # Wordparty!Letters /\ row # Wordparty!AllBits
  BY <1>4, <1>5, WordpartyLetters DEF WordpartyInv, WordpartyHolds, WordpartyFull,
     Wordparty!Table
<1>7. PICK h : h = [g EXCEPT !.letters[p] = row, !.lives[p] = g.lives[p] - 1]
  OBVIOUS
<1> HIDE DEF row
<1>8. /\ h \in Wordparty!Table /\ h.timer = FALSE
      /\ h.lives = [g.lives EXCEPT ![p] = g.lives[p] - 1]
      /\ h.letters = [g.letters EXCEPT ![p] = row]
  <2>1. [g.lives EXCEPT ![p] = g.lives[p] - 1]
           \in [Wordparty!Players -> 0 .. WordpartyRules.MaxLives]
    BY <1>4, <1>5, WordpartyNumbers DEF Wordparty!Table
  <2>2. [g.letters EXCEPT ![p] = row]
           \in [Wordparty!Players -> (SUBSET Wordparty!Letters) \cup {Wordparty!AllBits}]
    BY <1>4, <1>5, <1>6 DEF Wordparty!Table
  <2> QED
    BY <1>5, <1>7, <2>1, <2>2 DEF Wordparty!Table
<1>9. WordpartyFull(h)
  BY <1>4, <1>5, <1>6, <1>8, WordpartyNumbers DEF WordpartyInv, WordpartyHolds,
     WordpartyFull, Wordparty!Table
<1>10. game' = Wordparty!StartTurn(h)
  BY <1>2, <1>7 DEF row
<1> QED
  BY <1>8, <1>9, <1>10, WordpartyStartTurn DEF WordpartyInv

LEMMA WordpartyStep == WordpartyInv /\ [Wordparty!Next]_game => WordpartyInv'
<1> SUFFICES ASSUME WordpartyInv, [Wordparty!Next]_game
             PROVE  WordpartyInv'
  OBVIOUS
<1>1. CASE Wordparty!GameOver
  <2>1. /\ game' \in Wordparty!Table /\ game'.over /\ game'.timer = FALSE
        /\ game'.lives = game.lives /\ game'.letters = game.letters
    BY <1>1 DEF Wordparty!GameOver, WordpartyInv, WordpartyHolds, Wordparty!Table
  <2> QED
    BY <2>1 DEF WordpartyInv, WordpartyHolds, WordpartyFull
<1>2. CASE UNCHANGED game
  BY <1>2 DEF WordpartyInv
<1> QED
  BY <1>1, <1>2, WordpartyType, WordpartyTimeout DEF Wordparty!Next, Wordparty!Timers,
     Wordparty!Press

LEMMA WordpartyMeans ==
    WordpartyInv => /\ Wordparty!TypeOK
                    /\ Wordparty!TurnIsTimed
                    /\ Wordparty!LettersMatchLives
  BY DEF WordpartyInv, WordpartyHolds, WordpartyFull, Wordparty!TypeOK, Wordparty!Going,
     Wordparty!TurnIsTimed, Wordparty!LettersMatchLives

--------------------------------------------------------------------------
(* Chameleon *)

ChameleonRounds(g) == g.nextGroup - (IF g.phase = "waiting" THEN 0 ELSE 1)

ChameleonHolds(g) ==
    /\ g \in Chameleon!Table
    /\ ~g.ending /\ ~g.over =>
         /\ g.timer <=> g.phase = "votes"
         /\ g.phase # "clues" => g.sent = ChameleonRules.NPlayers
         /\ g.phase = "clues" => g.sent < ChameleonRules.NPlayers /\ g.voted = {}
         /\ g.phase = "votes" => g.voted # Chameleon!Players
         /\ g.phase \in {"guess", "waiting"} =>
              g.voted = Chameleon!Players /\ g.dealer = g.chameleon
         /\ g.phase = "waiting" => ~Chameleon!IsGameOver(g)
         /\ ChameleonRounds(g) <= Sum(g.scores, Chameleon!Players)
         /\ Sum(g.scores, Chameleon!Players)
              <= 2 * (ChameleonRules.NPlayers - 1) * ChameleonRounds(g)
         /\ \A p \in Chameleon!Players : g.scores[p] < ChameleonRules.EndPoints

ChameleonInv == ChameleonHolds(game)

LEMMA ChameleonNumbers ==
    /\ ChameleonRules.NPlayers \in Nat /\ ChameleonRules.NPlayers > 1
    /\ ChameleonRules.NGroups \in Nat /\ ChameleonRules.NGroups > 0
    /\ ChameleonRules.NWords \in Nat /\ ChameleonRules.NWords > 0
    /\ ChameleonRules.EndPoints \in Nat /\ ChameleonRules.EndPoints > 0
    /\ ChameleonRules.LateMax \in Nat
  BY Setups DEF Setups, Chameleon!Setup

LEMMA ChameleonPlayers ==
    /\ IsFiniteSet(Chameleon!Players)
    /\ Cardinality(Chameleon!Players) = ChameleonRules.NPlayers
    /\ 0 \in Chameleon!Players /\ 0 \in Chameleon!Words
<1> DEFINE m == ChameleonRules.NPlayers - 1
<1>1. 0 \in Int /\ m \in Int /\ m >= 0 /\ m + 1 = ChameleonRules.NPlayers
  BY ChameleonNumbers
<1>2. /\ IsFiniteSet(0 .. m)
      /\ Cardinality(0 .. m) = m - 0 + 1
  <2> HIDE DEF m
  <2> QED
    BY <1>1, FS_Interval
<1> QED
  BY <1>1, <1>2, ChameleonNumbers DEF Chameleon!Players, Chameleon!Words

LEMMA ChameleonSum ==
    \A g : Chameleon!MapThenSumSet(LAMBDA p : g.scores[p], Chameleon!Players)
             = Sum(g.scores, Chameleon!Players)
  BY DEF Sum, Chameleon!MapThenSumSet, MapThenSumSet, Chameleon!MapThenFoldSet,
     MapThenFoldSet

LEMMA ChameleonMeans ==
    ChameleonInv => /\ Chameleon!TypeOK
                    /\ Chameleon!PhaseIsTimed
                    /\ Chameleon!ScoredOnce
<1> SUFFICES ASSUME ChameleonInv
             PROVE  /\ Chameleon!TypeOK
                    /\ Chameleon!PhaseIsTimed
                    /\ Chameleon!ScoredOnce
  OBVIOUS
<1>1. Chameleon!TypeOK /\ Chameleon!PhaseIsTimed
  BY DEF ChameleonInv, ChameleonHolds, Chameleon!TypeOK, Chameleon!PhaseIsTimed,
     Chameleon!Going
<1>2. Chameleon!MapThenSumSet(LAMBDA p : game.scores[p], Chameleon!Players)
        = Sum(game.scores, Chameleon!Players)
  BY ChameleonSum
<1>3. Chameleon!ScoredOnce
  BY <1>2 DEF ChameleonInv, ChameleonHolds, ChameleonRounds, Chameleon!ScoredOnce,
     Chameleon!Going
<1> QED
  BY <1>1, <1>3

(* A new round, or the end.                                                 *)
LEMMA ChameleonStartRound ==
    ASSUME NEW g \in Chameleon!Table, NEW t \in Chameleon!StartRound(g),
           ~g.ending /\ ~g.over /\ ~Chameleon!IsGameOver(g) =>
             /\ ~g.timer
             /\ g.nextGroup <= Sum(g.scores, Chameleon!Players)
             /\ Sum(g.scores, Chameleon!Players)
                  <= 2 * (ChameleonRules.NPlayers - 1) * g.nextGroup
    PROVE  ChameleonHolds(t)
<1>1. CASE Chameleon!IsGameOver(g)
  <2>1. t = [g EXCEPT !.ending = TRUE]
    BY <1>1 DEF Chameleon!StartRound
  <2>2. t \in Chameleon!Table /\ t.ending
    BY <2>1 DEF Chameleon!Table
  <2> QED
    BY <2>2 DEF ChameleonHolds
<1>2. CASE ~Chameleon!IsGameOver(g)
  <2>1. t \in {Chameleon!Round(g, p, w) : p \in Chameleon!Players, w \in Chameleon!Words}
    BY <1>2 DEF Chameleon!StartRound
  <2>2. PICK p \in Chameleon!Players, w \in Chameleon!Words : t = Chameleon!Round(g, p, w)
    BY <2>1
  <2>3. /\ g.nextGroup < ChameleonRules.NGroups
        /\ \A q \in Chameleon!Players : g.scores[q] < ChameleonRules.EndPoints
        /\ g.nextGroup \in Nat
    BY <1>2, ChameleonNumbers DEF Chameleon!IsGameOver, Chameleon!Table
  <2>4. /\ g.nextGroup + 1 \in 0 .. ChameleonRules.NGroups
        /\ 0 \in 0 .. ChameleonRules.NPlayers
    BY <2>3, ChameleonNumbers
  <2>5. /\ t \in Chameleon!Table
        /\ t.nextGroup = g.nextGroup + 1 /\ t.phase = "clues" /\ t.sent = 0 /\ t.voted = {}
        /\ t.scores = g.scores /\ t.timer = g.timer
        /\ t.ending = g.ending /\ t.over = g.over
    BY <2>2, <2>4 DEF Chameleon!Table, Chameleon!Round
  <2>6. ChameleonRounds(t) = g.nextGroup
    BY <2>3, <2>5 DEF ChameleonRounds
  <2> QED
    BY <1>2, <2>3, <2>5, <2>6, ChameleonNumbers DEF ChameleonHolds
<1> QED
  BY <1>1, <1>2

LEMMA ChameleonInitially == Chameleon!Init => ChameleonInv
<1> DEFINE start(p) ==
        [phase |-> "clues", nextGroup |-> 0, sent |-> 0, chameleon |-> 0, dealer |-> p,
         secret |-> 0, votes |-> [q \in Chameleon!Players |-> 0], voted |-> {},
         scores |-> [q \in Chameleon!Players |-> 0], timer |-> FALSE,
         ending |-> FALSE, over |-> FALSE, late |-> 0]
<1> SUFFICES ASSUME NEW p \in Chameleon!Players, game \in Chameleon!StartRound(start(p))
             PROVE  ChameleonInv
  BY DEF Chameleon!Init
<1>1. /\ 0 \in 0 .. ChameleonRules.NGroups /\ 0 \in 0 .. ChameleonRules.NPlayers
      /\ 0 \in 0 .. ChameleonRules.LateMax
  BY ChameleonNumbers
<1>2. start(p) \in Chameleon!Table
  BY <1>1, ChameleonPlayers DEF Chameleon!Table
<1>3. /\ start(p).timer = FALSE /\ start(p).nextGroup = 0
      /\ start(p).scores = [q \in Chameleon!Players |-> 0]
  OBVIOUS
<1>4. Sum([q \in Chameleon!Players |-> 0], Chameleon!Players) = 0
  <2>1. Sum([q \in Chameleon!Players |-> 0], Chameleon!Players)
          = 0 * Cardinality(Chameleon!Players)
    BY ChameleonPlayers, SumConstant
  <2> QED
    BY <2>1, ChameleonPlayers, ChameleonNumbers
<1> HIDE DEF start
<1>5. 2 * (ChameleonRules.NPlayers - 1) * 0 = 0
  BY ChameleonNumbers
<1> QED
  BY <1>2, <1>3, <1>4, <1>5, ChameleonStartRound DEF ChameleonInv

(* After a vote or a guess, with the points of the round.                   *)
LEMMA ChameleonScored ==
    ASSUME NEW g \in Chameleon!Table, NEW t \in Chameleon!Scored(g),
           ~g.ending /\ ~g.over =>
             /\ ~g.timer
             /\ g.sent = ChameleonRules.NPlayers
             /\ g.voted = Chameleon!Players /\ g.dealer = g.chameleon
             /\ g.nextGroup <= Sum(g.scores, Chameleon!Players)
             /\ Sum(g.scores, Chameleon!Players)
                  <= 2 * (ChameleonRules.NPlayers - 1) * g.nextGroup
    PROVE  ChameleonHolds(t)
<1>1. CASE Chameleon!IsGameOver(g)
  <2>1. t \in Chameleon!StartRound(g)
    BY <1>1 DEF Chameleon!Scored
  <2> QED
    BY <1>1, <2>1, ChameleonStartRound
<1>2. CASE ~Chameleon!IsGameOver(g)
  <2>1. t = [g EXCEPT !.phase = "waiting"]
    BY <1>2 DEF Chameleon!Scored
  <2>2. /\ t \in Chameleon!Table
        /\ t.nextGroup = g.nextGroup /\ t.phase = "waiting" /\ t.sent = g.sent
        /\ t.voted = g.voted /\ t.dealer = g.dealer /\ t.chameleon = g.chameleon
        /\ t.scores = g.scores /\ t.timer = g.timer
        /\ t.ending = g.ending /\ t.over = g.over
    BY <2>1 DEF Chameleon!Table
  <2>3. ~Chameleon!IsGameOver(t)
    BY <1>2, <2>2 DEF Chameleon!IsGameOver
  <2>4. ChameleonRounds(t) = g.nextGroup
    BY <2>2 DEF ChameleonRounds, Chameleon!Table
  <2>5. \A q \in Chameleon!Players : t.scores[q] < ChameleonRules.EndPoints
    BY <2>2, <2>3, ChameleonNumbers DEF Chameleon!IsGameOver, Chameleon!Table
  <2> QED
    BY <2>2, <2>3, <2>4, <2>5, ChameleonNumbers DEF ChameleonHolds
<1> QED
  BY <1>1, <1>2

LEMMA ChameleonSendClue ==
    ASSUME ChameleonInv, NEW p \in Chameleon!Players, Chameleon!SendClue(p)
    PROVE  ChameleonInv'
<1> DEFINE g == [game EXCEPT !.sent = game.sent + 1]
<1>1. /\ ~game.over /\ ~game.ending /\ game.phase = "clues"
      /\ game' = IF g.sent < ChameleonRules.NPlayers THEN g
                 ELSE [g EXCEPT !.phase = "votes", !.timer = TRUE]
  BY DEF Chameleon!SendClue
<1>2. game.sent \in Nat /\ game.sent < ChameleonRules.NPlayers
  BY <1>1 DEF ChameleonInv, ChameleonHolds, Chameleon!Table
<1>3. /\ g \in Chameleon!Table /\ g.sent = game.sent + 1
      /\ g.nextGroup = game.nextGroup /\ g.phase = "clues" /\ g.voted = game.voted
      /\ g.scores = game.scores /\ g.timer = game.timer
      /\ g.ending = game.ending /\ g.over = game.over
  BY <1>1, <1>2, ChameleonNumbers DEF ChameleonInv, ChameleonHolds, Chameleon!Table
<1>4. ChameleonRounds(g) = ChameleonRounds(game)
  BY <1>1, <1>3 DEF ChameleonRounds
<1> HIDE DEF g
<1>5. CASE g.sent < ChameleonRules.NPlayers
  BY <1>1, <1>3, <1>4, <1>5 DEF ChameleonInv, ChameleonHolds
<1>6. CASE ~(g.sent < ChameleonRules.NPlayers)
  <2>1. /\ game' \in Chameleon!Table /\ game'.sent = g.sent
        /\ game'.nextGroup = g.nextGroup /\ game'.phase = "votes" /\ game'.voted = g.voted
        /\ game'.scores = g.scores /\ game'.timer = TRUE
    BY <1>1, <1>3, <1>6 DEF Chameleon!Table
  <2>2. ChameleonRounds(game') = ChameleonRounds(game)
    BY <1>1, <1>3, <2>1 DEF ChameleonRounds
  <2>3. g.sent = ChameleonRules.NPlayers
    BY <1>2, <1>3, <1>6, ChameleonNumbers
  <2>4. game'.voted # Chameleon!Players
    BY <1>1, <1>3, <2>1, ChameleonPlayers DEF ChameleonInv, ChameleonHolds
  <2> QED
    BY <1>1, <1>3, <2>1, <2>2, <2>3, <2>4 DEF ChameleonInv, ChameleonHolds
<1> QED
  BY <1>5, <1>6

(* The late count after a vote or a guess.                                  *)
LEMMA ChameleonNoted ==
    ASSUME ChameleonInv, Chameleon!InTime
    PROVE  /\ Chameleon!Noted \in Chameleon!Table
           /\ Chameleon!Noted.nextGroup = game.nextGroup
           /\ Chameleon!Noted.phase = game.phase
           /\ Chameleon!Noted.sent = game.sent
           /\ Chameleon!Noted.voted = game.voted
           /\ Chameleon!Noted.dealer = game.dealer
           /\ Chameleon!Noted.chameleon = game.chameleon
           /\ Chameleon!Noted.votes = game.votes
           /\ Chameleon!Noted.scores = game.scores
           /\ Chameleon!Noted.timer = game.timer
           /\ Chameleon!Noted.ending = game.ending
           /\ Chameleon!Noted.over = game.over
<1> DEFINE late == IF game.ending THEN game.late + 1 ELSE 0
<1>1. late \in 0 .. ChameleonRules.LateMax
  BY ChameleonNumbers DEF ChameleonInv, ChameleonHolds, Chameleon!Table, Chameleon!InTime
<1>2. Chameleon!Noted = [game EXCEPT !.late = late]
  BY DEF Chameleon!Noted
<1> HIDE DEF late
<1> QED
  BY <1>1, <1>2 DEF ChameleonInv, ChameleonHolds, Chameleon!Table

LEMMA ChameleonVote ==
    ASSUME ChameleonInv, NEW p \in Chameleon!Players, NEW choice \in Chameleon!Players,
           Chameleon!Vote(p, choice)
    PROVE  ChameleonInv'
<1> DEFINE noted == Chameleon!Noted
           g == [noted EXCEPT !.votes[p] = choice, !.voted = noted.voted \cup {p}]
<1>1. /\ Chameleon!InTime /\ game.phase = "votes"
      /\ game' \in IF g.voted = Chameleon!Players THEN Chameleon!EndVoting(g) ELSE {g}
  BY DEF Chameleon!Vote
<1>2. /\ noted \in Chameleon!Table
      /\ noted.nextGroup = game.nextGroup /\ noted.phase = game.phase
      /\ noted.sent = game.sent /\ noted.voted = game.voted
      /\ noted.scores = game.scores /\ noted.timer = game.timer
      /\ noted.ending = game.ending /\ noted.over = game.over
  BY <1>1, ChameleonNoted
<1> HIDE DEF noted
<1>3. /\ g \in Chameleon!Table
      /\ g.nextGroup = game.nextGroup /\ g.phase = "votes" /\ g.sent = game.sent
      /\ g.scores = game.scores /\ g.timer = game.timer
      /\ g.ending = game.ending /\ g.over = game.over
  BY <1>1, <1>2 DEF Chameleon!Table
<1> HIDE DEF g
<1>4. /\ ChameleonRounds(g) = game.nextGroup - 1
      /\ ChameleonRounds(game) = game.nextGroup - 1
      /\ game.nextGroup \in Nat
  BY <1>1, <1>3 DEF ChameleonRounds, ChameleonInv, ChameleonHolds, Chameleon!Table
<1>5. CASE g.voted # Chameleon!Players
  <2>1. game' = g
    BY <1>1, <1>5
  <2> QED
    BY <1>1, <1>3, <1>4, <1>5, <2>1 DEF ChameleonInv, ChameleonHolds
<1>6. CASE g.voted = Chameleon!Players
  <2> DEFINE c == g.chameleon
             h == [g EXCEPT !.timer = FALSE, !.dealer = c]
  <2>1. /\ h \in Chameleon!Table /\ c \in Chameleon!Players
        /\ h.nextGroup = game.nextGroup /\ h.phase = "votes" /\ h.sent = game.sent
        /\ h.scores = game.scores /\ h.timer = FALSE
        /\ h.ending = game.ending /\ h.over = game.over
        /\ h.voted = Chameleon!Players /\ h.dealer = c /\ h.chameleon = c
    BY <1>3, <1>6 DEF Chameleon!Table
  <2>2. game' \in IF Chameleon!ChosenPlayer(g) = c THEN {[h EXCEPT !.phase = "guess"]}
                  ELSE Chameleon!Scored([h EXCEPT !.scores[c] = h.scores[c] + 2])
    BY <1>1, <1>6 DEF Chameleon!EndVoting
  <2> HIDE DEF h, c
  <2>3. CASE game' = [h EXCEPT !.phase = "guess"]
    <3>1. /\ game' \in Chameleon!Table /\ game'.phase = "guess"
          /\ game'.nextGroup = game.nextGroup /\ game'.sent = game.sent
          /\ game'.scores = game.scores /\ game'.timer = FALSE
          /\ game'.ending = game.ending /\ game'.over = game.over
          /\ game'.voted = Chameleon!Players /\ game'.dealer = game'.chameleon
      BY <2>1, <2>3 DEF Chameleon!Table
    <3>2. ChameleonRounds(game') = game.nextGroup - 1
      BY <3>1 DEF ChameleonRounds
    <3> QED
      BY <1>1, <1>4, <3>1, <3>2 DEF ChameleonInv, ChameleonHolds
  <2>4. CASE game' \in Chameleon!Scored([h EXCEPT !.scores[c] = h.scores[c] + 2])
    <3>1. PICK k : k = [h EXCEPT !.scores[c] = h.scores[c] + 2]
      OBVIOUS
    <3>2. /\ k \in Chameleon!Table
          /\ k.nextGroup = game.nextGroup /\ k.sent = game.sent
          /\ k.scores = [game.scores EXCEPT ![c] = game.scores[c] + 2] /\ k.timer = FALSE
          /\ k.ending = game.ending /\ k.over = game.over
          /\ k.voted = Chameleon!Players /\ k.dealer = k.chameleon
      BY <2>1, <3>1 DEF Chameleon!Table
    <3>3. /\ game.scores \in [Chameleon!Players -> Nat]
          /\ \A q \in Chameleon!Players : game.scores[q] \in Int /\ k.scores[q] \in Int
          /\ \A q \in Chameleon!Players : q # c => game.scores[q] = k.scores[q]
          /\ k.scores[c] = game.scores[c] + 2
      BY <2>1, <3>2 DEF ChameleonInv, ChameleonHolds, Chameleon!Table
    <3>4. Sum(k.scores, Chameleon!Players)
            = Sum(game.scores, Chameleon!Players) + k.scores[c] - game.scores[c]
      <4> DEFINE f == game.scores
                 v == k.scores
                 S == Chameleon!Players
      <4>1. /\ \A i \in S : f[i] \in Int /\ v[i] \in Int
            /\ \A i \in S : i # c => f[i] = v[i]
            /\ c \in S
        BY <2>1, <3>3
      <4>2. IsFiniteSet(S)
        BY ChameleonPlayers
      <4> HIDE DEF f, v, S
      <4>3. Sum(v, S) = Sum(f, S) + v[c] - f[c]
        BY <4>1, <4>2, SumChange
      <4> QED
        BY <4>3 DEF f, v, S
    <3>5. Sum(game.scores, Chameleon!Players) \in Int
      BY <3>3, ChameleonPlayers, SumType
    <3>6. Sum(k.scores, Chameleon!Players) = Sum(game.scores, Chameleon!Players) + 2
      BY <2>1, <3>3, <3>4, <3>5
    <3>7. 2 * (ChameleonRules.NPlayers - 1) * (game.nextGroup - 1) + 2
            <= 2 * (ChameleonRules.NPlayers - 1) * game.nextGroup
      <4>1. \A a, b \in Nat : a >= 2 => a * (b - 1) + 2 <= a * b
        OBVIOUS
      <4>2. 2 * (ChameleonRules.NPlayers - 1) \in Nat
            /\ 2 * (ChameleonRules.NPlayers - 1) >= 2
        BY ChameleonNumbers
      <4> QED
        BY <1>4, <4>1, <4>2
    <3>9. 2 * (ChameleonRules.NPlayers - 1) * (game.nextGroup - 1) \in Int
          /\ 2 * (ChameleonRules.NPlayers - 1) * game.nextGroup \in Int
      BY <1>4, ChameleonNumbers
    <3>8. ~game.ending /\ ~game.over =>
             /\ game.sent = ChameleonRules.NPlayers
             /\ game.nextGroup <= Sum(k.scores, Chameleon!Players)
             /\ Sum(k.scores, Chameleon!Players)
                  <= 2 * (ChameleonRules.NPlayers - 1) * game.nextGroup
      BY <1>1, <1>4, <3>5, <3>6, <3>7, <3>9 DEF ChameleonInv, ChameleonHolds
    <3> QED
      BY <2>4, <3>1, <3>2, <3>8, ChameleonScored DEF ChameleonInv
  <2> QED
    BY <2>2, <2>3, <2>4
<1> QED
  BY <1>5, <1>6

LEMMA ChameleonGuess ==
    ASSUME ChameleonInv, NEW p \in Chameleon!Players, NEW word \in Chameleon!Words,
           Chameleon!Guess(p, word)
    PROVE  ChameleonInv'
<1> DEFINE noted == Chameleon!Noted
           S == Chameleon!Players
           f == game.scores
           won == [q \in S |-> IF word = game.secret THEN (IF q = p THEN 1 ELSE 0)
                                                     ELSE (IF q = p THEN 0 ELSE 2)]
           v == [q \in S |-> noted.scores[q] +
                    IF word = game.secret THEN (IF q = p THEN 1 ELSE 0)
                                          ELSE (IF q = p THEN 0 ELSE 2)]
           n == ChameleonRules.NPlayers
<1>1. /\ Chameleon!InTime /\ game.phase = "guess"
      /\ game' \in Chameleon!Scored([noted EXCEPT !.scores = v])
  BY DEF Chameleon!Guess
<1>2. /\ noted \in Chameleon!Table
      /\ noted.nextGroup = game.nextGroup /\ noted.phase = game.phase
      /\ noted.sent = game.sent /\ noted.voted = game.voted
      /\ noted.scores = game.scores /\ noted.timer = game.timer
      /\ noted.ending = game.ending /\ noted.over = game.over
      /\ noted.dealer = game.dealer /\ noted.chameleon = game.chameleon
  BY <1>1, ChameleonNoted
<1>3. /\ f \in [S -> Nat] /\ IsFiniteSet(S) /\ Cardinality(S) = n
      /\ p \in S /\ n \in Nat /\ n > 1 /\ game.nextGroup \in Nat
      /\ Sum(f, S) \in Int
  <2>1. f \in [S -> Nat] /\ game.nextGroup \in Nat
    BY DEF ChameleonInv, ChameleonHolds, Chameleon!Table
  <2>2. /\ \A q \in S : f[q] \in Int
        /\ IsFiniteSet(S)
    BY <2>1, ChameleonPlayers
  <2>3. Sum(f, S) \in Int
    <3> HIDE DEF f, S
    <3> QED
      BY <2>2, SumType
  <2> QED
    BY <2>1, <2>3, ChameleonPlayers, ChameleonNumbers
<1>4. /\ won \in [S -> Nat] /\ v \in [S -> Nat]
      /\ \A q \in S : v[q] = f[q] + won[q]
  BY <1>2, <1>3
<1>5. /\ word = game.secret => /\ won[p] = 1
                              /\ \A q \in S : q # p => won[q] = 0
      /\ word # game.secret => /\ won[p] = 0
                              /\ \A q \in S : q # p => won[q] = 2
  BY <1>3
<1> HIDE DEF noted, f, S, won, v, n
<1>6. Sum(v, S) = Sum(f, S) + Sum(won, S)
  <2>1. \A i \in S : f[i] \in Int /\ won[i] \in Int /\ v[i] = f[i] + won[i]
    BY <1>3, <1>4
  <2> QED
    BY <1>3, <2>1, SumPlus
<1>7. Sum(won, S) \in Int /\ 1 <= Sum(won, S) /\ Sum(won, S) <= 2 * (n - 1)
  <2>1. ASSUME NEW c \in Nat, NEW d \in Nat, won[p] = c, \A q \in S : q # p => won[q] = d
        PROVE  Sum(won, S) = d * n + c - d
    <3> DEFINE all == [q \in S |-> d]
    <3>1. /\ \A q \in S : all[q] = d
          /\ \A q \in S : all[q] \in Int /\ won[q] \in Int
          /\ \A q \in S : q # p => all[q] = won[q]
          /\ all[p] = d
      BY <1>3, <1>4, <2>1
    <3> HIDE DEF all
    <3>2. Sum(all, S) = d * n
      BY <1>3, <3>1, SumConstant
    <3>3. Sum(won, S) = Sum(all, S) + won[p] - all[p]
      <4>1. IsFiniteSet(S) /\ p \in S
        BY <1>3
      <4>2. /\ \A q \in S : all[q] \in Int /\ won[q] \in Int
            /\ \A q \in S : q # p => all[q] = won[q]
        BY <3>1
      <4> QED
        BY <4>1, <4>2, SumChange
    <3>4. d * n \in Int
      BY <1>3
    <3> QED
      BY <2>1, <3>1, <3>2, <3>3, <3>4
  <2>2. CASE word = game.secret
    <3>1. Sum(won, S) = 0 * n + 1 - 0
      BY <1>5, <2>1, <2>2
    <3> QED
      BY <1>3, <3>1
  <2>3. CASE word # game.secret
    <3>1. Sum(won, S) = 2 * n + 0 - 2
      BY <1>5, <2>1, <2>3
    <3> QED
      BY <1>3, <3>1
  <2> QED
    BY <2>2, <2>3
<1>8. PICK k : k = [noted EXCEPT !.scores = v]
  OBVIOUS
<1>9. /\ k \in Chameleon!Table
      /\ k.nextGroup = game.nextGroup /\ k.sent = game.sent /\ k.scores = v
      /\ k.timer = game.timer /\ k.ending = game.ending /\ k.over = game.over
      /\ k.voted = game.voted /\ k.dealer = game.dealer
      /\ k.chameleon = game.chameleon
  BY <1>2, <1>4, <1>8 DEF Chameleon!Table, S
<1>10. ~game.ending /\ ~game.over =>
         /\ ~game.timer
         /\ game.sent = n
         /\ game.voted = S /\ game.dealer = game.chameleon
         /\ game.nextGroup - 1 <= Sum(f, S)
         /\ Sum(f, S) <= 2 * (n - 1) * (game.nextGroup - 1)
  BY <1>1 DEF ChameleonInv, ChameleonHolds, ChameleonRounds, n, f, S
<1>11. /\ 2 * (n - 1) * game.nextGroup = 2 * (n - 1) * (game.nextGroup - 1) + 2 * (n - 1)
       /\ 2 * (n - 1) * (game.nextGroup - 1) \in Int /\ 2 * (n - 1) \in Int
  <2>1. \A a, b \in Int : a * b = a * (b - 1) + a /\ a * (b - 1) \in Int
    OBVIOUS
  <2>2. 2 * (n - 1) \in Int
    BY <1>3
  <2> QED
    BY <1>3, <2>1, <2>2
<1>12. ~game.ending /\ ~game.over => /\ game.nextGroup <= Sum(v, S)
                                   /\ Sum(v, S) <= 2 * (n - 1) * game.nextGroup
  BY <1>3, <1>6, <1>7, <1>10, <1>11
<1>13. ~k.ending /\ ~k.over =>
             /\ ~k.timer
             /\ k.sent = ChameleonRules.NPlayers
             /\ k.voted = Chameleon!Players /\ k.dealer = k.chameleon
             /\ k.nextGroup <= Sum(k.scores, Chameleon!Players)
             /\ Sum(k.scores, Chameleon!Players)
                  <= 2 * (ChameleonRules.NPlayers - 1) * k.nextGroup
  BY <1>9, <1>10, <1>12 DEF n, S
<1>14. game' \in Chameleon!Scored(k)
  BY <1>1, <1>8
<1> QED
  BY <1>9, <1>13, <1>14, ChameleonScored DEF ChameleonInv

LEMMA ChameleonStart ==
    ASSUME ChameleonInv, Chameleon!PressStart
    PROVE  ChameleonInv'
<1>1. /\ ~game.over /\ ~game.ending /\ game.phase = "waiting"
      /\ game' \in Chameleon!StartRound(game)
  BY DEF Chameleon!PressStart
<1>2. /\ game \in Chameleon!Table /\ ~game.timer
      /\ ChameleonRounds(game) <= Sum(game.scores, Chameleon!Players)
      /\ Sum(game.scores, Chameleon!Players)
              <= 2 * (ChameleonRules.NPlayers - 1) * ChameleonRounds(game)
  BY <1>1 DEF ChameleonInv, ChameleonHolds
<1>3. ChameleonRounds(game) = game.nextGroup
  BY <1>1, <1>2 DEF ChameleonRounds, Chameleon!Table
<1> QED
  BY <1>1, <1>2, <1>3, ChameleonStartRound DEF ChameleonInv

LEMMA ChameleonStep == ChameleonInv /\ [Chameleon!Next]_game => ChameleonInv'
<1> SUFFICES ASSUME ChameleonInv, [Chameleon!Next]_game
             PROVE  ChameleonInv'
  OBVIOUS
<1>1. CASE Chameleon!GameOver
  <2>1. game' \in Chameleon!Table /\ game'.over
    BY <1>1 DEF Chameleon!GameOver, ChameleonInv, ChameleonHolds, Chameleon!Table
  <2> QED
    BY <2>1 DEF ChameleonInv, ChameleonHolds
<1>2. CASE UNCHANGED game
  BY <1>2 DEF ChameleonInv
<1> QED
  BY <1>1, <1>2, ChameleonSendClue, ChameleonVote, ChameleonGuess, ChameleonStart
     DEF Chameleon!Next, Chameleon!Timers, Chameleon!Press

--------------------------------------------------------------------------
(* The games together *)

\* The table of the game that is played is sound.
GameHolds ==
    /\ type \in Types
    /\ type = "six" => SixInv
    /\ type = "love" => LoveInv
    /\ type = "fox" => FoxInv
    /\ type = "snitch" => SnitchInv
    /\ type = "zombie" => ZombieInv
    /\ type = "werewolf" => WerewolfInv
    /\ type = "superfight" => SuperfightInv
    /\ type = "wordparty" => WordpartyInv
    /\ type = "chameleon" => ChameleonInv

LEMMA GameBegins == Init => GameHolds
<1>1. SUFFICES ASSUME Init PROVE GameHolds
  OBVIOUS
<1>2. type \in Types
  BY <1>1 DEF Init
<1>3. CASE type = "six" /\ Six!Init
  BY <1>2, <1>3, SixInitially DEF GameHolds
<1>4. CASE type = "love" /\ Love!Init
  BY <1>2, <1>4, LoveInitially DEF GameHolds
<1>5. CASE type = "fox" /\ Fox!Init
  BY <1>2, <1>5, FoxInitially DEF GameHolds
<1>6. CASE type = "snitch" /\ Snitch!Init
  BY <1>2, <1>6, SnitchInitially DEF GameHolds
<1>7. CASE type = "zombie" /\ Zombie!Init
  BY <1>2, <1>7, ZombieInitially DEF GameHolds
<1>8. CASE type = "werewolf" /\ Werewolf!Init
  BY <1>2, <1>8, WerewolfInitially DEF GameHolds
<1>9. CASE type = "superfight" /\ Superfight!Init
  BY <1>2, <1>9, SuperfightInitially DEF GameHolds
<1>10. CASE type = "wordparty" /\ Wordparty!Init
  BY <1>2, <1>10, WordpartyInitially DEF GameHolds
<1>11. CASE type = "chameleon" /\ Chameleon!Init
  BY <1>2, <1>11, ChameleonInitially DEF GameHolds
<1> QED
  BY <1>1, <1>3, <1>4, <1>5, <1>6, <1>7, <1>8, <1>9, <1>10, <1>11 DEF Init

LEMMA GameGoesOn == GameHolds /\ [Next]_vars => GameHolds'
<1>1. SUFFICES ASSUME GameHolds, [Next]_vars PROVE GameHolds'
  OBVIOUS
<1>2. type' = type /\ type \in Types
  BY <1>1 DEF Next, vars, GameHolds
<1>3. CASE type = "six"
  <2>1. [Six!Next]_game /\ SixInv
    BY <1>1, <1>3 DEF Next, vars, GameHolds
  <2>2. SixInv'
    BY <2>1, SixStep
  <2> QED
    BY <1>2, <1>3, <2>2 DEF GameHolds
<1>4. CASE type = "love"
  <2>1. [Love!Next]_game /\ LoveInv
    BY <1>1, <1>4 DEF Next, vars, GameHolds
  <2>2. LoveInv'
    BY <2>1, LoveStep
  <2> QED
    BY <1>2, <1>4, <2>2 DEF GameHolds
<1>5. CASE type = "fox"
  <2>1. [Fox!Next]_game /\ FoxInv
    BY <1>1, <1>5 DEF Next, vars, GameHolds
  <2>2. FoxInv'
    BY <2>1, FoxStep
  <2> QED
    BY <1>2, <1>5, <2>2 DEF GameHolds
<1>6. CASE type = "snitch"
  <2>1. [Snitch!Next]_game /\ SnitchInv
    BY <1>1, <1>6 DEF Next, vars, GameHolds
  <2>2. SnitchInv'
    BY <2>1, SnitchStep
  <2> QED
    BY <1>2, <1>6, <2>2 DEF GameHolds
<1>7. CASE type = "zombie"
  <2>1. [Zombie!Next]_game /\ ZombieInv
    BY <1>1, <1>7 DEF Next, vars, GameHolds
  <2>2. ZombieInv'
    BY <2>1, ZombieStep
  <2> QED
    BY <1>2, <1>7, <2>2 DEF GameHolds
<1>8. CASE type = "werewolf"
  <2>1. [Werewolf!Next]_game /\ WerewolfInv
    BY <1>1, <1>8 DEF Next, vars, GameHolds
  <2>2. WerewolfInv'
    BY <2>1, WerewolfStep
  <2> QED
    BY <1>2, <1>8, <2>2 DEF GameHolds
<1>9. CASE type = "superfight"
  <2>1. [Superfight!Next]_game /\ SuperfightInv
    BY <1>1, <1>9 DEF Next, vars, GameHolds
  <2>2. SuperfightInv'
    BY <2>1, SuperfightStep
  <2> QED
    BY <1>2, <1>9, <2>2 DEF GameHolds
<1>10. CASE type = "wordparty"
  <2>1. [Wordparty!Next]_game /\ WordpartyInv
    BY <1>1, <1>10 DEF Next, vars, GameHolds
  <2>2. WordpartyInv'
    BY <2>1, WordpartyStep
  <2> QED
    BY <1>2, <1>10, <2>2 DEF GameHolds
<1>11. CASE type = "chameleon"
  <2>1. [Chameleon!Next]_game /\ ChameleonInv
    BY <1>1, <1>11 DEF Next, vars, GameHolds
  <2>2. ChameleonInv'
    BY <2>1, ChameleonStep
  <2> QED
    BY <1>2, <1>11, <2>2 DEF GameHolds
<1> QED
  BY <1>2, <1>3, <1>4, <1>5, <1>6, <1>7, <1>8, <1>9, <1>10, <1>11 DEF GameHolds

LEMMA GameSound == GameHolds => TypeOK /\ CardsConserved /\ TurnsSound /\ VerdictsSound
<1>1. SUFFICES ASSUME GameHolds
               PROVE  TypeOK /\ CardsConserved /\ TurnsSound /\ VerdictsSound
  OBVIOUS
<1>2. type = "six" => Six!TypeOK /\ Six!CardsOnce /\ Six!InTurn
  BY <1>1, SixMeans DEF GameHolds
<1>3. type = "love" => /\ Love!TypeOK /\ Love!CardsConserved /\ Love!SetAsideIsThere
                       /\ Love!TurnIsSound /\ Love!NeverStuck
  BY <1>1, LoveMeans DEF GameHolds
<1>4. type = "fox" => Fox!TypeOK /\ Fox!CardsOnce /\ Fox!HandsMatch /\ Fox!NeverStuck
  BY <1>1, FoxMeans DEF GameHolds
<1>5. type = "snitch" => /\ Snitch!TypeOK /\ Snitch!CardsConserved
                         /\ Snitch!DeckSuffices /\ Snitch!HandsMatch
  BY <1>1, SnitchMeans DEF GameHolds
<1>6. type = "zombie" => /\ Zombie!TypeOK /\ Zombie!DiceConserved
                         /\ Zombie!DeadDontStop /\ Zombie!FirstOverThreshold
  BY <1>1, ZombieMeans DEF GameHolds
<1>7. type = "werewolf" => /\ Werewolf!TypeOK /\ Werewolf!CardsConserved
                           /\ Werewolf!NightGoesOn /\ Werewolf!VerdictIsRight
  BY <1>1, WerewolfMeans, WolfVerdict DEF GameHolds
<1>8. type = "superfight" => /\ Superfight!TypeOK /\ Superfight!VotesAreOfThisFight
                             /\ Superfight!FightIsFair
  BY <1>1 DEF GameHolds, SuperfightInv
<1>9. type = "wordparty" => /\ Wordparty!TypeOK /\ Wordparty!TurnIsTimed
                            /\ Wordparty!LettersMatchLives
  BY <1>1, WordpartyMeans DEF GameHolds
<1>10. type = "chameleon" => /\ Chameleon!TypeOK /\ Chameleon!PhaseIsTimed
                             /\ Chameleon!ScoredOnce
  BY <1>1, ChameleonMeans DEF GameHolds
<1>11. TypeOK
  BY <1>2, <1>3, <1>4, <1>5, <1>6, <1>7, <1>8, <1>9, <1>10 DEF TypeOK
<1>12. CardsConserved
  BY <1>2, <1>3, <1>4, <1>5, <1>6, <1>7 DEF CardsConserved
<1>13. TurnsSound
  BY <1>2, <1>3, <1>4, <1>5, <1>6, <1>7, <1>8, <1>9, <1>10 DEF TurnsSound
<1>14. VerdictsSound
  BY <1>6, <1>7, <1>8, <1>9, <1>10 DEF VerdictsSound
<1> QED
  BY <1>11, <1>12, <1>13, <1>14

LEMMA GameHoldsAlways == Spec => []GameHolds
BY GameBegins, GameGoesOn, PTL DEF Spec

\* Whatever game is played, with any number of players and any cards that make sense, the
\* record of the game stays one of its type, a late press included: no count goes below
\* zero, and whoever a game refers to is one of its players, or in Werewolf, by a button of
\* an earlier game, one of the records of players[] that nobody plays.
THEOREM GamesTyped == Spec => []TypeOK
<1>1. GameHolds => TypeOK
  BY GameSound
<1> QED
  BY <1>1, GameHoldsAlways, PTL

\* No card and no die is ever lost, doubled, or drawn from a deck that has none left:
\* the deals, discards, exchanges, thefts and throws of six games.  In Werewolf a card may
\* leave the table for a record of players[] that nobody plays, but only when a button of
\* an earlier game has been pressed.
THEOREM GamesConserveCards == Spec => []CardsConserved
<1>1. GameHolds => CardsConserved
  BY GameSound
<1> QED
  BY <1>1, GameHoldsAlways, PTL

\* Whoever is asked is in the game and holds what is asked for, and a game that waits for
\* a timer has one; the assertions of Love, Fox and Werewolf hold, that of
\* send_target_choice unless a button of an earlier game of Werewolf has been pressed.
THEOREM GamesTurnsAreSound == Spec => []TurnsSound
<1>1. GameHolds => TurnsSound
  BY GameSound
<1> QED
  BY <1>1, GameHoldsAlways, PTL

\* Points are counted once, the last round begins when it has to, and the winners are
\* those of the rules.
THEOREM GamesVerdictsAreSound == Spec => []VerdictsSound
<1>1. GameHolds => VerdictsSound
  BY GameSound
<1> QED
  BY <1>1, GameHoldsAlways, PTL

==============================================================================
