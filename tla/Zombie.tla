------------------------------ MODULE Zombie ------------------------------
(***************************************************************************)
(* pcx-zombie.c: the current player throws dice, is shown them after six   *)
(* seconds (drama_source), and throws again or stops.  Who reaches the     *)
(* points to end the game gives everybody else one more turn.  Sets of     *)
(* dice are bags over the kinds; every kind of die has all three faces.    *)
(***************************************************************************)
EXTENDS Integers, FiniteSets, FiniteSetsExt

CONSTANTS NPlayers,         \* n_players
          StartAmount,      \* start_amount of each kind of die
          DicePerThrow,     \* PCX_ZOMBIE_DICE_PER_THROW
          ShotgunsToKill,   \* PCX_ZOMBIE_SHOTGUNS_TO_KILL
          PointsToEndGame,  \* PCX_ZOMBIE_POINTS_TO_END_GAME
          BrainMax,         \* bound: who has so many brains does not throw again
          LateMax           \* bound: presses between the end and game_over_cb

Players == 0 .. NPlayers - 1
Dice == DOMAIN StartAmount
None == -1

Bags == [Dice -> Nat]
Size(bag) == MapThenSumSet(LAMBDA d : bag[d], Dice)

\* The shotguns of somebody who is still alive leave enough dice for a throw.
Setup == /\ {NPlayers, DicePerThrow, ShotgunsToKill, PointsToEndGame, BrainMax, LateMax}
              \subseteq Nat
         /\ NPlayers > 0 /\ ShotgunsToKill > 0 /\ PointsToEndGame > 0
         /\ IsFiniteSet(Dice) /\ StartAmount \in Bags
         /\ Size(StartAmount) >= DicePerThrow + ShotgunsToKill - 1

\* A record of struct pcx_zombie; drama and ending are the two timers, late counts
\* the presses since the end.
VARIABLE game

Plus(a, b) == [d \in Dice |-> a[d] + b[d]]
Minus(a, b) == [d \in Dice |-> a[d] - b[d]]
\* The bags of n dice that are in the set.
Picks(bag, n) ==
    {pick \in [Dice -> 0 .. n] : Size(pick) = n /\ \A d \in Dice : pick[d] <= bag[d]}

Table == [score: [Players -> Nat], current: Players, last: Players \cup {None},
          box: Bags, brains: Bags, feet: Bags, nBrains: Nat, nShotguns: Nat,
          drama: BOOLEAN, ending: BOOLEAN, over: BOOLEAN, late: 0 .. LateMax]

--------------------------------------------------------------------------
(* Turns *)

NoDice == [d \in Dice |-> 0]

\* pcx_zombie_new and start_turn
Init == \E p \in Players :
    game = [score |-> [q \in Players |-> 0], current |-> p, last |-> None,
            box |-> StartAmount, brains |-> NoDice, feet |-> NoDice,
            nBrains |-> 0, nShotguns |-> 0, drama |-> FALSE,
            ending |-> FALSE, over |-> FALSE, late |-> 0]

\* start_turn
StartTurn(g) == [g EXCEPT !.box = StartAmount, !.brains = NoDice, !.feet = NoDice,
                          !.nBrains = 0, !.nShotguns = 0]

\* end_turn: the first to have enough points decides who has the last turn, and after
\* that one the game ends; otherwise start_turn for the next player.
Before(p) == (p + NPlayers - 1) % NPlayers
After(p) == (p + 1) % NPlayers
EndTurn(g) ==
    LET last == IF g.last = None /\ g.score[g.current] >= PointsToEndGame
                THEN Before(g.current) ELSE g.last
    IN IF g.current = last
       THEN [g EXCEPT !.last = last, !.ending = TRUE]
       ELSE StartTurn([g EXCEPT !.last = last, !.current = After(@)])

--------------------------------------------------------------------------
(* Buttons *)

\* Only the current player, and not while the dice are rolling; also when the game is
\* about to end.
CanPress(p) ==
    /\ ~game.over /\ (game.ending => game.late < LateMax)
    /\ p = game.current /\ ~game.drama
Late == IF game.ending THEN game.late + 1 ELSE 0

\* get_dice: the feet are thrown again with new dice; the brains go back in the box
\* when there are too few.
Boxes ==
    LET need == DicePerThrow - Size(game.feet)
    IN IF Size(game.box) < need
       THEN [box |-> Plus(game.box, game.brains), brains |-> NoDice,
             need |-> Min({need, Size(Plus(game.box, game.brains))})]
       ELSE [box |-> game.box, brains |-> game.brains, need |-> need]

\* score_dice: the shotguns are what is neither brains nor feet.
ScoreDice(b, new, brain, feet) ==
    [game EXCEPT !.box = Minus(b.box, new), !.feet = feet,
                 !.brains = Plus(b.brains, brain), !.nBrains = @ + Size(brain),
                 !.nShotguns = @ + Size(game.feet) + Size(new) - Size(brain) - Size(feet),
                 !.drama = TRUE, !.late = Late]

\* do_throw: what was thrown is split into feet, brains and shotguns.
Throw(p) ==
    /\ CanPress(p) /\ game.nBrains < BrainMax
    /\ \E b \in {Boxes} : \E new \in Picks(b.box, b.need) :
         \E thrown \in {Plus(game.feet, new)} :
           \E nBrain, nFeet \in 0 .. Size(thrown) :
             \E brain \in Picks(thrown, nBrain) :
               \E feet \in Picks(Minus(thrown, brain), nFeet) :
                 game' = ScoreDice(b, new, brain, feet)

\* do_stop
Stop(p) ==
    /\ CanPress(p)
    /\ game' = EndTurn([game EXCEPT !.score[p] = @ + game.nBrains, !.late = Late])

\* drama_cb: the dead lose their turn.
Drama ==
    /\ game.drama
    /\ \E g \in {[game EXCEPT !.drama = FALSE]} :
         game' = IF g.nShotguns >= ShotgunsToKill THEN EndTurn(g) ELSE g

\* game_over_cb; freeing the game removes the other timer.
GameOver ==
    /\ game.ending
    /\ game' = [game EXCEPT !.ending = FALSE, !.drama = FALSE, !.over = TRUE]

\* The drama takes six seconds, the end none.
Timers == GameOver \/ (Drama /\ ~game.ending)

Press(p) == Throw(p) \/ Stop(p)

Next == Timers \/ \E p \in Players : Press(p)

\* Timers expire, and nobody throws for ever.
SomebodyStops == \E p \in Players : Stop(p)
Spec == Init /\ [][Next]_game /\ WF_game(Timers) /\ SF_game(SomebodyStops)

--------------------------------------------------------------------------
(* Properties *)

TypeOK == game \in Table

Playing == ~game.ending /\ ~game.over

\* Every die is in the box, in front of the player or thrown as a shotgun; there are
\* never more to throw than fit dice_thrown, and always as many as a throw takes.
DiceConserved == Playing =>
    /\ Size(game.box) + Size(game.brains) + Size(game.feet) + game.nShotguns
         = Size(StartAmount)
    /\ \A d \in Dice : game.box[d] + game.brains[d] + game.feet[d] <= StartAmount[d]
    /\ Size(game.feet) <= DicePerThrow
    /\ ~game.drama => Size(game.box) + Size(game.brains) + Size(game.feet) >= DicePerThrow

\* Who was shot dead cannot stop and keep the brains: until the turn is over no
\* button does anything.
DeadDontStop == Playing /\ game.nShotguns >= ShotgunsToKill => game.drama

\* The last turn is that of the player before the first who had enough points.
FirstOverThreshold == game.last # None =>
    game.score[After(game.last)] >= PointsToEndGame

\* The last round is over at some time.
GameEnds == (game.last # None) ~> game.over
===========================================================================
