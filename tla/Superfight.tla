---------------------------- MODULE Superfight ----------------------------
(***************************************************************************)
(* pcx-superfight.c: two players put a fighter together, the others vote,  *)
(* and the winner stays to meet the next player.  The cards are names and  *)
(* are left out: only whether a role was chosen, and whether the fighter   *)
(* is complete, decides what happens.                                      *)
(***************************************************************************)
EXTENDS Integers, FiniteSets

CONSTANTS NPlayers,      \* n_players
          PointsToWin,   \* POINTS_TO_WIN
          MessageMax,    \* bound: reminders to vote in one argument
          LateMax        \* bound: votes between the end and game_over_cb

Players == 0 .. NPlayers - 1
Corners == {0, 1}
None == -1

\* Two fight, and somebody else votes (PCX_SUPERFIGHT_MIN_PLAYERS).
Setup == /\ {NPlayers, PointsToWin, MessageMax, LateMax} \subseteq Nat
         /\ NPlayers >= 3 /\ PointsToWin > 0

\* A record of struct pcx_superfight; a fighter is a player and how far the choice of
\* its cards is.  timer is vote_timeout, ending is game_over_source, late counts the
\* votes since.
VARIABLE game

Fighters == [player: Players, chosen: {"nothing", "role", "complete"}]
Table == [fighters: [Corners -> Fighters], current: Players,
          votes: [Players -> Corners \cup {None}], scores: [Players -> Nat],
          timer: BOOLEAN, messages: 0 .. MessageMax,
          ending: BOOLEAN, over: BOOLEAN, late: 0 .. LateMax]

Fighter(p) == [player |-> p, chosen |-> "nothing"]
IsFighter(g, p) == \E i \in Corners : g.fighters[i].player = p
AllRolesChosen(g) == \A i \in Corners : g.fighters[i].chosen = "complete"

\* create_game_cb; votes are zero until the first argument.
Init == \E p \in Players :
    game = [fighters |-> [i \in Corners |-> Fighter((p + i) % NPlayers)], current |-> p,
            votes |-> [q \in Players |-> 0], scores |-> [q \in Players |-> 0],
            timer |-> FALSE, messages |-> 0,
            ending |-> FALSE, over |-> FALSE, late |-> 0]

--------------------------------------------------------------------------
(* Fighters *)

\* start_argument, and start_decider_fight, which only shows other cards.
StartArgument(g) == [g EXCEPT !.votes = [p \in Players |-> None], !.messages = 0,
                              !.timer = TRUE]

ChooseRole(p) ==
    \E i \in Corners :
        /\ ~game.over /\ game.fighters[i] = Fighter(p)
        /\ game' = [game EXCEPT !.fighters[i].chosen = "role"]

ChooseAttribute(p) ==
    \E i \in Corners :
        /\ ~game.over /\ game.fighters[i] = [player |-> p, chosen |-> "role"]
        /\ \E g \in {[game EXCEPT !.fighters[i].chosen = "complete"]} :
              game' = IF AllRolesChosen(g) THEN StartArgument(g) ELSE g

--------------------------------------------------------------------------
(* Votes *)

\* count_votes: of everybody, whoever may vote.
CountVotes(g, i) == Cardinality({p \in Players : g.votes[p] = i})

VotingIsFinished(g) == \A p \in Players : IsFighter(g, p) \/ g.votes[p] # None

\* start_next_fight: the next player who is not fighting takes the place of the loser.
Challenger(g) ==
    CHOOSE p \in Players : \E n \in 1 .. NPlayers :
        /\ p = (g.current + n) % NPlayers
        /\ ~IsFighter(g, p)
        /\ \A k \in 1 .. n - 1 : IsFighter(g, (g.current + k) % NPlayers)
StartNextFight(g, winner) ==
    [g EXCEPT !.current = Challenger(g), !.fighters[1 - winner] = Fighter(Challenger(g))]

\* set_fight_winner
SetFightWinner(g, winner) ==
    LET p == g.fighters[winner].player
        h == [g EXCEPT !.scores[p] = @ + 1]
    IN IF h.scores[p] >= PointsToWin THEN [h EXCEPT !.ending = TRUE]
                                     ELSE StartNextFight(h, winner)

\* end_argument and get_winner
EndArgument(g) ==
    LET h == [g EXCEPT !.timer = FALSE]
    IN IF CountVotes(h, 0) = CountVotes(h, 1) THEN StartArgument(h)
       ELSE SetFightWinner(h, IF CountVotes(h, 0) > CountVotes(h, 1) THEN 0 ELSE 1)

\* send_vote: a vote may be changed, after the last one as well.
SendVote(p, i) ==
    /\ ~game.over /\ (game.ending => game.late < LateMax)
    /\ AllRolesChosen(game) /\ ~IsFighter(game, p)
    /\ \E g \in {[game EXCEPT !.votes[p] = i,
                              !.late = IF game.ending THEN @ + 1 ELSE 0]} :
          game' = IF VotingIsFinished(g) THEN EndArgument(g) ELSE g

\* vote_timeout_cb
VoteTimeout ==
    /\ game.timer /\ ~game.over /\ game.messages < MessageMax
    /\ game' = [game EXCEPT !.messages = @ + 1]

\* game_over_cb, and free_game
GameOver == /\ game.ending
            /\ game' = [game EXCEPT !.ending = FALSE, !.over = TRUE, !.timer = FALSE]

Press(p) == ChooseRole(p) \/ ChooseAttribute(p) \/ \E i \in Corners : SendVote(p, i)
Timers == VoteTimeout \/ GameOver

Next == Timers \/ \E p \in Players : Press(p)

\* The fighters choose their cards, everybody else votes, and an audience does not
\* split for ever.
FightBegins == AllRolesChosen(game) \/ game.over
FightEnds == ~AllRolesChosen(game) \/ game.ending \/ game.over
Answered == /\ []<>FightBegins /\ []<>FightEnds
            /\ []<>~game.ending

Spec == Init /\ [][Next]_game /\ Answered

--------------------------------------------------------------------------
(* Properties *)

\* A game is a record of these fields.
TypeOK == game \in Table

Going == ~game.ending /\ ~game.over

\* There is an argument exactly while the vote timer runs; only those who watch this
\* fight have voted in it, and it is over as soon as the last of them has
\* (start_argument, end_argument).
VotesAreOfThisFight == Going =>
    /\ game.timer <=> AllRolesChosen(game)
    /\ game.timer =>
         /\ \A p \in Players : IsFighter(game, p) => game.votes[p] = None
         /\ \E p \in Players : ~IsFighter(game, p) /\ game.votes[p] = None

\* A fight is between two players, nobody has enough points before the end, and the
\* one who stays on is the one who has just won (set_fight_winner).
FightIsFair == Going =>
    /\ game.fighters[0].player # game.fighters[1].player
    /\ \A p \in Players : game.scores[p] < PointsToWin
    /\ (\E p \in Players : game.scores[p] > 0) =>
         \E i \in Corners : game.scores[game.fighters[i].player] > 0

\* Every fight that is decided brings the end nearer.
GameEnds == <>game.over
===========================================================================
