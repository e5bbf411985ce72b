----------------------------- MODULE Chameleon -----------------------------
(***************************************************************************)
(* pcx-chameleon.c: everybody but one knows the secret word of the round   *)
(* and gives a clue in turn; then all vote for the one who does not, who   *)
(* may still guess the word.  A clue is only that it was given; a group of *)
(* the word list is the number of its words (pcx-chameleon-list.c).        *)
(***************************************************************************)
EXTENDS Integers, FiniteSets, FiniteSetsExt

CONSTANTS NPlayers,     \* n_players
          NGroups,      \* n_groups of the word list; without a list it would be none,
                        \* and the game would end as it starts
          NWords,       \* the words of a group
          EndPoints,    \* the points that end the game (5)
          LateMax       \* bound: answers between the end and game_over_cb

Players == 0 .. NPlayers - 1
Words == 0 .. NWords - 1
None == -1

\* There is a round to play, and somebody to find the chameleon.
Setup == /\ {NPlayers, NGroups, NWords, EndPoints, LateMax} \subseteq Nat
         /\ NPlayers > 1 /\ NGroups > 0 /\ NWords > 0 /\ EndPoints > 0

\* A record of struct pcx_chameleon.  timer is vote_timeout, ending is
\* game_over_source, late counts the votes and guesses since.
VARIABLE game

Table == [phase: {"clues", "votes", "guess", "waiting"}, nextGroup: 0 .. NGroups,
          sent: 0 .. NPlayers, chameleon: Players, dealer: Players, secret: Words,
          votes: [Players -> Players], voted: SUBSET Players,
          scores: [Players -> Nat], timer: BOOLEAN, ending: BOOLEAN, over: BOOLEAN,
          late: 0 .. LateMax]

\* Faulty: the groups never run out.
IsGameOverByPoints(g) == \E p \in Players : g.scores[p] >= EndPoints

\* is_game_over
IsGameOver(g) == \/ g.nextGroup >= NGroups
                 \/ \E p \in Players : g.scores[p] >= EndPoints

\* start_round and pick_secret_word; end_game leaves the phase alone.
Round(g, p, w) ==
    [g EXCEPT !.nextGroup = @ + 1, !.phase = "clues", !.sent = 0,
              !.chameleon = p, !.voted = {}, !.secret = w]
StartRound(g) ==
    IF IsGameOver(g) THEN {[g EXCEPT !.ending = TRUE]}
    ELSE {Round(g, p, w) : p \in Players, w \in Words}

\* pcx_chameleon_new
Init == \E p \in Players :
    game \in StartRound(
        [phase |-> "clues", nextGroup |-> 0, sent |-> 0, chameleon |-> 0, dealer |-> p,
         secret |-> 0, votes |-> [q \in Players |-> 0], voted |-> {},
         scores |-> [q \in Players |-> 0], timer |-> FALSE,
         ending |-> FALSE, over |-> FALSE, late |-> 0])

InTime == ~game.over /\ (game.ending => game.late < LateMax)
Noted == [game EXCEPT !.late = IF game.ending THEN @ + 1 ELSE 0]

--------------------------------------------------------------------------
(* Clues *)

\* get_next_clue_player
ClueGiver(g) == (g.dealer + g.sent) % NPlayers

\* handle_message_cb and start_voting
SendClue(p) ==
    /\ ~game.over /\ ~game.ending
    /\ game.phase = "clues" /\ p = ClueGiver(game)
    /\ \E g \in {[game EXCEPT !.sent = @ + 1]} :
          game' = IF g.sent < NPlayers THEN g
                  ELSE [g EXCEPT !.phase = "votes", !.timer = TRUE]

--------------------------------------------------------------------------
(* Votes *)

\* get_chosen_player: the one with most votes, or who the dealer voted for.
VotesFor(g, p) == Cardinality({q \in Players : g.votes[q] = p})
ChosenPlayer(g) ==
    LET best == {p \in Players : \A q \in Players : VotesFor(g, q) <= VotesFor(g, p)}
    IN IF Cardinality(best) = 1 THEN CHOOSE p \in best : TRUE ELSE g.votes[g.dealer]

\* The end of end_voting and of handle_guess: the next round waits for a button.
Scored(g) == IF IsGameOver(g) THEN StartRound(g) ELSE {[g EXCEPT !.phase = "waiting"]}

\* end_voting: the chameleon is the next dealer.
EndVoting(g) ==
    LET h == [g EXCEPT !.timer = FALSE, !.dealer = g.chameleon]
    IN IF ChosenPlayer(g) = g.chameleon THEN {[h EXCEPT !.phase = "guess"]}
       ELSE Scored([h EXCEPT !.scores[g.chameleon] = @ + 2])

\* handle_vote: a vote may be changed until the last one has voted.
Vote(p, choice) ==
    /\ InTime /\ game.phase = "votes"
    /\ \E g \in {[Noted EXCEPT !.votes[p] = choice, !.voted = @ \cup {p}]} :
          game' \in IF g.voted = Players THEN EndVoting(g) ELSE {g}

\* vote_cb sends the buttons again and starts the timer again: nothing changes.

--------------------------------------------------------------------------
(* The guess *)

\* handle_guess
Guess(p, word) ==
    /\ InTime /\ game.phase = "guess" /\ p = game.chameleon
    /\ game' \in Scored([Noted EXCEPT !.scores = [q \in Players |-> @[q] +
            IF word = game.secret THEN (IF q = p THEN 1 ELSE 0)
                                  ELSE (IF q = p THEN 0 ELSE 2)]])

\* handle_start_round: the button is everybody's.
PressStart ==
    /\ ~game.over /\ ~game.ending /\ game.phase = "waiting"
    /\ game' \in StartRound(game)

\* game_over_cb, and free_game_cb
GameOver == /\ game.ending
            /\ game' = [game EXCEPT !.ending = FALSE, !.over = TRUE, !.timer = FALSE]

Press(p) == \/ SendClue(p)
            \/ \E choice \in Players : Vote(p, choice)
            \/ \E word \in Words : Guess(p, word)
            \/ PressStart
Timers == GameOver

Next == Timers \/ \E p \in Players : Press(p)

\* Somebody gives the next clue, starts the next round and takes the guess, everybody
\* votes, and the timer of the end fires.
ClueIsGiven(s) == game.phase # "clues" \/ game.sent # s \/ game.ending \/ game.over
PhaseEnds(phase) == game.phase # phase \/ game.ending \/ game.over
Answered == /\ \A s \in 0 .. NPlayers - 1 : []<>ClueIsGiven(s)
            /\ \A phase \in {"votes", "guess", "waiting"} : []<>PhaseEnds(phase)
            /\ []<>~game.ending

Spec == Init /\ [][Next]_game /\ Answered

--------------------------------------------------------------------------
(* Properties *)

\* A game is a record of these fields.
TypeOK == game \in Table

Going == ~game.ending /\ ~game.over

\* The vote timer runs while votes are taken and nobody is missing, and only then; a
\* round is never waited for when there is no next one (end_voting, start_round).
PhaseIsTimed == Going =>
    /\ game.timer <=> game.phase = "votes"
    /\ game.phase # "clues" => game.sent = NPlayers
    /\ game.phase = "votes" => game.voted # Players
    /\ game.phase \in {"guess", "waiting"} =>
         /\ game.voted = Players
         /\ game.dealer = game.chameleon
    /\ game.phase = "waiting" => ~IsGameOver(game)

\* Every round that was played is scored once: two points for a chameleon who was not
\* found, one for a right guess, two for each of the others after a wrong one.
ScoredOnce == Going =>
    LET rounds == game.nextGroup - (IF game.phase = "waiting" THEN 0 ELSE 1)
        points == MapThenSumSet(LAMBDA p : game.scores[p], Players)
    IN /\ rounds <= points /\ points <= 2 * (NPlayers - 1) * rounds
       /\ \A p \in Players : game.scores[p] < EndPoints

\* The groups run out, or somebody has the points.
GameEnds == <>game.over
===========================================================================
