------------------------------- MODULE Six -------------------------------
(***************************************************************************)
(* pcx-six.c: everybody chooses a card in secret, the cards are then       *)
(* placed from the lowest to the highest, one at each tick of a timer, and *)
(* who completes a row or is below all of them takes one.  A card is its   *)
(* number; a hand is a set, and the index on a button is a choice of a     *)
(* member of it.  The messages are left out.                               *)
(***************************************************************************)
EXTENDS Integers, Sequences, FiniteSets, FiniteSetsExt, Functions

CONSTANTS NPlayers,     \* n_players
          NCards,       \* PCX_SIX_N_CARDS
          HandSize,     \* PCX_SIX_HAND_SIZE
          NRows,        \* PCX_SIX_N_ROWS
          RowSize,      \* PCX_SIX_ROW_SIZE
          EndPoints,    \* PCX_SIX_END_POINTS
          BullHeads     \* card_bull_heads

Players == 0 .. NPlayers - 1
Cards == 0 .. NCards - 1
Rows == 0 .. NRows - 1
None == -1

\* There are enough cards for a deal, and too many in a deal for the rows: somebody
\* takes a row in every deal, and it costs something.
Setup == /\ {NPlayers, NCards, HandSize, NRows, RowSize} \subseteq Nat \ {0}
         /\ BullHeads \in [Cards -> Nat \ {0}]
         /\ NPlayers * HandSize + NRows <= NCards
         /\ NPlayers * HandSize + NRows > NRows * RowSize

\* A record of struct pcx_six: the hands, the chosen cards (None where
\* card_chosen_mask has no bit), the rows, the players of reveal_order who have
\* not placed their card yet, whether placement_timer_source is armed, the player
\* who chooses a row, the scores; ending is game_over_source.
VARIABLE game

Table == [hand: [Players -> SUBSET Cards], chosen: [Players -> Cards \cup {None}],
          rows: [Rows -> Seq(Cards)], order: Seq(Players), placing: BOOLEAN,
          choosing: Players \cup {None}, score: [Players -> Nat],
          round: [Players -> Nat], ending: BOOLEAN, over: BOOLEAN]

--------------------------------------------------------------------------
(* Cards and rows *)

RowScore(row) == MapThenSumSet(LAMBDA i : BullHeads[row[i]], DOMAIN row)

RowTop(row) == row[Len(row)]

\* The rows that a card fits; the one with the highest top gets it.
RowsFor(card) == {r \in Rows : RowTop(game.rows[r]) < card}
RowForCard(card) == CHOOSE r \in RowsFor(card) :
    \A s \in RowsFor(card) : RowTop(game.rows[s]) <= RowTop(game.rows[r])

\* The players from the lowest chosen card to the highest.
RevealOrder(chosen) == CHOOSE order \in [1 .. NPlayers -> Players] :
    \A i, j \in 1 .. NPlayers : i < j => chosen[order[i]] < chosen[order[j]]

\* The tables after a deal: hands that share no card and a card on each row.  The
\* rows are told apart by their cards only, so the lowest goes to the first.
Dealt(score) ==
    UNION {{[hand |-> hand, chosen |-> [p \in Players |-> None],
             rows |-> [r \in Rows |-> <<CHOOSE c \in first :
                          Cardinality({d \in first : d < c}) = r>>],
             order |-> <<>>, placing |-> FALSE, choosing |-> None, score |-> score,
             round |-> [p \in Players |-> 0], ending |-> FALSE, over |-> FALSE] :
              hand \in {h \in [Players -> kSubset(HandSize, Cards \ first)] :
                          \A p, q \in Players : p # q => h[p] \cap h[q] = {}}} :
           first \in kSubset(NRows, Cards)}

Init == game \in Dealt([p \in Players |-> 0])

--------------------------------------------------------------------------
(* Buttons *)

\* play_card: anybody, whenever no card is being placed; a choice may be changed
\* until the last player has made theirs, and then the cards are revealed.
PlayCard(p, card) ==
    /\ card \in game.hand[p]
    /\ ~game.placing
    /\ game.choosing = None
    /\ LET chosen == [game.chosen EXCEPT ![p] = card]
           all == \A q \in Players : chosen[q] # None
       IN game' = [game EXCEPT !.chosen = chosen, !.placing = all,
                               !.order = IF all THEN RevealOrder(chosen) ELSE <<>>]

\* Faulty: nobody goes on after a row was chosen.
PlaceUnarmed(p, row, take) ==
    game' = [game EXCEPT
        !.rows[row] = Append(IF take THEN <<>> ELSE @, game.chosen[p]),
        !.round[p] = IF take THEN @ + RowScore(game.rows[row]) ELSE @,
        !.hand[p] = @ \ {game.chosen[p]},
        !.order = Tail(@), !.choosing = None]

\* The card of player p goes to a row that was taken (points) or has room.
Place(p, row, take) ==
    game' = [game EXCEPT
        !.rows[row] = Append(IF take THEN <<>> ELSE @, game.chosen[p]),
        !.round[p] = IF take THEN @ + RowScore(game.rows[row]) ELSE @,
        !.hand[p] = @ \ {game.chosen[p]},
        !.order = Tail(@), !.choosing = None, !.placing = TRUE]

\* choose_row
ChooseRow(p, row) ==
    /\ game.choosing = p
    /\ Place(p, row, TRUE)

--------------------------------------------------------------------------
(* Timers *)

\* start_round without cards: show_round_end, and another deal or the end.
EndOfDeal(score) ==
    IF \E p \in Players : score[p] >= EndPoints
    THEN game' = [game EXCEPT !.score = score, !.round = [p \in Players |-> 0],
                              !.chosen = [p \in Players |-> None],
                              !.placing = FALSE, !.ending = TRUE]
    ELSE game' \in Dealt(score)

StartRound ==
    IF \A p \in Players : game.hand[p] = {}
    THEN EndOfDeal([p \in Players |-> game.score[p] + game.round[p]])
    ELSE game' = [game EXCEPT !.chosen = [p \in Players |-> None],
                              !.placing = FALSE]

\* placement_timer_cb
PlacementTimer ==
    /\ game.placing
    /\ IF game.order = <<>>
       THEN StartRound
       ELSE LET p == Head(game.order)
                card == game.chosen[p]
                row == RowForCard(card)
            IN IF RowsFor(card) = {}
               THEN game' = [game EXCEPT !.placing = FALSE, !.choosing = p]
               ELSE Place(p, row, Len(game.rows[row]) >= RowSize)

\* game_over_cb: the conversation frees the game.
GameOver ==
    /\ game.ending
    /\ game' = [game EXCEPT !.ending = FALSE, !.over = TRUE]

Timers == PlacementTimer \/ (GameOver /\ ~game.placing)

\* handle_callback_data_cb
Press(p) ==
    /\ ~game.over
    /\ \/ \E card \in Cards : PlayCard(p, card)
       \/ \E row \in Rows : ChooseRow(p, row)

Next == Timers \/ \E p \in Players : Press(p)

--------------------------------------------------------------------------
(* Properties *)

TypeOK == game \in Table

\* No card is in two places; a row is never empty or too long, and it ascends.
CardsOnce ==
    /\ \A p, q \in Players : p # q => game.hand[p] \cap game.hand[q] = {}
    /\ \A r \in Rows :
          /\ Len(game.rows[r]) \in 1 .. RowSize
          /\ \A i, j \in DOMAIN game.rows[r] : i < j => game.rows[r][i] < game.rows[r][j]
          /\ \A i \in DOMAIN game.rows[r] :
                /\ \A p \in Players : game.rows[r][i] \notin game.hand[p]
                /\ \A s \in Rows \ {r} : \A j \in DOMAIN game.rows[s] :
                      game.rows[r][i] # game.rows[s][j]

\* Between the reveal and the last placement the players who are to place a card are
\* those with one card more, they still hold the card that they chose, and they
\* place in the order of their cards; otherwise all hands are the same size.
InTurn ==
    /\ \E n \in 0 .. HandSize : \A p \in Players :
          Cardinality(game.hand[p]) = IF p \in Range(game.order) THEN n + 1 ELSE n
    /\ \A i, j \in DOMAIN game.order :
          i < j => game.chosen[game.order[i]] < game.chosen[game.order[j]]
    /\ \A i \in DOMAIN game.order :
          game.chosen[game.order[i]] \in game.hand[game.order[i]]
    /\ game.choosing # None => game.order # <<>> /\ game.choosing = Head(game.order)

\* Who is asked answers: a card before the reveal, a row when no row fits their card.
HasChosen(p) == game.chosen[p] # None \/ game.ending \/ game.over
RowIsChosen == game.choosing = None

Spec == /\ Init /\ [][Next]_game /\ WF_game(Timers)
        /\ []<>RowIsChosen /\ \A p \in Players : []<>HasChosen(p)

\* When everybody answers, somebody reaches the last point and the game ends.
GameEnds == <>game.over
===========================================================================
