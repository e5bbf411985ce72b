------------------------------- MODULE Fox -------------------------------
(***************************************************************************)
(* pcx-fox.c: tricks of two cards.  A 3 lets its player exchange a card    *)
(* with the trump, a 5 draw one and put one under the deck; until that is  *)
(* answered (resolving_card) nothing is played.  The order of the deck is  *)
(* decided as it is drawn: fresh is what nobody has seen, bottom what was  *)
(* put under it.                                                           *)
(***************************************************************************)
EXTENDS Integers, Sequences, FiniteSets, FiniteSetsExt, SequencesExt

CONSTANTS Packs,      \* sets of cards to play with (PCX_FOX_N_CARDS: all of them)
          HandSize,   \* PCX_FOX_HAND_SIZE
          EndPoints   \* PCX_FOX_END_POINTS

LoseButLead == 1   Exchange == 3   Draw == 5   Point == 7
BecomeTrump == 9   ForceBestCard == 11

Players == {0, 1}
Cards == UNION Packs
Other(p) == 1 - p

\* Packs are finite, a deal is one of some cards, and at least one card is left of a pack
\* when both hands and the trump are dealt.
Setup == /\ \A pack \in Packs : /\ IsFiniteSet(pack)
                                 /\ Cardinality(pack) >= 2 * HandSize + 2
         /\ HandSize \in Nat \ {0}

\* A card is made of its suit and its value.
Suit(card) == card[1]
Value(card) == card[2]

\* A record of struct pcx_fox; nHand is n_cards_in_hand, played are the cards of the
\* trick, ending is game_over_source.  aborted: an assertion has failed.
VARIABLE game

Table == [pack: Packs, hand: [Players -> SUBSET Cards], nHand: Nat,
          fresh: SUBSET Cards, bottom: Seq(Cards), dealer: Players, leader: Players,
          played: Seq(Cards), resolving: BOOLEAN, trump: Cards,
          score: [Players -> Nat], tricks: [Players -> Nat],
          ending: BOOLEAN, over: BOOLEAN, aborted: BOOLEAN]

--------------------------------------------------------------------------
(* Rounds *)

\* deal: hands, a trump and the rest, and the other one leads.
Deals == [pack \in Packs |->
    UNION {UNION {{[pack |-> pack, hand |-> <<a, b>>, trump |-> t,
                    fresh |-> pack \ (a \cup b \cup {t})] :
                      t \in pack \ (a \cup b)} :
                  b \in kSubset(HandSize, pack \ a)} :
           a \in kSubset(HandSize, pack)}]

Dealt(pack, dealer, score) ==
    {[pack |-> pack, hand |-> [p \in Players |-> d.hand[p + 1]], nHand |-> HandSize,
      fresh |-> d.fresh, bottom |-> <<>>, dealer |-> Other(dealer),
      leader |-> Other(dealer), played |-> <<>>, resolving |-> FALSE,
      trump |-> d.trump, score |-> score, tricks |-> [p \in Players |-> 0],
      ending |-> FALSE, over |-> FALSE, aborted |-> FALSE] : d \in Deals[pack]}

\* pcx_fox_new
Init == \E pack \in Packs, p \in Players :
            game \in Dealt(pack, p, [q \in Players |-> 0])

PointsForTricks(n) ==
    CASE n <= 3 -> 6 [] n \in 4 .. 6 -> n - 3 [] n \in 7 .. 9 -> 6 [] OTHER -> 0

\* start_round: show_round_end when the hands are empty.  At the end of the game the
\* cards of the last trick stay where they are.
StartRound(g) ==
    IF g.nHand > 0 THEN {[g EXCEPT !.played = <<>>]}
    ELSE UNION {IF \E p \in Players : score[p] >= EndPoints
                THEN {[g EXCEPT !.score = score, !.ending = TRUE,
                                !.tricks = [p \in Players |-> 0]]}
                ELSE Dealt(g.pack, g.dealer, score) :
                  score \in {[p \in Players |->
                                g.score[p] + PointsForTricks(g.tricks[p])]}}

--------------------------------------------------------------------------
(* Tricks *)

\* get_playable_cards: the suit is followed, and an 11 asks for the best card of it
\* or for the 1.
Playable(p) ==
    LET hand == game.hand[p]
        led == game.played[1]
        follow == {c \in hand : Suit(c) = Suit(led)}
    IN IF p = game.leader \/ follow = {} THEN hand
       ELSE IF Value(led) # ForceBestCard THEN follow
       ELSE {c \in follow : Value(c) = 1 \/ \A d \in follow : Value(d) <= Value(c)}

\* get_trick_winner: a single 9 counts as a trump.
Trick(g) ==
    LET single == Cardinality({i \in {1, 2} : Value(g.played[i]) = BecomeTrump}) = 1
        SuitOf(c) == IF single /\ Value(c) = BecomeTrump THEN Suit(g.trump) ELSE Suit(c)
        Score(c) == Value(c) + (IF SuitOf(c) = Suit(g.trump) THEN 1000 ELSE 0)
                             + (IF SuitOf(c) = Suit(g.played[1]) THEN 100 ELSE 0)
    IN IF Score(g.played[2]) > Score(g.played[1]) THEN Other(g.leader) ELSE g.leader

\* end_card_play: the follower is asked, or the trick is won.  Who lost with a 1 leads.
EndCardPlay(g) ==
    IF Len(g.played) < 2 THEN {g}
    ELSE UNION {
        LET losing == g.played[IF winner = g.leader THEN 2 ELSE 1]
            sevens == Cardinality({i \in {1, 2} : Value(g.played[i]) = Point})
        IN StartRound([g EXCEPT
              !.tricks[winner] = @ + 1, !.score[winner] = @ + sevens,
              !.leader = IF Value(losing) = LoseButLead THEN Other(winner) ELSE winner,
              !.nHand = @ - 1]) : winner \in {Trick(g)}}

--------------------------------------------------------------------------
(* Buttons *)

\* get_next_card_player, which asserts that there is one; get_last_card_player
NextPlayer == IF Len(game.played) = 0 THEN game.leader ELSE Other(game.leader)
LastPlayer == IF Len(game.played) = 1 THEN game.leader ELSE Other(game.leader)

Running == ~game.over /\ ~game.aborted

\* show_draw_question draws, and asserts that there is a card.
Drawn(g, p) ==
    IF g.fresh # {} THEN {[g EXCEPT !.fresh = @ \ {c}, !.hand[p] = @ \cup {c}] : c \in g.fresh}
    ELSE IF g.bottom # <<>>
    THEN {[g EXCEPT !.bottom = Tail(@), !.hand[p] = @ \cup {Head(g.bottom)}]}
    ELSE {[g EXCEPT !.aborted = TRUE]}

\* play_card and show_card_play: the 3 and the 5 are resolved first, except when they
\* were the last card.
PlayCard(p, card) ==
    /\ Running /\ ~game.resolving /\ Len(game.played) < 2 /\ p = NextPlayer
    /\ card \in Playable(p)
    /\ \E g \in {[game EXCEPT !.hand[p] = @ \ {card}, !.played = Append(@, card),
                              !.resolving = Value(card) \in {Exchange, Draw}
                                              /\ game.nHand > 1]} :
         \/ ~g.resolving /\ game' \in EndCardPlay(g)
         \/ g.resolving /\ Value(card) = Exchange /\ game' = g
         \/ g.resolving /\ Value(card) = Draw /\ game' \in Drawn(g, p)

\* The assertion of get_next_card_player: both cards of the trick are on the table.
PlayTooLate ==
    /\ Running /\ ~game.resolving /\ Len(game.played) = 2
    /\ game' = [game EXCEPT !.aborted = TRUE]

Resolves(p, value) == /\ Running /\ game.resolving /\ p = LastPlayer
                      /\ Value(Last(game.played)) = value

\* discard_card
DiscardCard(p, card) ==
    /\ Resolves(p, Draw) /\ card \in game.hand[p]
    /\ \E g \in {[game EXCEPT !.resolving = FALSE, !.hand[p] = @ \ {card},
                              !.bottom = Append(@, card)]} :
         game' \in EndCardPlay(g)

\* exchange_card: with the trump itself nothing is exchanged.
ExchangeCard(p, card) ==
    /\ Resolves(p, Exchange) /\ card \in game.hand[p] \cup {game.trump}
    /\ \E g \in {[game EXCEPT !.resolving = FALSE, !.trump = card,
                              !.hand[p] = (@ \cup {game.trump}) \ {card}]} :
         game' \in EndCardPlay(g)

Press(p) ==
    \/ \E card \in game.pack : PlayCard(p, card) \/ DiscardCard(p, card)
                                  \/ ExchangeCard(p, card)
    \/ PlayTooLate

\* game_over_cb
Timers == /\ game.ending /\ ~game.aborted
          /\ game' = [game EXCEPT !.ending = FALSE, !.over = TRUE]

Next == Timers \/ \E p \in Players : Press(p)

\* Somebody goes on as long as there is a game: NeverStuck shows that this is the weak
\* fairness of Next.
Finished == game.over \/ game.aborted
GoesOn == []<>Finished \/ []<><<TRUE>>_game

Spec == Init /\ [][Next]_game /\ GoesOn

--------------------------------------------------------------------------
(* Properties *)

TypeOK == game \in Table

Playing == ~game.ending /\ ~game.over

\* No card is in two places, and the cards that are gone are those of the tricks.
CardsOnce == Playing =>
    LET places == <<game.hand[0], game.hand[1], game.fresh, Range(game.bottom),
                    Range(game.played), {game.trump}>>
    IN /\ \A i, j \in DOMAIN places : i # j => places[i] \cap places[j] = {}
       /\ MapThenSumSet(LAMBDA i : Cardinality(places[i]), DOMAIN places)
            + 2 * (game.tricks[0] + game.tricks[1]) = Cardinality(game.pack)

\* The counter is right about both hands in the middle of every trick, so a player who
\* is asked always has something to answer with.
HandsMatch == Playing =>
    /\ game.nHand > 0
    /\ \A p \in Players : Cardinality(game.hand[p]) =
         game.nHand - (IF Len(game.played) > 0 /\ (p = game.leader \/ Len(game.played) = 2)
                       THEN 1 ELSE 0)
                    + (IF game.resolving /\ p = LastPlayer
                          /\ Value(Last(game.played)) = Draw THEN 1 ELSE 0)
    /\ game.resolving => Value(Last(game.played)) \in {Exchange, Draw}
                           /\ game.hand[LastPlayer] # {}

\* The assertions of get_next_card_player and show_draw_question, as long as the game is
\* played: two cards of a trick are never left lying, and a 5 always finds a card to draw.
NeverStuck == Playing => (game.resolving \/ Len(game.played) < 2) /\ ~game.aborted

GameEnds == <>Finished
===========================================================================
