------------------------------ MODULE Snitch ------------------------------
(***************************************************************************)
(* pcx-snitch.c: in every round a player chooses how big the heist is, the *)
(* roles it needs are drawn, and everybody plays a card in secret, which   *)
(* they may change until the last one has played.  Cards are bags over the *)
(* roles; the order of the deck is decided as it is drawn.                 *)
(***************************************************************************)
EXTENDS Integers, FiniteSets, FiniteSetsExt

CONSTANTS NPlayers,       \* n_players
          NBaseRoles,     \* PCX_SNITCH_N_BASE_ROLES
          CardsPerRole,   \* PCX_SNITCH_N_CARDS_PER_BASE_ROLE
          BaseCards,      \* PCX_SNITCH_N_BASE_CARDS_PER_PLAYER
          Snitches,       \* PCX_SNITCH_N_SNITCHES_PER_PLAYER
          NRounds,        \* PCX_SNITCH_N_ROUNDS
          LateMax         \* bound: cards played between the end and game_over_cb

MinHeistSize == 2

Players == 0 .. NPlayers - 1
Base == 1 .. NBaseRoles
Snitch == NBaseRoles + 1
Roles == Base \cup {Snitch}
None == -1

\* There are rounds for the cards, and cards for every heist.
Setup == /\ {NPlayers, NBaseRoles, CardsPerRole, BaseCards, Snitches, NRounds, LateMax}
              \subseteq Nat
         /\ NPlayers > 0
         /\ NRounds <= BaseCards + Snitches
         /\ NPlayers * BaseCards + NPlayers <= NBaseRoles * CardsPerRole

\* A record of struct pcx_snitch; ending is game_over_source, aborted a failed
\* assertion, late counts the cards played since the end.
VARIABLE game

BaseBags == [Base -> Nat]
Table == [deck: BaseBags, discarded: BaseBags, heist: BaseBags,
          size: {None} \cup MinHeistSize .. NPlayers, cards: [Players -> [Roles -> Nat]],
          chosen: [Players -> Roles \cup {None}], coins: [Players -> Int],
          round: Nat, first: Players, ending: BOOLEAN, over: BOOLEAN,
          aborted: BOOLEAN, late: 0 .. LateMax]

Size(bag) == MapThenSumSet(LAMBDA r : bag[r], DOMAIN bag)
Plus(a, b) == [r \in Base |-> a[r] + b[r]]
Minus(a, b) == [r \in Base |-> a[r] - b[r]]
Empty == [r \in Base |-> 0]
Picks(bag, n) ==
    {pick \in [Base -> 0 .. n] : Size(pick) = n /\ \A r \in Base : pick[r] <= bag[r]}

--------------------------------------------------------------------------
(* Rounds *)

\* create_game_cb
Hands == {h \in [Players -> Picks([r \in Base |-> CardsPerRole], BaseCards)] :
            \A r \in Base : MapThenSumSet(LAMBDA p : h[p][r], Players) <= CardsPerRole}
Init ==
    \E h \in Hands, p \in Players :
        game = [deck |-> [r \in Base |->
                    CardsPerRole - MapThenSumSet(LAMBDA q : h[q][r], Players)],
                discarded |-> Empty, heist |-> Empty, size |-> None,
                cards |-> [q \in Players |-> [r \in Roles |->
                    IF r = Snitch THEN Snitches ELSE h[q][r]]],
                chosen |-> [q \in Players |-> None], coins |-> [q \in Players |-> 3],
                round |-> 0, first |-> p, ending |-> FALSE, over |-> FALSE,
                aborted |-> FALSE, late |-> 0]

\* get_current_player
Current == (game.first + game.round) % NPlayers

\* take_card, n times: what is drawn, and what is left.  When the deck is empty the
\* discarded cards become the deck.
Draws(n) ==
    IF n <= Size(game.deck)
    THEN {[drawn |-> b, deck |-> Minus(game.deck, b), discarded |-> game.discarded] :
             b \in Picks(game.deck, n)}
    ELSE {[drawn |-> Plus(game.deck, b), deck |-> Minus(game.discarded, b),
           discarded |-> Empty] :
             b \in Picks(game.discarded, n - Size(game.deck))}

Running == ~game.over /\ ~game.aborted

\* handle_set_heist_size
SetHeistSize(p, n) ==
    /\ Running /\ game.size = None /\ p = Current
    /\ \E d \in Draws(n) :
         game' = [game EXCEPT !.size = n, !.heist = d.drawn, !.deck = d.deck,
                              !.discarded = d.discarded,
                              !.chosen = [q \in Players |-> None]]

--------------------------------------------------------------------------
(* The heist *)

Playing(g, r) == {p \in Players : g.chosen[p] = r}
Loyal(g) == Players \ Playing(g, Snitch)

\* is_heist_successful, handle_successful_heist and handle_failed_heist: the snitches
\* share a coin of each of the others, rounded up.
Successful(g) == \A r \in Base : Cardinality(Playing(g, r)) >= g.heist[r]
Coins(g) ==
    LET loot == Cardinality(Loyal(g))
        n == NPlayers - loot
        split == IF n = 0 THEN loot ELSE (loot + n - 1) \div n
    IN [p \in Players |-> g.coins[p] +
          IF Successful(g) THEN (IF p \in Loyal(g) THEN g.size ELSE 0)
                           ELSE (IF p \in Loyal(g) THEN -1 ELSE split)]

\* Faulty: the cards of the heist are on no pile.
DiscardedByPlayers(g) ==
    [g EXCEPT !.cards = [p \in Players |-> [g.cards[p] EXCEPT ![g.chosen[p]] = @ - 1]],
              !.discarded = [r \in Base |-> @[r] + Cardinality(Playing(g, r))]]

\* discard_cards, which asserts that everybody has the card that they chose.
Discarded(g) ==
    [g EXCEPT !.cards = [p \in Players |-> [g.cards[p] EXCEPT ![g.chosen[p]] = @ - 1]],
              !.discarded = [r \in Base |->
                   @[r] + Cardinality(Playing(g, r)) + g.heist[r]]]

\* end_round, and start_round or end_game
EndRound(g) ==
    IF \E p \in Players : g.cards[p][g.chosen[p]] = 0
    THEN [g EXCEPT !.aborted = TRUE]
    ELSE LET h == [Discarded(g) EXCEPT !.round = @ + 1, !.coins = Coins(g)]
         IN IF h.round >= NRounds
            THEN [h EXCEPT !.ending = TRUE]
            ELSE [h EXCEPT !.size = None, !.chosen = [p \in Players |-> None]]

\* handle_choose_card; nothing stops a card after the last round.
ChooseCard(p, role) ==
    /\ Running /\ (game.ending => game.late < LateMax)
    /\ game.size # None
    /\ game.cards[p][role] > 0
    /\ \E g \in {[game EXCEPT !.chosen[p] = role,
                              !.late = IF game.ending THEN @ + 1 ELSE 0]} :
         game' = IF \A q \in Players : g.chosen[q] # None THEN EndRound(g) ELSE g

Press(p) ==
    \/ \E n \in MinHeistSize .. NPlayers : SetHeistSize(p, n)
    \/ \E role \in Roles : ChooseCard(p, role)

\* game_over_cb
Timers == /\ game.ending /\ ~game.aborted
          /\ game' = [game EXCEPT !.ending = FALSE, !.over = TRUE]

Next == Timers \/ \E p \in Players : Press(p)

\* Nobody is waited for for ever: for the size of a heist, or for the card of a player.
Finished == game.over \/ game.aborted
SizeIsChosen == game.size # None \/ Finished
HasChosen(p) == game.size = None \/ game.chosen[p] # None \/ Finished
Answered == /\ []<>SizeIsChosen /\ \A p \in Players : []<>HasChosen(p)
            /\ []<>~game.ending

Spec == Init /\ [][Next]_game /\ Answered

--------------------------------------------------------------------------
(* Properties *)

TypeOK == game \in Table

Going == ~game.ending /\ ~game.over

\* Every card of a role is in the deck, discarded, in a hand, or needed by the heist
\* that is being planned.
CardsConserved == Going => \A r \in Base :
    game.deck[r] + game.discarded[r] + (IF game.size # None THEN game.heist[r] ELSE 0)
        + MapThenSumSet(LAMBDA p : game.cards[p][r], Players) = CardsPerRole

\* Everybody has a card for every round that is left, and still has the card that
\* they chose (the assertion of discard_cards).
HandsMatch == Going =>
    /\ ~game.aborted
    /\ \A p \in Players :
         /\ Size(game.cards[p]) = BaseCards + Snitches - game.round
         /\ game.chosen[p] # None => game.cards[p][game.chosen[p]] > 0

\* There is a card to draw whenever one is drawn (the assertion of take_card).
DeckSuffices == Going /\ game.size = None =>
    Size(game.deck) + Size(game.discarded) >= NPlayers

GameEnds == <>Finished
===========================================================================
