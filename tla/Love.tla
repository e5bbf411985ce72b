------------------------------- MODULE Love -------------------------------
(***************************************************************************)
(* pcx-love.c: the current player holds a card and the one that was just   *)
(* drawn (pending_card), discards one of them, and what it does is done.   *)
(* The order of the deck is decided as it is drawn.  A character is its    *)
(* value; the discard piles are bags.  The questions for a target and a    *)
(* guess keep no state, so a button carries the whole answer.              *)
(***************************************************************************)
EXTENDS Integers, FiniteSets, FiniteSetsExt

CONSTANTS NPlayers,   \* n_players
          NHearts,    \* PCX_LOVE_N_HEARTS
          NVisible,   \* PCX_LOVE_N_VISIBLE_CARDS
          PileSize,   \* the size of discarded_cards
          Decks,      \* the copies of each character, for some decks
          LateMax     \* bound: presses between the end and game_over_cb

Guard == 1      Spy == 2     Baron == 3       Handmaid == 4
Prince == 5     King == 6    Comtesse == 7    Princess == 8
Characters == 1 .. 8
Players == 0 .. NPlayers - 1
None == -1

Bags == [Characters -> Nat]

\* Somebody to play against, and decks that are bags of characters.
Setup == /\ {NPlayers, NHearts, NVisible, LateMax} \subseteq Nat
         /\ NPlayers > 1
         /\ Decks \subseteq Bags

\* A record of struct pcx_love: the deck and its copies as bags, the cards of the
\* players and their piles, who is alive and who is protected.  ending is
\* game_over_source; late counts the presses since.
VARIABLE game

Table == [copies: Bags, deck: Bags, visible: Bags, aside: Characters \cup {None},
          pending: Characters, card: [Players -> Characters \cup {None}],
          pile: [Players -> Bags], hearts: [Players -> Nat],
          alive: SUBSET Players, protected: SUBSET Players, current: Players,
          ending: BOOLEAN, over: BOOLEAN, late: 0 .. LateMax]

Size(bag) == MapThenSumSet(LAMBDA c : bag[c], Characters)

--------------------------------------------------------------------------
(* Rounds *)

\* take_card: any card that is left.
Left(g) == {c \in Characters : g.deck[c] > 0}
Taken(g, c) == [g EXCEPT !.deck[c] = @ - 1]

\* get_player_score
Score(g, p) == g.card[p] * 256 + MapThenSumSet(LAMBDA c : c * g.pile[p][c], Characters)

\* get_highest_scoring_player: the first of the best who are alive.
Highest(g) ==
    IF g.alive = {} THEN 0
    ELSE CHOOSE p \in g.alive : \A q \in g.alive :
            \/ Score(g, q) < Score(g, p)
            \/ Score(g, q) = Score(g, p) /\ p <= q

\* get_winner
Winner(g) ==
    IF Size(g.deck) = 0 THEN Highest(g)
    ELSE IF Cardinality(g.alive) > 1 THEN None
    ELSE IF g.alive = {} THEN 0 ELSE CHOOSE p \in g.alive : TRUE

\* The part of take_turn without a winner: the player draws and is exposed.
Drawn(g) == {[Taken(g, c) EXCEPT !.pending = c, !.protected = @ \ {g.current}] :
                c \in Left(g)}

\* start_round, for every deck: a deal is the sequence of the cards that are taken
\* (the hands, the one set aside, the visible ones), and somebody draws.
NDealt == NPlayers + 1 + (IF NPlayers = 2 THEN NVisible ELSE 0)
Deals(copies) ==
    {s \in [0 .. NDealt - 1 -> {c \in Characters : copies[c] > 0}] :
        \A c \in Characters : Cardinality({i \in DOMAIN s : s[i] = c}) <= copies[c]}
Count(s, I) == [c \in Characters |-> Cardinality({i \in I : s[i] = c})]
NoCards == [c \in Characters |-> 0]

NewRounds == [copies \in Decks |->
    UNION {Drawn([copies |-> copies,
                  deck |-> [c \in Characters |-> copies[c] - Count(s, DOMAIN s)[c]],
                  visible |-> Count(s, NPlayers + 1 .. NDealt - 1),
                  aside |-> s[NPlayers], pending |-> Guard,
                  card |-> [p \in Players |-> s[p]],
                  pile |-> [p \in Players |-> NoCards],
                  hearts |-> [p \in Players |-> 0], alive |-> Players,
                  protected |-> {}, current |-> 0,
                  ending |-> FALSE, over |-> FALSE, late |-> 0]) :
           s \in Deals(copies)}]

Rounds(copies, hearts, current) ==
    {[r EXCEPT !.hearts = hearts, !.current = current] : r \in NewRounds[copies]}

\* create_game_cb
Init == \E copies \in Decks, p \in Players :
            game \in Rounds(copies, [q \in Players |-> 0], p)

\* take_turn: the games that may follow.  A won round is a heart, and the last heart
\* is the end of the game; the winner opens the next round.
RoundWon(g, w) ==
    IF g.hearts[w] > NHearts \div NPlayers THEN {[g EXCEPT !.ending = TRUE]}
                                           ELSE Rounds(g.copies, g.hearts, w)
TakeTurn(g) ==
    UNION {IF w = None THEN Drawn(g)
           ELSE UNION {RoundWon(h, w) : h \in {[g EXCEPT !.hearts[w] = @ + 1]}} :
              w \in {Winner(g)}}

--------------------------------------------------------------------------
(* Discarding *)

\* can_discard
CanDiscard(card) ==
    LET held == {game.card[game.current], game.pending}
    IN card \in held /\ (card \in {King, Prince} => Comtesse \notin held)

\* get_targets; the prince may also be used on oneself.
Targets(card) ==
    ((game.alive \ game.protected) \ {game.current})
        \cup (IF card = Prince THEN {game.current} ELSE {})

\* add_to_discard_pile, start_discard and kill_player.
Piled(g, p, card) == [g EXCEPT !.pile[p][card] = @ + 1]
Started(g, card) ==
    Piled([g EXCEPT !.card[g.current] = IF card = g.pending THEN @ ELSE g.pending],
          g.current, card)
Killed(g, p) == [Piled(g, p, g.card[p]) EXCEPT !.card[p] = None, !.alive = @ \ {p}]

\* finish_discard: the turn of the next player who is alive.
NextPlayers(g) ==
    {p \in Players : \E n \in 1 .. NPlayers :
        /\ p = (g.current + n) % NPlayers
        /\ n = NPlayers \/ p \in g.alive
        /\ \A i \in 1 .. n - 1 : (g.current + i) % NPlayers \notin g.alive}
Finished(g) == UNION {TakeTurn(h) : h \in {[g EXCEPT !.current = p] : p \in NextPlayers(g)}}

\* discard_guard: a right guess kills.
Guess(g, target, guess) ==
    IF g.card[target] = guess THEN Started(Killed(g, target), Guard)
                              ELSE Started(g, Guard)

\* discard_baron: the lower card dies.
Compare(g, target) ==
    LET h == Started(g, Baron)
        mine == h.card[g.current]
        other == h.card[target]
    IN IF mine = other THEN h
       ELSE Killed(h, IF mine > other THEN target ELSE g.current)

\* discard_prince: the target's card is replaced from the deck or by the card that
\* was set aside.  The card is NULL when that one is gone too: SetAsideIsThere says that
\* this is never so in a turn, and a late press then has no outcome here.
Replace(g, target) ==
    LET h == Started(g, Prince)
        old == h.card[target]
        replaced == IF Size(h.deck) > 0
                    THEN {[Taken(h, c) EXCEPT !.card[target] = c] : c \in Left(h)}
                    ELSE {[h EXCEPT !.card[target] = h.aside, !.aside = None] :
                              c \in {h.aside} \ {None}}
    IN {IF old = Princess THEN Killed(Piled(r, target, old), target)
                          ELSE Piled(r, target, old) : r \in replaced}

\* discard_king
Exchange(g, target) ==
    LET h == Started(g, King)
    IN [h EXCEPT !.card[g.current] = h.card[target], !.card[target] = h.card[g.current]]

\* What the discarded card does with its target: the games before finish_discard.
Effects(g, card, target, guess) ==
    CASE card = Guard    -> {Guess(g, target, guess)}
      [] card = Baron    -> {Compare(g, target)}
      [] card = Prince   -> Replace(g, target)
      [] card = King     -> {Exchange(g, target)}
      [] card = Handmaid -> {Started([g EXCEPT !.protected = @ \cup {g.current}], card)}
      [] card = Princess -> {Killed(Started(g, card), g.current)}
      [] OTHER           -> {Started(g, card)}

\* A press of the current player, also when the game is about to end.
Pressed == [game EXCEPT !.late = IF game.ending THEN @ + 1 ELSE 0]
Ready(p, card) ==
    /\ ~game.over /\ game.late < LateMax + (IF game.ending THEN 0 ELSE 1)
    /\ p = game.current /\ CanDiscard(card)

\* A card that needs a target, when everybody is protected.
DiscardInVain(p, card) ==
    /\ card \in {Guard, Spy, Baron, King} /\ Ready(p, card) /\ Targets(card) = {}
    /\ game' \in Finished(Started(Pressed, card))

DiscardAt(p, card, target, guess) ==
    /\ card \in {Guard, Spy, Baron, King, Prince} /\ Ready(p, card)
    /\ target \in Targets(card)
    /\ guess = Guard <=> card # Guard
    /\ game' \in UNION {Finished(h) : h \in Effects(Pressed, card, target, guess)}

Discard(p, card) ==
    /\ card \in {Handmaid, Comtesse, Princess} /\ Ready(p, card)
    /\ game' \in UNION {Finished(h) : h \in Effects(Pressed, card, p, Guard)}

Press(p) ==
    \E card \in Characters :
        \/ DiscardInVain(p, card)
        \/ \E target \in Players, guess \in Characters : DiscardAt(p, card, target, guess)
        \/ Discard(p, card)

\* game_over_cb
Timers == game.ending /\ game' = [game EXCEPT !.ending = FALSE, !.over = TRUE]

Next == Timers \/ \E p \in Players : Press(p)

\* Somebody goes on as long as the game is not over: NeverStuck shows that there is
\* always something to do, so this is the weak fairness of Next.
GoesOn == []<>game.over \/ []<><<TRUE>>_game

Spec == Init /\ [][Next]_game /\ GoesOn

--------------------------------------------------------------------------
(* Properties *)

TypeOK == game \in Table

Playing == ~game.ending /\ ~game.over

\* Every card of the deck is in one place, as long as there is a turn to take.
CardsConserved == Playing => \A c \in Characters :
    game.copies[c] = game.deck[c] + game.visible[c]
        + (IF game.aside = c THEN 1 ELSE 0) + (IF game.pending = c THEN 1 ELSE 0)
        + Cardinality({p \in Players : game.card[p] = c})
        + MapThenSumSet(LAMBDA p : game.pile[p][c], Players)

\* The player whose turn it is is alive and exposed, somebody else is alive too, and
\* exactly the living hold a card.
TurnIsSound == Playing =>
    /\ game.current \in game.alive \ game.protected
    /\ Cardinality(game.alive) > 1
    /\ game.alive = {p \in Players : game.card[p] # None}

\* The assertion of add_to_discard_pile.
PilesFit == Playing => \A p \in Players : Size(game.pile[p]) <= PileSize

\* Whoever has to discard can: never a king or a prince beside two comtesses
\* (can_discard).
NeverStuck == Playing => \E card \in Characters : CanDiscard(card)

\* A prince always finds a card.
SetAsideIsThere == Playing => game.aside # None

GameEnds == <>game.over
===========================================================================
