----------------------------- MODULE Werewolf -----------------------------
(***************************************************************************)
(* pcx-werewolf.c: somebody picks a deck, the roles wake up one after the  *)
(* other and change the cards, and everybody votes.  A phase of the night  *)
(* ends by a timer or by the answer of the player it waits for.  The       *)
(* buttons of an earlier game stay in the chats and still work: one of a   *)
(* game for more players names somebody whom this game has not.            *)
(***************************************************************************)
EXTENDS Integers, FiniteSets, FiniteSetsExt, Sequences

CONSTANTS NPlayers,   \* n_players
          Former,     \* the players of the largest game whose buttons are still there
          Modes       \* the deck modes that are picked, 1 .. 9 (the last is anarchy)

MaxPlayers == 10      \* PCX_WEREWOLF_MAX_PLAYERS
NExtra == 3           \* PCX_WEREWOLF_N_EXTRA_CARDS
NWerewolves == 2      \* PCX_WEREWOLF_N_WEREWOLVES

\* enum pcx_werewolf_role
Villager == 0      Wolf == 1       Minion == 2         Mason == 3
Seer == 4          Robber == 5     Troublemaker == 6   Drunk == 7
Insomniac == 8     Tanner == 9     Hunter == 10
Roles == 0 .. 10

\* current_phase is a role at night.
PickMode == -2     Waiting == -1   Discussion == 11
Nightly == {Wolf, Minion, Mason, Seer, Robber, Troublemaker, Drunk, Insomniac}

Players == 0 .. NPlayers - 1
Records == 0 .. MaxPlayers - 1      \* players[], with room for the largest game
None == -1

\* Whom a button may name: those whom the program itself once put on one.
Places == 0 .. Former - 1

\* PCX_WEREWOLF_MIN_PLAYERS, this game is one of those, and the modes that there are.
Setup == /\ NPlayers \in 3 .. MaxPlayers
         /\ Former \in NPlayers .. MaxPlayers
         /\ Modes \subseteq 1 .. 9

\* A record of struct pcx_werewolf; deck and extra are bags of roles, timer is
\* timeout_source, ending game_over_source.  When an assertion fails (aborted) the process
\* has come to its end.  stray is history: a button has named somebody who is not playing.
VARIABLE game

Bags == [Roles -> Nat]
Teams == {"villagers", "werewolves", "minion", "tanner"}
Table == [phase: PickMode .. Discussion, deck: Bags, extra: Bags,
          card: [Records -> Roles], wakeup: [Players -> Roles],
          first: Records \cup {None}, votes: [Players -> Players],
          voted: SUBSET Players, timer: BOOLEAN, ending: BOOLEAN, over: BOOLEAN,
          aborted: BOOLEAN, stray: BOOLEAN]

Size(bag) == MapThenSumSet(LAMBDA r : bag[r], Roles)
Has(bag) == {r \in Roles : bag[r] > 0}

--------------------------------------------------------------------------
(* Decks *)

\* deck_modes: the players each deck is for, and its roles with the players each of
\* them needs.
Deck(min, max, always, later) ==
    [min |-> min, max |-> max,
     roles |-> [i \in 1 .. Len(always) |-> <<0, always[i]>>] \o later]
DeckModes == <<
    Deck(3, 5, <<Wolf, Wolf, Seer, Robber, Troublemaker>>, <<>>),
    Deck(3, 6, <<Wolf, Wolf, Insomniac, Robber, Troublemaker>>, << <<5, Seer>> >>),
    Deck(3, 4, <<Wolf, Seer, Robber, Troublemaker>>, <<>>),
    Deck(3, 9, <<Wolf, Wolf, Drunk, Robber, Troublemaker, Insomniac>>,
         << <<5, Seer>>, <<8, Minion>>, <<9, Mason>>, <<9, Mason>> >>),
    Deck(4, 7, <<Wolf, Wolf, Hunter, Seer, Robber, Drunk, Insomniac>>,
         << <<5, Troublemaker>> >>),
    Deck(6, 7, <<Wolf, Wolf, Minion, Hunter, Seer, Robber, Troublemaker, Mason, Mason>>,
         <<>>),
    Deck(4, 10, <<Wolf, Wolf, Tanner, Seer, Robber, Drunk, Insomniac>>,
         << <<5, Troublemaker>>, <<7, Mason>>, <<7, Mason>>, <<8, Hunter>>,
            <<9, Minion>> >>),
    Deck(5, 10, <<Wolf, Wolf, Mason, Mason, Minion, Robber, Troublemaker, Insomniac>>,
         << <<6, Drunk>>, <<7, Seer>>, <<10, Tanner>> >>) >>
Anarchy == Len(DeckModes) + 1

NoCards == [r \in Roles |-> 0]
Count(s, r) == Cardinality({i \in DOMAIN s : s[i] = r})

\* make_deck_from_mode; the rest are villagers.
ModeDeck(m, n) ==
    LET roles == DeckModes[m].roles
        named == [r \in Roles |->
                     Cardinality({i \in DOMAIN roles : n >= roles[i][1] /\ roles[i][2] = r})]
    IN [named EXCEPT ![Villager] = (n + NExtra) - Size(named)]

\* make_anarchy_deck: a deck that grows to n cards by roles that are still available.
AddCard(d, r) == [d EXCEPT !.cards[r] = @ + 1, !.available = @ \ {r}]
MasonAdded(d, n) ==
    IF Size(d.cards) + 2 <= n THEN AddCard(AddCard(d, Mason), Mason)
                              ELSE [d EXCEPT !.available = @ \ {Mason}]
InsomniacAdded(d, n) ==
    LET needed == {Robber, Troublemaker}
    IN IF Has(d.cards) \cap needed # {} THEN AddCard(d, Insomniac)
       ELSE IF needed \cap d.available # {} /\ Size(d.cards) + 2 <= n
       THEN AddCard(AddCard(d, Min(needed \cap d.available)), Insomniac)
       ELSE [d EXCEPT !.available = @ \ {Insomniac}]
Grown(d, n) ==
    IF Size(d.cards) >= n \/ d.available = {} THEN {d}
    ELSE {IF r = Mason THEN MasonAdded(d, n)
          ELSE IF r = Insomniac THEN InsomniacAdded(d, n)
          ELSE AddCard(d, r) : r \in d.available}
BaseDeck(n) ==
    [cards |-> [NoCards EXCEPT ![Wolf] = NWerewolves, ![Villager] = Min({3, n - NExtra - 2})],
     available |-> Roles \ {Wolf, Villager}]
GrownDecks(n) ==
    LET steps[k \in 0 .. Cardinality(Roles)] ==
            IF k = 0 THEN {BaseDeck(n)} ELSE UNION {Grown(d, n) : d \in steps[k - 1]}
    IN steps
AnarchyDecks(n) ==
    {[d.cards EXCEPT ![Villager] = @ + n - Size(d.cards)] :
        d \in GrownDecks(n)[Cardinality(Roles)]}

\* handle_mode_cb and deal_roles: the decks that a mode may give n players.
Allowed(m, n) == m = Anarchy \/ n \in DeckModes[m].min .. DeckModes[m].max
DecksOf(m, n) == IF m = Anarchy THEN AnarchyDecks(n + NExtra) ELSE {ModeDeck(m, n)}
Deals(deck) ==
    {cards \in [Players -> Has(deck)] :
        \A r \in Has(deck) : Cardinality({p \in Players : cards[p] = r}) <= deck[r]}

--------------------------------------------------------------------------
(* The night *)

\* pcx_werewolf_new
Init == game = [phase |-> PickMode, deck |-> NoCards, extra |-> NoCards,
                card |-> [p \in Records |-> Villager],
                wakeup |-> [p \in Players |-> Villager], first |-> 0,
                votes |-> [p \in Players |-> 0], voted |-> {}, timer |-> FALSE,
                ending |-> FALSE, over |-> FALSE, aborted |-> FALSE, stray |-> FALSE]

Running == ~game.over /\ ~game.aborted

\* The phase_cb of each role: who is asked.  A lone werewolf is, a pack is not.
Awake(g, r) == {p \in Players : g.wakeup[p] = r}
Awaited(g) ==
    IF \/ g.phase = Wolf /\ Cardinality(Awake(g, Wolf)) = 1
       \/ g.phase \in {Seer, Robber, Troublemaker, Drunk}
    THEN Awake(g, g.phase) ELSE {}

\* start_next_phase: the next role of the deck that has a phase, or the discussion.
\* Every phase that asks nobody is given a timer.
NextPhase(g) ==
    LET later == {r \in Nightly : r > g.phase /\ g.deck[r] > 0}
        h == [g EXCEPT !.phase = IF later = {} THEN Discussion ELSE Min(later),
                       !.first = IF later # {} /\ Min(later) = Troublemaker THEN None ELSE @]
    IN [h EXCEPT !.timer = @ \/ Awaited(h) = {}]

\* handle_mode_cb and deal_roles
HandleMode(m) ==
    /\ game.phase = PickMode /\ Running
    /\ Allowed(m, NPlayers)
    /\ \E deck \in DecksOf(m, NPlayers) : \E cards \in Deals(deck) :
         game' = [game EXCEPT !.phase = Waiting, !.timer = TRUE, !.deck = deck,
                     !.card = [p \in Records |-> IF p \in Players THEN cards[p] ELSE game.card[p]],
                     !.wakeup = cards,
                     !.extra = [r \in Roles |->
                         deck[r] - Cardinality({p \in Players : cards[p] = r})]]

Asked(p, r) == /\ game.phase = r /\ game.wakeup[p] = r /\ Running

Named(g, target) == [g EXCEPT !.stray = @ \/ target \notin Players]

\* handle_see_cb and handle_wolf_see_cb: one looks at two cards of the table, or at one of
\* somebody.  A record of nobody is a villager without a name, for the message.
See(p) == /\ Asked(p, Seer)
          /\ \/ game' = NextPhase(game)
             \/ \E target \in Places \ {p} : game' = NextPhase(Named(game, target))
WolfSee(p) == /\ Asked(p, Wolf) /\ Cardinality(Awake(game, Wolf)) = 1
              /\ game' = NextPhase(game)

Swapped(g, p, q) == [g EXCEPT !.card[p] = g.card[q], !.card[q] = g.card[p]]

\* handle_rob_cb: somebody, or nobody.
Rob(p) == /\ Asked(p, Robber)
          /\ \/ \E target \in Places \ {p} :
                   game' = NextPhase(Swapped(Named(game, target), p, target))
             \/ game' = NextPhase(game)

\* handle_first_swap_choice: the buttons of the second question (send_target_choice) are
\* the players who are not hidden; they are counted as all players less those hidden,
\* and an assertion wants the two to agree.
Miscounted(hidden) == Cardinality(Players \ hidden) # NPlayers - Cardinality(hidden)
FirstChoice(g, p, target) ==
    [g EXCEPT !.first = target, !.aborted = Miscounted({p, target})]

\* handle_swap_cb: two others one after the other, or nobody.
Swap(p) ==
    /\ Asked(p, Troublemaker)
    /\ \/ \E target \in Places \ {p, game.first} :
            game' = IF game.first = None
                    THEN FirstChoice(Named(game, target), p, target)
                    ELSE NextPhase(Swapped(Named(game, target), game.first, target))
       \/ game' = NextPhase(game)

\* handle_take_cb
Traded(bag, r, old) == [bag EXCEPT ![r] = @ - 1, ![old] = @ + 1]
Take(p) ==
    /\ Asked(p, Drunk)
    /\ \E r \in Has(game.extra) :
         game' = NextPhase([game EXCEPT !.card[p] = r,
                                        !.extra = Traded(game.extra, r, game.card[p])])

\* next_phase_cb.  start_voting_cb sends the buttons again and again: nothing changes.
NextPhaseCb == /\ game.timer /\ game.phase # Discussion /\ Running
               /\ game' = NextPhase([game EXCEPT !.timer = FALSE])

--------------------------------------------------------------------------
(* The vote *)

\* show_vote_results: those with most votes die, unless that is everybody.
Votes(votes, p) == Cardinality({q \in Players : votes[q] = p})
Top(votes) ==
    {p \in Players : \A q \in Players : Votes(votes, q) <= Votes(votes, p)}

\* Faulty: the hunter takes nobody with him.
WithoutHunter(card, votes, dead) == dead

\* check_hunter: a dead hunter takes who he voted for with him.
WithHunter(card, votes, dead) ==
    dead \cup {votes[p] : p \in {q \in dead : card[q] = Hunter}}

\* add_no_one_dies_message, add_no_dead_werewolf_result, add_dead_tanner_result and
\* add_result_with_death: who wins.
Winners(card, votes) ==
    LET top == Top(votes)
        dead == WithHunter(card, votes, top)
        AnyPlayer(r) == \E p \in Players : card[p] = r
        AnyDead(r) == \E p \in dead : card[p] = r
    IN IF top = Players
       THEN (IF AnyPlayer(Wolf) THEN {"werewolves"} ELSE {"villagers"})
       ELSE IF AnyDead(Tanner)
       THEN {"tanner"} \cup (IF AnyDead(Wolf) THEN {"villagers"} ELSE {})
       ELSE IF AnyDead(Wolf) THEN {"villagers"}
       ELSE IF AnyPlayer(Wolf) THEN {"werewolves"}
       ELSE IF AnyDead(Minion) THEN {"villagers"}
       ELSE IF AnyPlayer(Minion) THEN {"minion"} ELSE {}

\* handle_vote_cb: votes may be changed while others are missing, and after the last
\* one that has no effect.
Vote(p, choice) ==
    /\ game.phase = Discussion /\ Running /\ choice # p
    /\ game' = [game EXCEPT !.votes[p] = choice, !.voted = @ \cup {p},
                            !.ending = @ \/ (p \notin game.voted
                                             /\ game.voted \cup {p} = Players)]

\* game_over_cb, and free_game_cb
GameOver == /\ game.ending /\ Running
            /\ game' = [game EXCEPT !.ending = FALSE, !.over = TRUE, !.timer = FALSE]

Press(p) == \/ \E m \in Modes : HandleMode(m)
            \/ See(p) \/ WolfSee(p) \/ Rob(p) \/ Swap(p) \/ Take(p)
            \/ \E choice \in Players : Vote(p, choice)
Timers == NextPhaseCb \/ GameOver

Next == Timers \/ \E p \in Players : Press(p)

\* A timer runs or somebody is asked.  Then timers fire and who is asked answers, so
\* that something happens, and at the end everybody votes.
Pending == /\ Running
           /\ \/ game.phase \in {PickMode, Discussion}
              \/ game.timer
              \/ Awaited(game) # {}
HasVoted(p) == game.phase # Discussion \/ p \in game.voted
Answered == /\ []<>~Pending \/ []<><<TRUE>>_game
            /\ \A p \in Players : []<>HasVoted(p)
            /\ []<>~game.ending

Spec == Init /\ [][Next]_game /\ Answered

--------------------------------------------------------------------------
(* Properties *)

\* A game is a record of these fields.
TypeOK == game \in Table

\* No card is lost or doubled by all that happens at night.  One may leave the table, for
\* the card of a record that nobody plays, but only by an old button.
Spare(r) == IF r = Villager THEN MaxPlayers - NPlayers ELSE 0
Holders(r, all) == {p \in all : game.card[p] = r}
CardsConserved == \A r \in Roles : game.phase # PickMode =>
    /\ game.deck[r] + Spare(r) = game.extra[r] + Cardinality(Holders(r, Records))
    /\ ~game.stray => game.deck[r] = game.extra[r] + Cardinality(Holders(r, Players))

\* At night the game waits for its timer or for one player, never for both (the
\* assertion of queue_next_phase) and never for nobody; only an old button can stop it
\* (the assertion of send_target_choice).
NightGoesOn ==
    /\ game.phase \in Nightly \cup {Waiting} /\ Running =>
          /\ game.timer <=> Awaited(game) = {}
          /\ Cardinality(Awaited(game)) <= 1
    /\ game.aborted => game.stray

\* Whatever the mode and the number of players, a deck has a card for everybody and
\* three more (the assertion of add_card_to_deck), masons come in pairs, and an
\* insomniac comes with a role that can change her card (make_anarchy_deck).
DecksAreFair == game.phase = PickMode =>
    \A n \in 3 .. 10 : \A m \in {k \in 1 .. Anarchy : Allowed(k, n)} :
        \A deck \in DecksOf(m, n) :
            /\ Size(deck) = n + NExtra /\ deck[Villager] >= 0
            /\ deck[Mason] \in {0, 2}
            /\ deck[Insomniac] > 0 => deck[Robber] + deck[Troublemaker] > 0

\* Whatever the cards and the votes, with whom a dead hunter voted for dead as well: when a
\* werewolf dies the villagers win and the werewolves do not; the tanner wins if he dies
\* and then nobody wins with him but, when a werewolf dies too, the villagers (the help
\* of the game has him win alone, and does not speak of that case); and otherwise the
\* werewolves win if there is one.
VerdictIsRight == game.phase = PickMode =>
    \A card \in [Players -> {Villager, Wolf, Minion, Tanner, Hunter}] :
    \A votes \in {v \in [Players -> Players] : \A p \in Players : v[p] # p} :
        LET killed == {p \in Top(votes) : Votes(votes, p) > 1}
            shot == {votes[p] : p \in {q \in killed : card[q] = Hunter}}
            dead == {card[p] : p \in killed \cup shot}
            winners == Winners(card, votes)
        IN /\ Wolf \in dead => "villagers" \in winners /\ "werewolves" \notin winners
           /\ "tanner" \in winners <=> Tanner \in dead
           /\ Tanner \in dead => winners \subseteq {"tanner", "villagers"}
           /\ Tanner \in dead /\ Wolf \notin dead => winners = {"tanner"}
           /\ Wolf \notin dead /\ Tanner \notin dead =>
                ("werewolves" \in winners <=> \E p \in Players : card[p] = Wolf)

GameEnds == <>game.over
===========================================================================
