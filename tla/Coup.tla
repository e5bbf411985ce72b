-------------------------------- MODULE Coup --------------------------------
(***************************************************************************)
(* pcx-coup.c: the game is a stack of questions.  A button goes to the one *)
(* on top, whose handler may answer it, put others over it or change the   *)
(* players; while something was done, the idle function of the entry that  *)
(* is then on top runs (do_idle).  A card is its clan, and hands and deck  *)
(* are bags: which card is where in a hand, and the order of a shuffled    *)
(* deck, make no difference.  The messages are left out.                   *)
(***************************************************************************)
EXTENDS Integers, Sequences, FiniteSets, Bags, Functions

CONSTANTS NPlayers,     \* n_players
          Modes,        \* the game types that are played, of GameTypes
          Copies,       \* the bag of all cards (create_deck)
          Deals,        \* bound: the hands, [Players -> bags], of start_game
          StartCoins,   \* PCX_COUP_START_COINS
          CoupCost, AssassinCost, Forced,  \* 7, 3 and 10 in the code
          MaxTurns      \* bound: turns that are played

Players == 0 .. NPlayers - 1
None == -1
StackSize == 8          \* PCX_COUP_STACK_SIZE
GameTypes == {"original", "inspector", "reformation", "reformation_inspector"}

\* Two cards for each player, and the two of an exchange leave one in the deck.
Setup == /\ Modes \subseteq GameTypes
         /\ BagCardinality(Copies) >= 2 * NPlayers + 3
         /\ \A deal \in Deals : \A p \in Players : BagCardinality(deal[p]) = 2

\* A record of struct pcx_coup: hand holds the living cards and dead the others of
\* everybody, side is the allegiance, and mode is set by the choice of a game type;
\* busy is action_taken, ending is game_over_source, turns counts those that were played.
VARIABLE game

Inspector(g) == g.mode \in {"inspector", "reformation_inspector"}
Reformation(g) == g.mode \in {"reformation", "reformation_inspector"}

Alive(g) == {p \in Players : g.hand[p] # EmptyBag}
One(card) == SetToBag({card})
Held(hand) == FoldFunction(LAMBDA a, b : a (+) b, EmptyBag, hand)

\* is_reunified, and the players of another player's side while there are two
Reunified(g) == \A p, q \in Alive(g) : g.side[p] = g.side[q]
Allied(g, p, q) == Reformation(g) /\ g.side[p] = g.side[q] /\ ~Reunified(g)

\* is_valid_target
Targets(g) == {p \in Alive(g) \ {g.current} : ~Allied(g, g.current, p)}

--------------------------------------------------------------------------
(* The stack *)

\* get_stack_top, stack_push, stack_pop
Top(g) == g.stack[Len(g.stack)]
Under(g) == g.stack[Len(g.stack) - 1]
Push(g, entry) == [g EXCEPT !.stack = Append(@, entry), !.busy = TRUE]
Pop(g) == [g EXCEPT !.stack = SubSeq(@, 1, Len(@) - 1), !.busy = TRUE]
SetTop(g, entry) == [g EXCEPT !.stack[Len(g.stack)] = entry]

\* lose_card, reveal_card and check_challenge; flags are those of enum challenge_flag,
\* act is the callback that runs when nobody objects, timer the timeout_source.
Lose(p) == [kind |-> "lose", player |-> p]
Reveal(by, claim) == [kind |-> "reveal", by |-> by, player |-> claim.player,
                      claims |-> claim.claims,
                      inverted |-> "inverted" \in claim.flags]
Claim(p, act, flags, claims, target) ==
    [kind |-> "challenge", player |-> p, act |-> act, flags |-> flags,
     claims |-> claims, target |-> target, accepted |-> {}, timer |-> FALSE]

\* What each action claims, and what blocks it: challenged_clans, blocking_clans.
Claims(act) == CASE act \in {"tax", "embezzle"} -> {"tax_collectors"}
                 [] act = "assassinate" -> {"assassins"}
                 [] act \in {"exchange", "inspect"} -> {"negotiators"}
                 [] act = "steal" -> {"thieves"}
                 [] OTHER -> {}
Blockers(act) == CASE act = "foreign_aid" -> {"tax_collectors"}
                   [] act = "assassinate" -> {"intouchables"}
                   [] act = "steal" -> {"negotiators", "thieves"}
                   [] OTHER -> {}
Flags(act) == (IF Claims(act) # {} THEN {"challenge"} ELSE {})
              \cup (IF Blockers(act) # {} THEN {"block"} ELSE {})
              \cup (IF act = "embezzle" THEN {"inverted"} ELSE {})

--------------------------------------------------------------------------
(* Cards and coins *)

\* take_card of a shuffled deck, n times
Draws(deck, n) == {drawn \in SubBag(deck) : BagCardinality(drawn) = n}

\* Faulty: the cards do not go back to the deck.
ChangeLosing(g, p, cards) ==
    {[g EXCEPT !.hand[p] = (@ (-) cards) (+) drawn, !.deck = @ (-) drawn] :
        drawn \in Draws(g.deck, BagCardinality(cards))}

\* change_card and change_all_cards: the cards go to the deck before others are taken.
Change(g, p, cards) ==
    LET deck == g.deck (+) cards
    IN {[g EXCEPT !.hand[p] = (@ (-) cards) (+) drawn, !.deck = deck (-) drawn] :
           drawn \in Draws(deck, BagCardinality(cards))}

Kill(g, p, cards) == [g EXCEPT !.hand[p] = @ (-) cards, !.dead = @ (+) cards]
Pay(g, p, coins) == [g EXCEPT !.coins[p] = @ + coins]

\* What is done when a claim is accepted, with the claim off the stack.
AcceptedForeignAid(g) == {Pay(g, g.current, 2)}
AcceptedTax(g) == {Pay(g, g.current, 3)}
AcceptedEmbezzle(g) == {[Pay(g, g.current, g.treasury) EXCEPT !.treasury = 0]}
AcceptedAssassinate(g, target) == {Push(Pay(g, g.current, -AssassinCost), Lose(target))}
AcceptedExchange(g) ==
    LET hand == g.hand[g.current]
    IN {Push([g EXCEPT !.hand[g.current] = EmptyBag, !.deck = @ (-) drawn],
             [kind |-> "exchange", available |-> hand (+) drawn, keep |-> BagCardinality(hand)]) :
           drawn \in Draws(g.deck, IF Inspector(g) THEN 1 ELSE 2)}
AcceptedInspect(g, target) == {Push(g, [kind |-> "inspect", target |-> target])}
AcceptedSteal(g, target) ==
    LET amount == IF g.coins[target] < 2 THEN g.coins[target] ELSE 2
    IN {Pay(Pay(g, target, -amount), g.current, amount)}

\* do_block, and block_assassinate: an assassin is paid when he is blocked.
AcceptedBlock(g) ==
    {Pop(IF Top(g).act = "assassinate" THEN Pay(g, g.current, -AssassinCost) ELSE g)}

\* do_challenge_action calls the function that the claim was made with.
Perform(g, act, target) ==
    CASE act = "foreign_aid" -> AcceptedForeignAid(g)
      [] act = "tax" -> AcceptedTax(g)
      [] act = "embezzle" -> AcceptedEmbezzle(g)
      [] act = "assassinate" -> AcceptedAssassinate(g, target)
      [] act = "exchange" -> AcceptedExchange(g)
      [] act = "inspect" -> AcceptedInspect(g, target)
      [] act = "steal" -> AcceptedSteal(g, target)
      [] act = "block" -> AcceptedBlock(g)

\* do_challenge_action: what the claim on top is about.
DoAction(g) == Perform(Pop(g), Top(g).act, Top(g).target)

\* get_players_that_need_to_accept, is_accepted
NeedAccept(g, claim) ==
    IF claim.flags = {"block"} /\ claim.target # None
    THEN {claim.target} \cap Alive(g)
    ELSE {p \in Alive(g) \ {claim.player} :
            ~(/\ Allied(g, claim.player, p)
              /\ claim.flags \subseteq {"block"} /\ claim.target = None)}
Accepted(g, claim) == claim.flags = {} \/ NeedAccept(g, claim) \subseteq claim.accepted

\* do_reveal: the card proves the claim, or dies with it.
DoReveal(g, card) ==
    LET reveal == Top(g)
    IN IF card \in reveal.claims
       THEN {Push(SetTop(Pop(h), [Under(h) EXCEPT !.flags = @ \ {"challenge"}]),
                  Lose(reveal.by)) : h \in Change(g, reveal.player, One(card))}
       ELSE {Pop(Pop(Kill(g, reveal.player, One(card))))}

\* do_concede_inverted_challenge, do_show_inverted_challenge_cards
Concede(g) == {Push(Pop(Pop(g)), Lose(Top(g).player))}
ShowInverted(g) ==
    UNION {{Push(i, Lose(Top(g).by)) :
              i \in Change(h, Top(g).player, h.hand[Top(g).player])} :
           h \in DoAction(Pop(g))}

\* do_choose_inspect_card
Show(g, card) == {Push(Pop(g), [kind |-> "allow", target |-> Top(g).target,
                                card |-> card])}

--------------------------------------------------------------------------
(* Idle functions *)

\* choose_action_idle and show_stats: the turn is over.
NextTurn(g) ==
    LET next == CHOOSE p \in Players : \E n \in 1 .. NPlayers :
                    /\ p = (g.current + n) % NPlayers
                    /\ n = NPlayers \/ p \in Alive(g)
                    /\ \A i \in 1 .. n - 1 : (g.current + i) % NPlayers \notin Alive(g)
    IN [g EXCEPT !.current = next, !.turns = @ + 1, !.ending = @ \/ Cardinality(Alive(g)) <= 1]

\* is_losing_all_cards
LosesAll(g, p) ==
    LET n == BagCardinality(g.hand[p])
    IN /\ Len(g.stack) >= n
       /\ \A i \in Len(g.stack) - n + 1 .. Len(g.stack) : g.stack[i] = Lose(p)

\* check_challenge_idle: who was dead before the question is asked again cannot block.
AskAgain(g) ==
    LET claim == [Top(g) EXCEPT !.accepted = {},
                     !.flags = IF Top(g).target \in Alive(g) \cup {None} THEN @
                               ELSE @ \ {"block"}]
    IN IF Accepted(g, claim) THEN DoAction(SetTop(g, claim))
       ELSE {SetTop(g, [claim EXCEPT !.timer = TRUE])}

Idle(g) ==
    LET e == Top(g)
    IN CASE e.kind = "action" -> {NextTurn(g)}
         [] e.kind = "lose" /\ LosesAll(g, e.player) ->
               {Pop(Kill(g, e.player, g.hand[e.player]))}
         [] e.kind = "challenge" -> AskAgain(g)
         [] e.kind = "reveal" /\ ~e.inverted /\ BagCardinality(g.hand[e.player]) = 1 ->
               DoReveal(g, CHOOSE card \in BagToSet(g.hand[e.player]) : TRUE)
         [] e.kind = "inspect" /\ BagCardinality(g.hand[e.target]) = 1 ->
               Show(g, CHOOSE card \in BagToSet(g.hand[e.target]) : TRUE)
         [] OTHER -> {g}

\* do_idle
RECURSIVE DoIdle(_)
DoIdle(G) ==
    LET busy == {g \in G : g.busy}
    IN IF busy = {} THEN G
       ELSE DoIdle((G \ busy) \cup UNION {Idle([g EXCEPT !.busy = FALSE]) : g \in busy})

--------------------------------------------------------------------------
(* Buttons: the games that the press of player p leads to before do_idle *)

\* choose_game_type_data and start_game: nothing was done as far as do_idle knows.
ChooseGameType ==
    {[game EXCEPT !.stack = <<[kind |-> "action"]>>, !.mode = mode,
                  !.hand = deal, !.deck = Copies (-) Held(deal),
                  !.side = [p \in Players |->
                      IF mode \in {"original", "inspector"} THEN 0
                                                            ELSE (first + p) % 2],
                  !.coins = [p \in Players |->
                      IF NPlayers = 2 /\ p = game.current THEN StartCoins - 1
                                                          ELSE StartCoins]] :
        mode \in Modes, deal \in Deals, first \in 0 .. 1}

\* do_convert: oneself for one coin, anybody else for two.
Convert(p) ==
    UNION {LET cost == IF q = p THEN 1 ELSE 2
           IN IF game.coins[p] < cost THEN {}
              ELSE {[Pay(game, p, -cost) EXCEPT !.side[q] = 1 - @, !.busy = TRUE,
                                                !.treasury = @ + cost]} :
           q \in Alive(game)}

\* The actions that may be objected to, and their targets.
Acts == {<<"foreign_aid", None>>, <<"tax", None>>, <<"exchange", None>>}
        \cup (IF Reformation(game) THEN {<<"embezzle", None>>} ELSE {})
        \cup {"steal"} \X Targets(game)
        \cup (IF Inspector(game) THEN {"inspect"} \X Targets(game) ELSE {})
        \cup (IF game.coins[game.current] >= AssassinCost
              THEN {"assassinate"} \X Targets(game) ELSE {})

\* choose_action: who has many coins has to spend them on a coup.
ChooseAction(p) ==
    IF p # game.current \/ game.turns = MaxTurns THEN {}
    ELSE (IF game.coins[p] >= CoupCost
          THEN {Push(Pay(game, p, -CoupCost), Lose(q)) : q \in Targets(game)}
          ELSE {})
         \cup (IF game.coins[p] < Forced
               THEN {[Pay(game, p, 1) EXCEPT !.busy = TRUE]}
                    \cup (IF Reformation(game) THEN Convert(p) ELSE {})
                    \cup {Push(game, Claim(p, a[1], Flags(a[1]), Claims(a[1]), a[2])) :
                            a \in Acts}
               ELSE {})

\* choose_card_to_lose
ChooseCardToLose(p) ==
    IF p # Top(game).player THEN {}
    ELSE {Pop(Kill(game, p, One(card))) : card \in BagToSet(game.hand[p])}

\* check_challenge_callback_data
Accept(p) ==
    LET claim == [Top(game) EXCEPT !.accepted = @ \cup {p}]
        g == SetTop(game, claim)
    IN IF Accepted(g, claim) THEN DoAction(g) ELSE {g}

Challenge(p) ==
    IF "challenge" \in Top(game).flags /\ p \in Alive(game) \ {Top(game).player}
    THEN {Push(SetTop(game, [Top(game) EXCEPT !.timer = FALSE]), Reveal(p, Top(game)))}
    ELSE {}

\* The target can block once; when there is none, who is not an ally can.
Block(p) ==
    LET claim == Top(game)
    IN IF /\ "block" \in claim.flags
          /\ p \in Alive(game) \ {claim.player}
          /\ IF claim.target = None THEN ~Allied(game, claim.player, p)
                                    ELSE p = claim.target
       THEN {Push(SetTop(game, [claim EXCEPT !.timer = FALSE,
                                  !.flags = IF claim.target = None THEN @
                                            ELSE @ \ {"block"}]),
                  Claim(p, "block", {"challenge"}, Blockers(claim.act), None))}
       ELSE {}

\* reveal_callback_data
ChooseReveal(p) ==
    IF p # Top(game).player THEN {}
    ELSE IF ~Top(game).inverted
    THEN UNION {DoReveal(game, card) : card \in BagToSet(game.hand[p])}
    ELSE Concede(game)
         \cup (IF Top(game).claims \cap BagToSet(game.hand[p]) = {}
               THEN ShowInverted(game) ELSE {})

\* exchange_callback_data, which does not look at who presses: the card is kept by the
\* current player, and after the last one the others go back.
Keep ==
    LET top == Top(game)
    IN {LET g == [game EXCEPT !.hand[game.current] = @ (+) One(card), !.busy = TRUE]
            left == top.available (-) One(card)
        IN IF top.keep = 1
           THEN Pop([g EXCEPT !.deck = @ (+) left])
           ELSE SetTop(g, [top EXCEPT !.available = left, !.keep = @ - 1]) :
        card \in BagToSet(top.available)}

\* choose_inspect_card_callback_data, allow_keep_card_callback_data
ChooseInspectCard(p) ==
    IF p # Top(game).target THEN {}
    ELSE UNION {Show(game, card) : card \in BagToSet(game.hand[p])}
AllowKeepCard(p) ==
    IF p # game.current THEN {}
    ELSE {Pop(g) : g \in {game} \cup Change(game, Top(game).target, One(Top(game).card))}

\* handle_callback_data_cb
Pressed(p) ==
    LET kind == Top(game).kind
    IN CASE kind = "game_type" -> ChooseGameType
         [] kind = "action" -> ChooseAction(p)
         [] kind = "lose" -> ChooseCardToLose(p)
         [] kind = "challenge" -> Accept(p) \cup Challenge(p) \cup Block(p)
         [] kind = "reveal" -> ChooseReveal(p)
         [] kind = "exchange" -> Keep
         [] kind = "inspect" -> ChooseInspectCard(p)
         [] kind = "allow" -> AllowKeepCard(p)

Press(p) == ~game.over /\ game' \in DoIdle(Pressed(p))

--------------------------------------------------------------------------
(* Timers *)

\* check_challenge_timeout
ChallengeTimeout ==
    /\ ~game.over
    /\ Top(game).kind = "challenge" /\ Top(game).timer
    /\ game' \in DoIdle(DoAction(game))

\* game_over_cb
GameOver == /\ game.ending
            /\ game' = [game EXCEPT !.ending = FALSE, !.over = TRUE]

Timers == ChallengeTimeout \/ GameOver

\* pcx_coup_new: nobody has cards or coins before the game type is chosen.
Init == \E p \in Players :
    game = [mode |-> "none", stack |-> <<[kind |-> "game_type"]>>, current |-> p,
            hand |-> [q \in Players |-> EmptyBag], dead |-> EmptyBag,
            deck |-> Copies, coins |-> [q \in Players |-> 0],
            side |-> [q \in Players |-> 0], treasury |-> 0, turns |-> 0, busy |-> FALSE,
            ending |-> FALSE, over |-> FALSE]

Next == Timers \/ \E p \in Players : Press(p)

\* A timer runs, or somebody is asked a question and has an answer to it.  Then the timer
\* fires, or who is asked answers; only the turn itself may be left alone.
Pending ==
    LET top == Top(game)
    IN /\ ~game.over
       /\ \/ game.ending
          \/ top.kind \in {"game_type", "challenge", "lose", "reveal", "exchange", "allow"}
          \/ top.kind = "inspect" /\ top.target \in Alive(game)
Answered == []<>~Pending \/ []<><<TRUE>>_game

Spec == Init /\ [][Next]_game /\ Answered

--------------------------------------------------------------------------
(* Properties *)

\* Coins are never negative, and nothing is half done between two events.
TypeOK ==
    /\ game.mode \in GameTypes \cup {"none"}
    /\ game.hand \in [Players -> SubBag(Copies)]
    /\ game.coins \in [Players -> Nat] /\ game.treasury \in Nat
    /\ game.side \in [Players -> 0 .. 1] /\ game.current \in Players
    /\ {game.ending, game.over} \subseteq BOOLEAN /\ game.busy = FALSE

\* The deck, the hands, the dead and the cards of an exchange are all the cards, and
\* nobody who is not exchanging has more cards than at the start.
CardsConserved ==
    /\ Copies = game.deck (+) game.dead (+) Held(game.hand)
                (+) (IF Top(game).kind = "exchange" THEN Top(game).available ELSE EmptyBag)
    /\ \A p \in Players : BagCardinality(game.hand[p]) <= 2
    /\ BagCardinality(game.deck) >= IF Top(game).kind = "exchange" THEN 1 ELSE 3

\* The entries that the handlers reach under the top one are what they take them for:
\* a revealed card is about the claim below, a block about an action below that can
\* be blocked; only the question on top has a timer; the stack does not overflow.
StackSound ==
    LET stack == game.stack
        n == Len(stack)
    IN /\ n \in 1 .. StackSize
       /\ \A i \in 1 .. n :
             /\ i = 1 <=> stack[i].kind \in {"game_type", "action"}
             /\ stack[i].kind = "reveal" =>
                   /\ stack[i - 1].kind = "challenge"
                   /\ "challenge" \in stack[i - 1].flags
                   /\ stack[i - 1].player = stack[i].player
                   /\ stack[i].by # stack[i].player
             /\ stack[i].kind = "challenge" =>
                   /\ stack[i].timer <=> i = n
                   /\ stack[i].act = "block" =>
                         stack[i].claims = Blockers(stack[i - 1].act)
             /\ stack[i].kind = "allow" =>
                   BagIn(stack[i].card, game.hand[stack[i].target])

\* Whoever is asked can answer: they are alive and have the card that is asked for.
\* The player who is to show a card to an inspector is left out, see SurvivorWins.
AskedCanAnswer ==
    LET top == Top(game)
    IN /\ top.kind \in {"lose", "reveal"} => top.player \in Alive(game)
       /\ top.kind = "action" => game.current \in Alive(game)
       /\ top.kind = "exchange" => top.keep <= BagCardinality(top.available)
       /\ top.kind = "allow" => game.current \in Alive(game)
       /\ top.kind = "action" /\ ~game.ending /\ ~game.over /\ game.coins[game.current] >= Forced
            => Targets(game) # {}

\* Every question comes to an end, and it is somebody's turn, or the game is over;
\* the exception is the inspection that goes on although its target has died of it.
NothingOpen == \/ Top(game).kind = "action" \/ game.over
               \/ Top(game).kind = "inspect" /\ Top(game).target \notin Alive(game)

\* "Tiu kiu restas vivanta venkas." (pcx-coup-help.c: who remains alive wins); during an
\* exchange the cards of the player are not in the hand.
Survivors == Alive(game) \cup (IF Top(game).kind = "exchange" THEN {game.current} ELSE {})
SurvivorWins == Cardinality(Survivors) = 1 ~> game.over
=============================================================================
