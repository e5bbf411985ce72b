----------------------------- MODULE Wordparty -----------------------------
(***************************************************************************)
(* pcx-wordparty.c: the current player has to type a word with the current *)
(* syllable before the timer takes a life.  A word is a sequence of       *)
(* letters and a syllable is a letter; the dictionary (with it             *)
(* pcx-dictionary.c and pcx-syllabary.c) is a set of words, and the trie   *)
(* of the used words another.                                              *)
(***************************************************************************)
EXTENDS Integers, FiniteSets, Sequences, Functions

CONSTANTS NPlayers,     \* n_players
          Lives,        \* PCX_WORDPARTY_LIVES
          MaxLives,     \* PCX_WORDPARTY_MAX_LIVES
          NLetters,     \* n_letters of the alphabet of the language
          Dictionary,   \* the words that are accepted
          LateMax       \* bound: words between the end and game_over_cb

Players == 0 .. NPlayers - 1
Letters == 1 .. NLetters
AllBits == 1 .. 32   \* UINT32_MAX: the letters of a player who can gain no life

\* A life can be gained and lost, and the letters fit in 32 bits with one to spare (the
\* assertion of create_alphabet).
Setup == /\ {NPlayers, Lives, MaxLives, LateMax} \subseteq Nat
         /\ NPlayers > 0 /\ Lives > 0 /\ Lives < MaxLives
         /\ NLetters \in 1 .. 31
         /\ Dictionary \subseteq Seq(Letters)

\* A record of struct pcx_wordparty.  timer is word_timeout, ending is game_over_source,
\* late counts the words accepted since.
VARIABLE game

Table == [lives: [Players -> 0 .. MaxLives],
          letters: [Players -> (SUBSET Letters) \cup {AllBits}],
          current: Players, syllable: Letters, fails: Nat, maxFails: Nat,
          used: SUBSET Dictionary, timer: BOOLEAN,
          ending: BOOLEAN, over: BOOLEAN, late: 0 .. LateMax]

Alive(g) == {p \in Players : g.lives[p] > 0}

\* pick_syllable
PickSyllable(g) ==
    {[g EXCEPT !.syllable = s, !.fails = 0, !.maxFails = Cardinality(Alive(g))] :
        s \in Letters}

\* Faulty: whoever comes next, dead or alive.
NextOfAll(g) == (g.current + 1) % NPlayers

\* start_turn: the next player who is alive, or the same one; then the end, which
\* leaves the timer alone, or a timer.
NextPlayer(g) ==
    CHOOSE p \in Players : \E n \in 1 .. NPlayers :
        /\ p = (g.current + n) % NPlayers
        /\ n = NPlayers \/ p \in Alive(g)
        /\ \A i \in 1 .. n - 1 : (g.current + i) % NPlayers \notin Alive(g)
StartTurn(g) ==
    LET h == [g EXCEPT !.current = NextPlayer(g)]
    IN IF Cardinality(Alive(h)) <= (IF NPlayers > 1 THEN 1 ELSE 0)
       THEN [h EXCEPT !.ending = TRUE]
       ELSE [h EXCEPT !.timer = TRUE]

\* create_game_cb
Init == \E p \in Players :
    \E g \in PickSyllable(
        [lives |-> [q \in Players |-> Lives], letters |-> [q \in Players |-> {}],
         current |-> p, syllable |-> 1,
         fails |-> 0, maxFails |-> 0, used |-> {}, timer |-> FALSE,
         ending |-> FALSE, over |-> FALSE, late |-> 0]) : game = StartTurn(g)

--------------------------------------------------------------------------
(* Words *)

\* tally_word: all the letters are a life, and the letters start again when another
\* one could be gained.
TallyWord(g, word) ==
    LET p == g.current
        letters == g.letters[p] \cup Range(word)
    IN IF g.lives[p] >= MaxLives THEN g
       ELSE IF letters # Letters THEN [g EXCEPT !.letters[p] = letters]
       ELSE [g EXCEPT !.lives[p] = @ + 1,
                      !.letters[p] = IF g.lives[p] + 1 < MaxLives THEN {} ELSE AllBits]

\* handle_message_cb: a word that is rejected, or was used, changes nothing; nothing
\* stops a word after the end.
Type(p, word) ==
    /\ ~game.over /\ (game.ending => game.late < LateMax)
    /\ p = game.current
    /\ game.syllable \in Range(word) /\ word \notin game.used
    /\ \E g \in PickSyllable(TallyWord(
            [game EXCEPT !.used = @ \cup {word},
                         !.late = IF game.ending THEN @ + 1 ELSE 0], word)) :
          game' = StartTurn(g)

\* word_timeout_cb: the syllable is picked before the player loses the life.
WordTimeout ==
    /\ game.timer /\ ~game.over
    /\ LET p == game.current
           failing == [game EXCEPT !.timer = FALSE, !.fails = @ + 1]
       IN \E g \in IF failing.fails >= failing.maxFails THEN PickSyllable(failing)
                                                        ELSE {failing} :
             game' = StartTurn([g EXCEPT
                         !.letters[p] = IF g.lives[p] = MaxLives THEN {} ELSE @,
                         !.lives[p] = @ - 1])

\* game_over_cb, and free_game_cb
GameOver == /\ game.ending
            /\ game' = [game EXCEPT !.ending = FALSE, !.over = TRUE, !.timer = FALSE]

Press(p) == \E word \in Dictionary : Type(p, word)
Timers == WordTimeout \/ GameOver

Next == Timers \/ \E p \in Players : Press(p)

Spec == Init /\ [][Next]_game /\ WF_game(Timers)

--------------------------------------------------------------------------
(* Properties *)

\* A game is a record of these fields.
TypeOK == game \in Table

Going == ~game.ending /\ ~game.over

\* It is the turn of a player who is alive, and the timer runs.
TurnIsTimed == Going => game.timer /\ game.current \in Alive(game)

\* The page shows a full row of letters exactly to those who have every life; nobody
\* else has all the letters (tally_word, word_timeout_cb).
LettersMatchLives == Going => \A p \in Players :
    /\ game.lives[p] = MaxLives <=> game.letters[p] = AllBits
    /\ game.letters[p] # Letters

\* The words run out, and then the lives.
GameEnds == <>game.over
===========================================================================
