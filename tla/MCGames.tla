------------------------------ MODULE MCGames ------------------------------
(***************************************************************************)
(* The games for TLC: a small table for each, and Coup with two of them.   *)
(***************************************************************************)
EXTENDS Games, FiniteSets, Bags

CONSTANT Coups          \* the tables of Coup that are played

--------------------------------------------------------------------------
(* The tables *)

SixTable == [NPlayers |-> 2, NCards |-> 6, HandSize |-> 2, NRows |-> 2, RowSize |-> 2,
             EndPoints |-> 2, BullHeads |-> [card \in 0 .. 5 |-> 1]]

LoveTable == [NPlayers |-> 2, NHearts |-> 2, NVisible |-> 0, PileSize |-> 3, LateMax |-> 1,
              Decks |-> {<<1, 1, 1, 0, 1, 0, 0, 1>>, <<1, 0, 0, 1, 0, 1, 1, 1>>}]

\* Cards as <<value, suit>>, two packs that have every value with a power.
Pack(cards) == {<<c \div 20, c % 20>> : c \in cards}
FoxTable == [HandSize |-> 2, EndPoints |-> 9,
             Packs |-> {Pack({1, 3, 5, 9, 21, 31}), Pack({5, 2, 8, 25, 7, 30})}]

SnitchTable == [NPlayers |-> 3, NBaseRoles |-> 2, CardsPerRole |-> 3, BaseCards |-> 1,
                Snitches |-> 1, NRounds |-> 2, LateMax |-> 1]

ZombieTable == [NPlayers |-> 2, StartAmount |-> <<2, 1, 1>>, DicePerThrow |-> 2,
                ShotgunsToKill |-> 2, PointsToEndGame |-> 2, BrainMax |-> 3, LateMax |-> 1]

\* Three players, and buttons of a game of four.
WerewolfTable == [NPlayers |-> 3, Former |-> 4, Modes |-> {1, 4}]

SuperfightTable == [NPlayers |-> 4, PointsToWin |-> 2, MessageMax |-> 2, LateMax |-> 1]

WordpartyTable == [NPlayers |-> 3, Lives |-> 2, MaxLives |-> 3, LateMax |-> 1,
                   NLetters |-> 2, Dictionary |-> {<<1>>, <<1, 2>>, <<2, 1>>}]

ChameleonTable == [NPlayers |-> 3, NGroups |-> 2, NWords |-> 2, EndPoints |-> 3,
                   LateMax |-> 1]

\* Two players who can afford everything, with the two other ways to play; and three,
\* so that there are allies, and a claim that a third player doubts.
Hand(a, b) == SetToBag({a, b})
AllCopies(two) ==
    [clan \in {"tax_collectors", "thieves", "intouchables", "assassins", "negotiators"} |->
        IF clan \in two THEN 2 ELSE 1]
Coup == INSTANCE Coup WITH NPlayers <- 2, StartCoins <- 8, CoupCost <- 7,
    AssassinCost <- 3, Forced <- 10, MaxTurns <- 2,
    Modes <- {"original", "reformation_inspector"},
    Copies <- AllCopies({"tax_collectors", "negotiators"}),
    Deals <- {[p \in 0 .. 1 |-> IF p = 0 THEN Hand("tax_collectors", "assassins")
                                ELSE Hand("negotiators", "intouchables")]}
Coup3 == INSTANCE Coup WITH NPlayers <- 3, StartCoins <- 7, CoupCost <- 7,
    AssassinCost <- 3, Forced <- 10, MaxTurns <- 1, Modes <- {"reformation"},
    Copies <- AllCopies({"tax_collectors", "negotiators", "thieves", "intouchables"}),
    Deals <- {[p \in 0 .. 2 |-> IF p = 0 THEN Hand("tax_collectors", "assassins")
                                ELSE IF p = 1 THEN Hand("negotiators", "intouchables")
                                ELSE Hand("thieves", "negotiators")]}

ASSUME CoupSetup == Coup!Setup /\ Coup3!Setup

--------------------------------------------------------------------------
(* The specification: a game of the list *)

GameInit == \/ Init
            \/ /\ type \in Coups
               /\ \/ type = "coup" /\ Coup!Init
                  \/ type = "coup3" /\ Coup3!Init

GameNext == \/ Next
            \/ /\ \/ type = "coup" /\ Coup!Next
                  \/ type = "coup3" /\ Coup3!Next
               /\ UNCHANGED type

--------------------------------------------------------------------------
(* Fairness: that of the modules, one kind after the other *)

Timers == /\ \/ type = "six" /\ Six!Timers
             \/ type = "zombie" /\ Zombie!Timers
             \/ type = "wordparty" /\ Wordparty!Timers
          /\ UNCHANGED type

\* A step is due: of a timer, or of somebody who is asked.
Pending == \/ type \in {"love", "fox"} /\ ~game.over /\ (type = "fox" => ~game.aborted)
           \/ type = "werewolf" /\ Werewolf!Pending
           \/ type = "coup" /\ Coup!Pending
           \/ type = "coup3" /\ Coup3!Pending

Stops == type = "zombie" /\ Zombie!SomebodyStops /\ UNCHANGED type

Fairness ==
    /\ WF_vars(Timers) /\ SF_vars(Stops)
    /\ []<>~Pending \/ []<><<TRUE>>_vars
    /\ []<>(type = "six" => Six!RowIsChosen)
    /\ []<>(type = "snitch" => Snitch!SizeIsChosen)
    /\ []<>(type = "superfight" => Superfight!FightBegins)
    /\ []<>(type = "superfight" => Superfight!FightEnds)
    /\ []<>(type \in {"snitch", "superfight", "chameleon", "werewolf"} => ~game.ending)
    /\ \A p \in 0 .. 2 :
          /\ []<>(type = "six" /\ p < 2 => Six!HasChosen(p))
          /\ []<>(type = "snitch" => Snitch!HasChosen(p))
          /\ []<>(type = "werewolf" => Werewolf!HasVoted(p))
          /\ []<>(type = "chameleon" => Chameleon!ClueIsGiven(p))
    /\ \A phase \in {"votes", "guess", "waiting"} :
          []<>(type = "chameleon" => Chameleon!PhaseEnds(phase))

GameSpec == GameInit /\ [][GameNext]_vars /\ Fairness

--------------------------------------------------------------------------
(* Properties *)

\* What rests on the numbers of one table: the cards of Coup are conserved, its stack is
\* deep enough and every question on it can be answered; the discard piles of Love hold
\* all that is discarded; and whatever mode is picked, a deck of Werewolf is a fair one.
TablesSuffice ==
    /\ type = "coup" =>
          Coup!TypeOK /\ Coup!CardsConserved /\ Coup!StackSound /\ Coup!AskedCanAnswer
    /\ type = "coup3" =>
          Coup3!TypeOK /\ Coup3!CardsConserved /\ Coup3!StackSound /\ Coup3!AskedCanAnswer
    /\ type = "love" => Love!PilesFit
    /\ type = "werewolf" => Werewolf!DecksAreFair

\* When everybody answers, a game comes to its end; one of Zombie Dice from the moment
\* somebody has the points, since nobody needs to get them; and of Coup, where everybody
\* may take coins for ever, every question comes to an end.  A game may also end at one of
\* its assertions: by a late button, or in Werewolf by one of a larger game.
MustEnd == type \notin {"coup", "coup3"} /\ (type = "zombie" => game.last # Zombie!None)
Ended == game.over \/ (type \in {"fox", "snitch", "werewolf"} /\ game.aborted)
GamesEnd == []<>(/\ MustEnd => Ended
                 /\ type = "coup" => Coup!NothingOpen
                 /\ type = "coup3" => Coup3!NothingOpen)

\* "Tiu kiu restas vivanta venkas." (pcx-coup-help.c): when one player is left the game
\* ends.
SurvivorWins == type = "coup" /\ Cardinality(Coup!Survivors) = 1 ~> game.over
==========================================================================
