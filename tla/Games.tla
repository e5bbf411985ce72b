------------------------------- MODULE Games -------------------------------
(***************************************************************************)
(* pcx_game_list (pcx-game.c), without Coup: a conversation runs one game  *)
(* of one type.  The constants of the module of each game are the fields   *)
(* of a record, so that all of them are parameters here.                   *)
(***************************************************************************)
EXTENDS Integers, Sequences

CONSTANTS
    Types,          \* the games of the list that are played
    SixRules, LoveRules, FoxRules, SnitchRules, ZombieRules, WerewolfRules,
    SuperfightRules, WordpartyRules, ChameleonRules

VARIABLES type, game

vars == <<type, game>>

--------------------------------------------------------------------------
(* The games *)

Six == INSTANCE Six WITH NPlayers <- SixRules.NPlayers, NCards <- SixRules.NCards,
    HandSize <- SixRules.HandSize, NRows <- SixRules.NRows, RowSize <- SixRules.RowSize,
    EndPoints <- SixRules.EndPoints, BullHeads <- SixRules.BullHeads

Love == INSTANCE Love WITH NPlayers <- LoveRules.NPlayers, NHearts <- LoveRules.NHearts,
    NVisible <- LoveRules.NVisible, PileSize <- LoveRules.PileSize,
    LateMax <- LoveRules.LateMax, Decks <- LoveRules.Decks

Fox == INSTANCE Fox WITH HandSize <- FoxRules.HandSize, EndPoints <- FoxRules.EndPoints,
    Packs <- FoxRules.Packs

Snitch == INSTANCE Snitch WITH NPlayers <- SnitchRules.NPlayers,
    NBaseRoles <- SnitchRules.NBaseRoles, CardsPerRole <- SnitchRules.CardsPerRole,
    BaseCards <- SnitchRules.BaseCards, Snitches <- SnitchRules.Snitches,
    NRounds <- SnitchRules.NRounds, LateMax <- SnitchRules.LateMax

Zombie == INSTANCE Zombie WITH NPlayers <- ZombieRules.NPlayers,
    StartAmount <- ZombieRules.StartAmount, DicePerThrow <- ZombieRules.DicePerThrow,
    ShotgunsToKill <- ZombieRules.ShotgunsToKill,
    PointsToEndGame <- ZombieRules.PointsToEndGame, BrainMax <- ZombieRules.BrainMax,
    LateMax <- ZombieRules.LateMax

Werewolf == INSTANCE Werewolf WITH NPlayers <- WerewolfRules.NPlayers,
    Former <- WerewolfRules.Former, Modes <- WerewolfRules.Modes

Superfight == INSTANCE Superfight WITH NPlayers <- SuperfightRules.NPlayers,
    PointsToWin <- SuperfightRules.PointsToWin,
    MessageMax <- SuperfightRules.MessageMax, LateMax <- SuperfightRules.LateMax

Wordparty == INSTANCE Wordparty WITH NPlayers <- WordpartyRules.NPlayers,
    Lives <- WordpartyRules.Lives, MaxLives <- WordpartyRules.MaxLives,
    LateMax <- WordpartyRules.LateMax, NLetters <- WordpartyRules.NLetters,
    Dictionary <- WordpartyRules.Dictionary

Chameleon == INSTANCE Chameleon WITH NPlayers <- ChameleonRules.NPlayers,
    NGroups <- ChameleonRules.NGroups, NWords <- ChameleonRules.NWords,
    EndPoints <- ChameleonRules.EndPoints, LateMax <- ChameleonRules.LateMax

\* What each of the games expects of its numbers.
ASSUME Setups ==
    /\ Six!Setup
    /\ Love!Setup
    /\ Fox!Setup
    /\ Snitch!Setup
    /\ Zombie!Setup
    /\ Werewolf!Setup
    /\ Superfight!Setup
    /\ Wordparty!Setup
    /\ Chameleon!Setup

--------------------------------------------------------------------------
(* The specification *)

Init == /\ type \in Types
        /\ \/ type = "six" /\ Six!Init
           \/ type = "love" /\ Love!Init
           \/ type = "fox" /\ Fox!Init
           \/ type = "snitch" /\ Snitch!Init
           \/ type = "zombie" /\ Zombie!Init
           \/ type = "werewolf" /\ Werewolf!Init
           \/ type = "superfight" /\ Superfight!Init
           \/ type = "wordparty" /\ Wordparty!Init
           \/ type = "chameleon" /\ Chameleon!Init

Next == /\ \/ type = "six" /\ Six!Next
           \/ type = "love" /\ Love!Next
           \/ type = "fox" /\ Fox!Next
           \/ type = "snitch" /\ Snitch!Next
           \/ type = "zombie" /\ Zombie!Next
           \/ type = "werewolf" /\ Werewolf!Next
           \/ type = "superfight" /\ Superfight!Next
           \/ type = "wordparty" /\ Wordparty!Next
           \/ type = "chameleon" /\ Chameleon!Next
        /\ UNCHANGED type

Spec == Init /\ [][Next]_vars

--------------------------------------------------------------------------
(* Properties: those of the games, by what they are about *)

\* A game is a record of its type.
TypeOK ==
    /\ type = "six" => Six!TypeOK
    /\ type = "love" => Love!TypeOK
    /\ type = "fox" => Fox!TypeOK
    /\ type = "snitch" => Snitch!TypeOK
    /\ type = "zombie" => Zombie!TypeOK
    /\ type = "werewolf" => Werewolf!TypeOK
    /\ type = "superfight" => Superfight!TypeOK
    /\ type = "wordparty" => Wordparty!TypeOK
    /\ type = "chameleon" => Chameleon!TypeOK

\* Whatever is dealt, drawn, exchanged, thrown or put back, no card and no die is lost,
\* doubled, or asked of a deck that has none left; only an old button of a larger game
\* of Werewolf can take a card from the table.
CardsConserved ==
    /\ type = "six" => Six!CardsOnce
    /\ type = "love" => Love!CardsConserved /\ Love!SetAsideIsThere
    /\ type = "fox" => Fox!CardsOnce
    /\ type = "snitch" => Snitch!CardsConserved /\ Snitch!DeckSuffices
    /\ type = "zombie" => Zombie!DiceConserved
    /\ type = "werewolf" => Werewolf!CardsConserved

\* The players who are asked are in the game and hold what they are asked for, a timer
\* runs when a timer is waited for, and the counters agree with what they count; only an
\* old button of a larger game of Werewolf can make the night stop at an assertion.
TurnsSound ==
    /\ type = "six" => Six!InTurn
    /\ type = "love" => Love!TurnIsSound /\ Love!NeverStuck
    /\ type = "fox" => Fox!HandsMatch /\ Fox!NeverStuck
    /\ type = "snitch" => Snitch!HandsMatch
    /\ type = "zombie" => Zombie!DeadDontStop
    /\ type = "werewolf" => Werewolf!NightGoesOn
    /\ type = "superfight" => Superfight!VotesAreOfThisFight
    /\ type = "wordparty" => Wordparty!TurnIsTimed
    /\ type = "chameleon" => Chameleon!PhaseIsTimed

\* Points, lives, last rounds and winners are what the rules of the games say; of a tanner
\* who dies with a werewolf, what the code says (VerdictIsRight).
VerdictsSound ==
    /\ type = "zombie" => Zombie!FirstOverThreshold
    /\ type = "werewolf" => Werewolf!VerdictIsRight
    /\ type = "superfight" => Superfight!FightIsFair
    /\ type = "wordparty" => Wordparty!LettersMatchLives
    /\ type = "chameleon" => Chameleon!ScoredOnce
==========================================================================
