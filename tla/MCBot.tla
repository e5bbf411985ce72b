------------------------------- MODULE MCBot -------------------------------
(* Bot for TLC: a game of cards for two, held in private, and a party of    *)
(* words for up to three that is played in the open.                       *)
EXTENDS Bot

CONSTANTS cards, words              \* types of games

TwoTypes == {cards, words}
TwoOrOne == [t \in Types |-> IF t = cards THEN 2 ELSE 1]
TwoOrThree == [t \in Types |-> IF t = cards THEN 2 ELSE 3]
=============================================================================
