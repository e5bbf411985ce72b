---------------------------- MODULE Enumeration ----------------------------
(***************************************************************************)
(* The elements of a finite set of naturals in increasing order.  Lists    *)
(* that the code walks from a position onwards, skipping what does not     *)
(* concern it, are enumerations of a set of positions.                     *)
(***************************************************************************)
EXTENDS Integers, FiniteSets

(* The place of i in the order of S.                                        *)
Rank(S, i) == Cardinality({x \in S : x =< i})

Increasing(S) ==
    [j \in 1 .. Cardinality(S) |-> CHOOSE i \in S : Rank(S, i) = j]
=============================================================================
