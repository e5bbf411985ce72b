----------------------------- MODULE MCSession -----------------------------
(* Session for TLC: how many sockets each page gets.                       *)
EXTENDS Session, TLC

CONSTANTS u1, u2                    \* pages

OnePage == {u1}
TwoPages == {u1, u2}
OneSocketEach == [u \in Clients |-> 1]
TwoSocketsEach == [u \in Clients |-> 2]
ThreeSocketsEach == [u \in Clients |-> 3]

(* The values of a datum are only compared with each other.                *)
Symmetry == Permutations(Values)
=============================================================================
