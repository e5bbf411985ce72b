---------------------------- MODULE MCWebServer ----------------------------
(* WebServer for TLC.                                                      *)
EXTENDS WebServer, TLC

(* The sockets of the pages, and the kinds of game, are interchangeable.   *)
Symmetry == Permutations(Conns) \cup Permutations(Kinds)
=============================================================================
