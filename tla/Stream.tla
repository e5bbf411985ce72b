------------------------------- MODULE Stream -------------------------------
(***************************************************************************)
(* What a web conversation promises to the pages that follow it, with no   *)
(* connection, buffer or resumption in sight: there is one growing log,    *)
(* some of whose messages are for one player only; a page becomes one      *)
(* player, whom no other page is, and is handed the messages of that       *)
(* player one at a time, in the order of the log, each exactly once.       *)
(***************************************************************************)
EXTENDS Integers, Sequences

CONSTANTS
    Pages,          \* those who follow the conversation
    Players,        \* those it speaks to
    Public          \* the target of a message for everyone

VARIABLES
    log,            \* the targets of the messages, in order
    id,             \* the player each page is, or Public when it is none yet
    got             \* the positions in the log each page was handed, in order

vars == <<log, id, got>>

Init ==
    /\ log = << >>
    /\ id = [u \in Pages |-> Public]
    /\ got = [u \in Pages |-> << >>]

Speak ==
    /\ \E to \in Players \cup {Public} : log' = Append(log, to)
    /\ UNCHANGED <<id, got>>

Become(u, p) ==
    /\ id[u] = Public
    /\ \A w \in Pages : id[w] # p
    /\ id' = [id EXCEPT ![u] = p]
    /\ UNCHANGED <<log, got>>

Latest(u) == IF got[u] = << >> THEN 0 ELSE got[u][Len(got[u])]

(* Message i is the first one for the page after those it has.              *)
IsNext(u, i) ==
    /\ log[i] \in {id[u], Public}
    /\ \A j \in Latest(u) + 1 .. i - 1 : log[j] \notin {id[u], Public}

Hand(u) ==
    /\ id[u] # Public
    /\ \E i \in Latest(u) + 1 .. Len(log) :
           IsNext(u, i) /\ got' = [got EXCEPT ![u] = Append(@, i)]
    /\ UNCHANGED <<log, id>>

Next ==
    \/ Speak
    \/ \E u \in Pages : Hand(u) \/ \E p \in Players : Become(u, p)

Spec == Init /\ [][Next]_vars
=============================================================================
