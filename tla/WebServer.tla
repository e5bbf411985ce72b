----------------------------- MODULE WebServer -----------------------------
(***************************************************************************)
(* The registry behind the web games: the clients of pcx-server.c, the     *)
(* players of pcx-playerbase.c that outlive them, the conversations that   *)
(* both keep alive, those that are still offered to newcomers, the two     *)
(* collectors that run on timers, and the listening sockets that stop      *)
(* while the process is out of file descriptors.                           *)
(*                                                                         *)
(* Time advances in ticks.  A timer that is due runs before the next tick; *)
(* everything else may happen in any order within a tick.  What a          *)
(* conversation sends to its players is in Session.                        *)
(***************************************************************************)
EXTENDS Integers, Sequences, FiniteSets

CONSTANTS
    Conns,          \* sockets of pages; each is opened and closed once
    Listeners,      \* listening sockets
    Kinds,          \* a game type in a language
    MinPlayers,     \* game_type->min_players
    MaxPlayers,     \* game_type->max_players
    MaxFds,         \* file descriptors left for clients
    MaxAge,         \* MAX_CLIENT_AGE and PCX_PLAYERBASE_MAX_PLAYER_AGE, in ticks
    MaxBytes,       \* bound: requests that change nothing, per socket
    MaxBroken       \* bound: listening sockets that fail for good

ASSUME PlayersAssumption ==
    /\ MinPlayers \in Nat \ {0}
    /\ MaxPlayers \in Nat
    /\ MinPlayers =< MaxPlayers
ASSUME LimitsAssumption ==
    /\ MaxFds \in Nat \ {0}
    /\ MaxAge \in Nat \ {0}
    /\ MaxBytes \in Nat
    /\ MaxBroken \in Nat

VARIABLES
    client,         \* struct pcx_server_client and its connection, by socket
    player,         \* struct pcx_player, in the order of their creation
    conv,           \* struct pcx_conversation, in the order of their creation
    clientGc,       \* ticks until the collector of clients runs
    playerGc,       \* ticks until the collector of players runs
    listening,      \* the poll of every listening socket
    backlog         \* sockets that no accept has taken yet

vars == <<client, player, conv, clientGc, playerGc, listening, backlog>>

None == 0                                   \* no player: they count from 1
Stopped == -1                               \* a timer that is not armed

Numbers == 0 .. MaxPlayers - 1
Opened == {c \in Conns : client[c].state = "open"}
Kept == {id \in DOMAIN player : player[id].kept}

Count(b) == IF b THEN 1 ELSE 0

-----------------------------------------------------------------------------
(* Conversations.  refs is ref_count: the list of pending conversations     *)
(* holds one, every player in the player base another.                      *)

NewConversation(kind, private) ==
    [kind |-> kind, private |-> private, n |-> 0, started |-> FALSE,
     pending |-> TRUE, refs |-> 1, told |-> [p \in Numbers |-> 0]]

RemovePending(cv) == [cv EXCEPT !.pending = FALSE, !.refs = @ - Count(cv.pending)]

Start(cv) ==
    IF cv.started \/ cv.n < MinPlayers THEN cv
    ELSE RemovePending([cv EXCEPT !.started = TRUE])

(* pcx_player_new and pcx_conversation_add_player.                          *)
Joined(cv) ==
    LET joined == [cv EXCEPT !.n = @ + 1, !.refs = @ + 1]
    IN  IF joined.n >= MaxPlayers THEN Start(joined) ELSE joined

(* Faulty: the game stays on offer.                                         *)
ToldStillPending(cv, nums) ==
    [cv EXCEPT !.told = [p \in Numbers |-> @[p] + Count(p \in nums)]]

(* pcx_conversation_remove_player for each of nums, if any: the others are  *)
(* told, and nobody finds the conversation any more.                        *)
Told(cv, nums) ==
    IF nums = {} THEN cv
    ELSE RemovePending([cv EXCEPT !.told =
                            [p \in Numbers |-> @[p] + Count(p \in nums)]])

Offered(kind) == {i \in DOMAIN conv : /\ conv[i].pending /\ ~conv[i].private
                                      /\ conv[i].kind = kind}

-----------------------------------------------------------------------------
(* Clients.                                                                 *)

NewClient == [state |-> "away", player |-> None, idle |-> 0, bytes |-> 0]
Closed == [NewClient EXCEPT !.state = "closed"]

Armed(timer) == IF timer = Stopped THEN MaxAge ELSE timer

(* set_last_update_time: the client and its player are as fresh as can be.  *)
Fresh(c) == [client EXCEPT ![c].idle = 0]
FreshPlayers(c) ==
    [id \in DOMAIN player |->
        IF id = client[c].player THEN [player[id] EXCEPT !.idle = 0] ELSE player[id]]

(* Faulty: a listening socket that was stopped stays so.                    *)
RemoveClientsDeaf(gone) ==
    /\ client' = [c \in Conns |->
           IF c \in gone THEN Closed ELSE client[c]]
    /\ player' = [id \in DOMAIN player |->
           [player[id] EXCEPT !.refs =
                @ - Cardinality({c \in gone : client[c].player = id})]]
    /\ UNCHANGED listening

(* remove_client for each of gone: the players are released, and accepting  *)
(* is tried again.                                                          *)
RemoveClients(gone) ==
    /\ client' = [c \in Conns |->
           IF c \in gone THEN Closed ELSE client[c]]
    /\ player' = [id \in DOMAIN player |->
           [player[id] EXCEPT !.refs =
                @ - Cardinality({c \in gone : client[c].player = id})]]
    /\ listening' = [s \in Listeners |->
           IF gone # {} /\ listening[s] = "off" THEN "on" ELSE listening[s]]

Init ==
    /\ client = [c \in Conns |-> NewClient]
    /\ player = << >>
    /\ conv = << >>
    /\ clientGc = Stopped
    /\ playerGc = Stopped
    /\ listening = [s \in Listeners |-> "on"]
    /\ backlog = [s \in Listeners |-> << >>]

-----------------------------------------------------------------------------
(* Listening.                                                               *)

Dial(c, s) ==
    /\ client[c].state = "away" /\ listening[s] # "gone"
    /\ client' = [client EXCEPT ![c].state = "queued"]
    /\ backlog' = [backlog EXCEPT ![s] = Append(@, c)]
    /\ UNCHANGED <<player, conv, clientGc, playerGc, listening>>

(* listen_sock_cb: EMFILE stops this socket until a client goes.            *)
Accept(s) ==
    /\ listening[s] = "on" /\ backlog[s] # << >>
    /\ IF Cardinality(Opened) < MaxFds
       THEN /\ client' = [client EXCEPT ![Head(backlog[s])].state = "open"]
            /\ backlog' = [backlog EXCEPT ![s] = Tail(@)]
            /\ clientGc' = Armed(clientGc)
            /\ UNCHANGED listening
       ELSE /\ listening' = [listening EXCEPT ![s] = "off"]
            /\ UNCHANGED <<client, backlog, clientGc>>
    /\ UNCHANGED <<player, conv, playerGc>>

(* Any other error of accept frees the listening socket.                    *)
AcceptFails(s) ==
    /\ listening[s] = "on" /\ backlog[s] # << >>
    /\ Cardinality({r \in Listeners : listening[r] = "gone"}) < MaxBroken
    /\ listening' = [listening EXCEPT ![s] = "gone"]
    /\ backlog' = [backlog EXCEPT ![s] = << >>]
    /\ client' = [c \in Conns |->
           IF \E i \in DOMAIN backlog[s] : backlog[s][i] = c
           THEN Closed ELSE client[c]]
    /\ UNCHANGED <<player, conv, clientGc, playerGc>>

-----------------------------------------------------------------------------
(* Requests.                                                                *)

(* watch_conversation: c becomes a new player of conversation i of convs.   *)
Watch(c, convs, i) ==
    /\ conv' = [convs EXCEPT ![i] = Joined(@)]
    /\ player' = Append(player, [conv |-> i, num |-> convs[i].n, left |-> FALSE,
                                 idle |-> 0, refs |-> 1, kept |-> TRUE])
    /\ client' = [Fresh(c) EXCEPT ![c].player = Len(player) + 1]
    /\ playerGc' = Armed(playerGc)
    /\ UNCHANGED <<clientGc, listening, backlog>>

Unwatched(c) == client[c].state = "open" /\ client[c].player = None

HandleNewPlayer(c, kind) ==
    /\ Unwatched(c)
    /\ \/ \E i \in Offered(kind) : Watch(c, conv, i)
       \/ /\ Offered(kind) = {}
          /\ Watch(c, Append(conv, NewConversation(kind, FALSE)), Len(conv) + 1)

HandleNewPrivatePlayer(c, kind) ==
    /\ Unwatched(c)
    /\ Watch(c, Append(conv, NewConversation(kind, TRUE)), Len(conv) + 1)

HandleJoinPrivateGame(c, i) ==
    /\ Unwatched(c)
    /\ conv[i].pending /\ conv[i].private
    /\ Watch(c, conv, i)

(* Faulty: the connection does not count.                                   *)
HandleReconnectUncounted(c, id) ==
    /\ Unwatched(c) /\ player[id].kept
    /\ client' = [Fresh(c) EXCEPT ![c].player = id]
    /\ player' = [player EXCEPT ![id].idle = 0]
    /\ UNCHANGED <<conv, clientGc, playerGc, listening, backlog>>

HandleReconnect(c, id) ==
    /\ Unwatched(c) /\ player[id].kept
    /\ client' = [Fresh(c) EXCEPT ![c].player = id]
    /\ player' = [player EXCEPT ![id].refs = @ + 1, ![id].idle = 0]
    /\ UNCHANGED <<conv, clientGc, playerGc, listening, backlog>>

(* Faulty: the player may leave once more.                                  *)
HandleLeaveAgain(c) ==
    LET id == client[c].player
        p == player[id]
    IN  /\ client[c].state = "open" /\ id # None
        /\ client' = Fresh(c)
        /\ player' = [FreshPlayers(c) EXCEPT ![id].left = TRUE]
        /\ conv' = [conv EXCEPT ![p.conv] = Told(@, {p.num})]
        /\ UNCHANGED <<clientGc, playerGc, listening, backlog>>

HandleLeave(c) ==
    LET id == client[c].player
        p == player[id]
    IN  /\ client[c].state = "open" /\ id # None
        /\ ~p.left
        /\ client' = Fresh(c)
        /\ player' = [FreshPlayers(c) EXCEPT ![id].left = TRUE]
        /\ conv' = [conv EXCEPT ![p.conv] = Told(@, {p.num})]
        /\ UNCHANGED <<clientGc, playerGc, listening, backlog>>

(* The "start" button, when it starts the game.                             *)
HandleStart(c) ==
    LET p == player[client[c].player]
    IN  /\ client[c].state = "open" /\ client[c].player # None
        /\ ~p.left
        /\ Start(conv[p.conv]) # conv[p.conv]
        /\ client' = Fresh(c)
        /\ player' = FreshPlayers(c)
        /\ conv' = [conv EXCEPT ![p.conv] = Start(@)]
        /\ UNCHANGED <<clientGc, playerGc, listening, backlog>>

(* Bytes that change nothing here: KEEP_ALIVE, a ping, a chat line, a move  *)
(* in the game, a button that does nothing.                                 *)
HandleBytes(c) ==
    /\ client[c].state = "open" /\ client[c].bytes < MaxBytes
    /\ client' = [Fresh(c) EXCEPT ![c].bytes = @ + 1]
    /\ player' = FreshPlayers(c)
    /\ UNCHANGED <<conv, clientGc, playerGc, listening, backlog>>

(* A socket that fails, a page that closes it, or a request that is refused *)
(* - which has refreshed the player before it is looked at.                 *)
Lose(c) ==
    /\ client[c].state = "open"
    /\ RemoveClients({c})
    /\ UNCHANGED <<conv, clientGc, playerGc, backlog>>

-----------------------------------------------------------------------------
(* The collectors.                                                          *)

(* Faulty: the collector of clients does not come back.                     *)
CollectClientsOnce ==
    LET old == {c \in Opened : client[c].idle >= MaxAge}
    IN  /\ clientGc = 0
        /\ RemoveClients(old)
        /\ clientGc' = Stopped
        /\ UNCHANGED <<conv, playerGc, backlog>>

(* gc_cb of pcx-server.c.                                                   *)
CollectClients ==
    LET old == {c \in Opened : client[c].idle >= MaxAge}
    IN  /\ clientGc = 0
        /\ RemoveClients(old)
        /\ clientGc' = IF old = Opened THEN Stopped ELSE MaxAge
        /\ UNCHANGED <<conv, playerGc, backlog>>

(* Faulty: age alone decides.                                               *)
CollectableByAge(id) == player[id].idle >= MaxAge

Collectable(id) == player[id].refs = 0 /\ player[id].idle >= MaxAge

(* Numbers of the players of old in conversation i who had not left.        *)
Abandoned(i, old) ==
    {player[id].num : id \in {k \in old : player[k].conv = i /\ ~player[k].left}}

(* Faulty: the collector of players does not come back.                     *)
CollectPlayersOnce ==
    LET old == {id \in Kept : Collectable(id)}
        mine(i) == {id \in old : player[id].conv = i}
    IN  /\ playerGc = 0
        /\ player' = [id \in DOMAIN player |->
               IF id \in old THEN [player[id] EXCEPT !.kept = FALSE, !.idle = 0]
               ELSE player[id]]
        /\ conv' = [i \in DOMAIN conv |->
               [Told(conv[i], Abandoned(i, old)) EXCEPT !.refs = @ - Cardinality(mine(i))]]
        /\ playerGc' = Stopped
        /\ UNCHANGED <<client, clientGc, listening, backlog>>

(* gc_cb of pcx-playerbase.c, and remove_player for each player it takes.   *)
CollectPlayers ==
    LET old == {id \in Kept : Collectable(id)}
        mine(i) == {id \in old : player[id].conv = i}
    IN  /\ playerGc = 0
        /\ player' = [id \in DOMAIN player |->
               IF id \in old THEN [player[id] EXCEPT !.kept = FALSE, !.idle = 0]
               ELSE player[id]]
        /\ conv' = [i \in DOMAIN conv |->
               [Told(conv[i], Abandoned(i, old)) EXCEPT !.refs = @ - Cardinality(mine(i))]]
        /\ playerGc' = IF old = Kept THEN Stopped ELSE MaxAge
        /\ UNCHANGED <<client, clientGc, listening, backlog>>

Later(timer) == IF timer = Stopped THEN Stopped ELSE timer - 1

(* Ages only matter while something has them.                               *)
Tick ==
    /\ clientGc # 0 /\ playerGc # 0
    /\ clientGc # Stopped \/ playerGc # Stopped
    /\ clientGc' = Later(clientGc)
    /\ playerGc' = Later(playerGc)
    /\ client' = [c \in Conns |->
           [client[c] EXCEPT !.idle = @ + Count(client[c].state = "open")]]
    /\ player' = [id \in DOMAIN player |->
           [player[id] EXCEPT !.idle = @ + Count(player[id].kept)]]
    /\ UNCHANGED <<conv, listening, backlog>>

-----------------------------------------------------------------------------
Request(c) ==
    \/ \E kind \in Kinds : HandleNewPlayer(c, kind) \/ HandleNewPrivatePlayer(c, kind)
    \/ \E i \in DOMAIN conv : HandleJoinPrivateGame(c, i)
    \/ \E id \in DOMAIN player : HandleReconnect(c, id)
    \/ HandleLeave(c) \/ HandleStart(c) \/ HandleBytes(c) \/ Lose(c)

Next ==
    \/ \E c \in Conns, s \in Listeners : Dial(c, s)
    \/ \E s \in Listeners : Accept(s) \/ AcceptFails(s)
    \/ \E c \in Conns : Request(c)
    \/ CollectClients \/ CollectPlayers
    \/ Tick

Spec == Init /\ [][Next]_vars

(* The loop runs a timer that is due and a callback whose socket is ready,  *)
(* and time passes.                                                         *)
Fairness ==
    /\ WF_vars(Tick)
    /\ WF_vars(CollectClients)
    /\ WF_vars(CollectPlayers)
    /\ \A s \in Listeners : WF_vars(Accept(s))

FairSpec == Spec /\ Fairness

-----------------------------------------------------------------------------
(* Properties.                                                              *)

(* Every variable holds values of the type the code declares for it.        *)
TypeOK ==
    /\ client \in [Conns -> [state : {"away", "queued", "open", "closed"},
                             player : Nat, idle : Nat, bytes : Nat]]
    /\ player \in Seq([conv : Nat \ {0}, num : Numbers, left : BOOLEAN, idle : Nat,
                       refs : Nat, kept : BOOLEAN])
    /\ conv \in Seq([kind : Kinds, private : BOOLEAN, n : 0 .. MaxPlayers,
                     started : BOOLEAN, pending : BOOLEAN, refs : Nat,
                     told : [Numbers -> Nat]])
    /\ clientGc \in 0 .. MaxAge \cup {Stopped}
    /\ playerGc \in 0 .. MaxAge \cup {Stopped}
    /\ listening \in [Listeners -> {"on", "off", "gone"}]
    /\ backlog \in [Listeners -> Seq(Conns)]

(* The counts that decide when memory is freed are right: a player counts   *)
(* the connections that use it and is never collected under one of them,    *)
(* and a conversation lives exactly as long as it is offered or has a       *)
(* player in the base (ref_count of pcx_player and of pcx_conversation).    *)
NothingFreedInUse ==
    /\ \A c \in Opened : client[c].player # None => player[client[c].player].kept
    /\ \A id \in Kept :
           /\ player[id].refs = Cardinality({c \in Opened : client[c].player = id})
           /\ conv[player[id].conv].refs > 0
    /\ \A i \in DOMAIN conv :
           conv[i].refs = Count(conv[i].pending)
                              + Cardinality({id \in Kept : player[id].conv = i})

(* What newcomers are sent to accepts them: it has room, has not started    *)
(* and everybody in it is still there; and the strangers who ask for the    *)
(* same game all meet in one conversation.                                  *)
OfferedIsJoinable ==
    /\ \A i \in DOMAIN conv : conv[i].pending =>
           /\ ~conv[i].started
           /\ conv[i].n \in 1 .. MaxPlayers - 1
           /\ \A id \in DOMAIN player :
                  player[id].conv = i => player[id].kept /\ ~player[id].left
    /\ \A kind \in Kinds : Cardinality(Offered(kind)) =< 1

(* The game hears exactly once of everyone who goes, whether the page says  *)
(* so, the collector finds out, or first one and then the other.            *)
GoneToldOnce ==
    \A id \in DOMAIN player :
        conv[player[id].conv].told[player[id].num]
            = Count(player[id].left \/ ~player[id].kept)

(* Nothing is kept for ever: a client is closed before it has been silent   *)
(* for two ages, and its player is gone before it has for three.            *)
SilenceIsBounded ==
    /\ \A c \in Opened : client[c].idle < 2 * MaxAge
    /\ \A id \in Kept : player[id].idle < 3 * MaxAge

(* A page in the backlog gets its turn, even if it arrived when there was   *)
(* no file descriptor left and everybody who had one has since gone silent. *)
EverybodyIsAccepted ==
    \A s \in Listeners : []<>(backlog[s] = << >> \/ listening[s] = "gone")

(* When the pages have gone silent for good, the server forgets them all:   *)
(* no client, no player and no conversation is left.                        *)
EmptiesInTheEnd ==
    []<>((\A c \in Conns : client[c].state = "closed")
            => Kept = {} /\ \A i \in DOMAIN conv : conv[i].refs = 0)
=============================================================================
