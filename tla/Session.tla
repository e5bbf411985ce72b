------------------------------ MODULE Session ------------------------------
(***************************************************************************)
(* One web conversation from end to end: the message log and the side-band *)
(* data of pcx-conversation.c, the connections of pcx-connection.c that    *)
(* replay them through a bounded write buffer and a poll flag, the server  *)
(* handlers of pcx-server.c that attach a connection to a player, and the  *)
(* browser page of web/pucxo.js that counts what it received and resumes   *)
(* from that count when a socket breaks.                                   *)
(*                                                                         *)
(* The server is one thread: a handler runs to completion and is one       *)
(* action here.  The network, the pages and the game that the conversation *)
(* hosts are free to act between any two handlers.                         *)
(***************************************************************************)
EXTENDS Integers, Sequences, FiniteSets, SequencesExt, Enumeration

CONSTANTS
    Clients,        \* browser pages
    MaxSockets,     \* bound: how many sockets each page opens in turn
    MinPlayers,     \* game_type->min_players
    MaxPlayers,     \* game_type->max_players
    Data,           \* numbers of the game's side-band data
    Values,         \* values a side-band datum takes
    Unset,          \* a datum that has no value yet
    MsgSizes,       \* sizes of game and chat messages, in units of write_buf
    BufSize,        \* sizeof write_buf
    CountMod,       \* 2^16: n_messages_received travels as a uint16_t
    MaxSaid,        \* bound: chat and game messages of the conversation
    MaxChanges,     \* bound: side-band updates of the game
    MaxDepartures,  \* bound: players who leave or are collected
    MaxEvents,      \* bound: messages, updates and departures together
    MaxPongs        \* bound: pongs on their way to a page

ASSUME PlayerAssumption ==
    /\ MinPlayers \in Nat \ {0}
    /\ MaxPlayers \in Nat
    /\ MinPlayers =< MaxPlayers
ASSUME DataAssumption ==
    /\ Data \subseteq Nat
    /\ IsFiniteSet(Data)
    /\ Unset \notin Values
ASSUME BufferAssumption ==
    /\ BufSize \in Nat \ {0}
    /\ MsgSizes \subseteq Nat \ {0}
    /\ CountMod \in Nat \ {0}
ASSUME BoundAssumption ==
    /\ MaxSockets \in [Clients -> Nat \ {0}]
    /\ MaxSaid \in Nat
    /\ MaxChanges \in Nat
    /\ MaxDepartures \in Nat
    /\ MaxEvents \in Nat
    /\ MaxPongs \in Nat

VARIABLES
    conv,           \* struct pcx_conversation, its players and its registration
    conn,           \* struct pcx_connection, for every socket of every page
    hello,          \* the first request of a socket, until the server reads it
    wire,           \* bytes written by the server and not yet read by the page
    client          \* struct Pucxo of every page

vars == <<conv, conn, hello, wire, client>>

Players == 0 .. MaxPlayers - 1
None == -1                                  \* no player, no target, no socket
Conns == UNION {{u} \X (1 .. MaxSockets[u]) : u \in Clients}

-----------------------------------------------------------------------------
(* Frames: what the server writes, at the size the write buffer charges.    *)
(* "details" is PLAYER_ID, PLAYER_NUM, GAME_TYPE and PRIVATE_GAME_ID, which *)
(* are written together or not at all.                                      *)

FrameKinds == {"details", "name", "sideband", "message", "pong", "notfound"}

Frame(kind, num, value, size) ==
    [kind |-> kind, num |-> num, value |-> value, size |-> size]

Frames ==
    {f \in [kind : FrameKinds, num : Nat, value : Values \cup {Unset}, size : Nat] :
        /\ f.kind = "details" => f.num \in Players
        /\ f.kind = "message" => f.num > 0}

Pong == Frame("pong", 0, Unset, 1)
NotFound == Frame("notfound", 0, Unset, 1)
Details(p) == Frame("details", p, Unset, 1)
Name(p) == Frame("name", p, Unset, 1)
Sideband(d, v) == Frame("sideband", d, v, 1)
Message(cv, i) == Frame("message", i, Unset, cv.log[i].size)

Used(frames) == FoldLeft(LAMBDA n, f : n + f.size, 0, frames)
Room(frames) == BufSize - Used(frames)

(* The frames of one kind, in order, and how many there are.                *)
At(kind, frames) == {i \in DOMAIN frames : frames[i].kind = kind}
Of(kind, frames) == LET at == Increasing(At(kind, frames))
                    IN  [j \in DOMAIN at |-> frames[at[j]]]
Count(kind, frames) == Cardinality(At(kind, frames))
Nums(frames) == [i \in DOMAIN frames |-> frames[i].num]

(* Message i of the log is sent to player p.                                *)
Visible(cv, p, i) == cv.log[i].to \in {None, p}

(* The messages of the log after position lo, up to hi, that p is sent.     *)
Due(cv, p, lo, hi) == Increasing({i \in lo + 1 .. hi : Visible(cv, p, i)})

-----------------------------------------------------------------------------
(* The conversation: each operator is one function of pcx-conversation.c    *)
(* and returns the conversation it leaves.                                  *)

NewConversation ==
    [n |-> 0, started |-> FALSE, game |-> FALSE, pending |-> FALSE,
     log |-> << >>, left |-> {}, base |-> {},
     side |-> [d \in Data |-> Unset], said |-> 0, changes |-> 0]

(* "joined", the number of players when the message was queued, is a        *)
(* history variable.                                                        *)
QueueMessage(cv, to, from, size) ==
    [cv EXCEPT !.log = Append(@, [to |-> to, from |-> from, size |-> size,
                                  joined |-> cv.n])]

StartConversation(cv) ==
    IF cv.started \/ cv.n < MinPlayers
    THEN cv
    ELSE [cv EXCEPT !.started = TRUE, !.pending = FALSE, !.game = TRUE]

(* Faulty: the game that becomes full does not start.                       *)
AddPlayerNoStart(cv) ==
    QueueMessage([cv EXCEPT !.n = @ + 1, !.base = @ \cup {cv.n}], None, None, 1)

AddPlayer(cv) ==
    LET added == [cv EXCEPT !.n = @ + 1, !.base = @ \cup {cv.n}]
        welcomed == QueueMessage(added, None, None, 1)
    IN  IF welcomed.n >= MaxPlayers THEN StartConversation(welcomed) ELSE welcomed

(* Faulty: strangers still find the game that a player has left.            *)
RemovePlayerStillOffered(cv) == QueueMessage(cv, None, None, 1)

RemovePlayer(cv) ==
    [QueueMessage(cv, None, None, 1) EXCEPT !.pending = FALSE]

AvailableData(cv) == {d \in Data : cv.side[d] # Unset}

-----------------------------------------------------------------------------
(* The write path of a connection k, as functions of the connection and     *)
(* the conversation.                                                        *)

ReadyToWrite(k, cv) ==
    \/ k.buf # << >>
    \/ k.pong
    \/ /\ k.player # None
       /\ \/ ~k.detailed
          \/ /\ k.player \notin cv.left
             /\ \/ k.named < cv.n
                \/ k.dirty # {}
                \/ k.cursor # Len(cv.log)

UpdatePollFlags(k, cv) == [k EXCEPT !.pollOut = ReadyToWrite(k, cv)]

Streams(k, cv) == k.player # None /\ k.player \notin cv.left

NamesDue(k, cv) == [i \in 1 .. cv.n - k.named |-> Name(k.named + i - 1)]

(* ffsll takes the lowest dirty bit first.                                  *)
SidebandDue(k, cv) ==
    LET dirty == Increasing(k.dirty)
    IN  [i \in DOMAIN dirty |-> Sideband(dirty[i], cv.side[dirty[i]])]

(* The messages for other players are skipped.                              *)
MessagesDue(k, cv) ==
    LET due == Due(cv, k.player, k.cursor, Len(cv.log))
    IN  [i \in DOMAIN due |-> Message(cv, due[i])]

(* Faulty: the messages go before the names.                                *)
FramesDueMessagesFirst(k, cv) ==
    (IF k.pong THEN <<Pong>> ELSE << >>)
    \o (IF k.player # None /\ ~k.detailed THEN <<Details(k.player)>> ELSE << >>)
    \o (IF Streams(k, cv)
        THEN MessagesDue(k, cv) \o NamesDue(k, cv) \o SidebandDue(k, cv)
        ELSE << >>)

(* Everything the connection has to write, in the order of fill_write_buf.  *)
FramesDue(k, cv) ==
    (IF k.pong THEN <<Pong>> ELSE << >>)
    \o (IF k.player # None /\ ~k.detailed THEN <<Details(k.player)>> ELSE << >>)
    \o (IF Streams(k, cv)
        THEN NamesDue(k, cv) \o SidebandDue(k, cv) \o MessagesDue(k, cv)
        ELSE << >>)

(* Faulty: the cursor moves to the end of the log whatever has fitted.      *)
FillWriteBufToEnd(k, cv) ==
    LET due == FramesDue(k, cv)
        fit == Min({m \in 0 .. Len(due) :
                       m = Len(due) \/ Used(SubSeq(due, 1, m + 1)) > Room(k.buf)})
        taken == SubSeq(due, 1, fit)
    IN  [k EXCEPT !.buf = @ \o taken, !.pong = @ /\ fit = 0,
                  !.detailed = @ \/ At("details", taken) # {},
                  !.named = @ + Count("name", taken),
                  !.dirty = @ \ {taken[i].num : i \in At("sideband", taken)},
                  !.cursor = IF Streams(k, cv) THEN Len(cv.log) ELSE @]

(* The filling ends at the first frame that does not fit, and the cursor    *)
(* with it: just before that frame if it is a message.                      *)
FillWriteBuf(k, cv) ==
    LET due == FramesDue(k, cv)
        fit == Min({m \in 0 .. Len(due) :
                       m = Len(due) \/ Used(SubSeq(due, 1, m + 1)) > Room(k.buf)})
        taken == SubSeq(due, 1, fit)
        reach == IF fit < Len(due)
                 THEN IF due[fit + 1].kind = "message" THEN due[fit + 1].num - 1
                                                       ELSE k.cursor
                 ELSE IF Streams(k, cv) THEN Len(cv.log) ELSE k.cursor
    IN  [k EXCEPT !.buf = @ \o taken,
                  !.pong = @ /\ fit = 0,
                  !.detailed = @ \/ At("details", taken) # {},
                  !.named = @ + Count("name", taken),
                  !.dirty = @ \ {taken[i].num : i \in At("sideband", taken)},
                  !.cursor = reach]

-----------------------------------------------------------------------------
(* Connections and what happens to them.                                    *)

NewConnection ==
    [state |-> "unused", player |-> None, cursor |-> 0, detailed |-> FALSE,
     named |-> 0, dirty |-> {}, pong |-> FALSE, buf |-> << >>, pollOut |-> FALSE]

Open(c) == conn[c].state = "open"
Listening(c) == Open(c) /\ conn[c].player # None

(* Faulty: a page that comes back is sent the whole log again.              *)
SkipToStart(cv, p, count) == 0

(* pcx_connection_set_player: the cursor skips the messages the page says   *)
(* it has, counting only those that its player is sent.                     *)
SkipTo(cv, p, count) ==
    Min({h \in 0 .. Len(cv.log) : Len(Due(cv, p, 0, h)) >= count}
            \cup {Len(cv.log)})

(* Faulty: the data that the game has already set are not sent.             *)
SetPlayerClean(k, cv, p, count) ==
    UpdatePollFlags([k EXCEPT !.player = p, !.detailed = FALSE,
                              !.cursor = SkipTo(cv, p, count), !.dirty = {}], cv)

SetPlayer(k, cv, p, count) ==
    UpdatePollFlags([k EXCEPT !.player = p, !.detailed = FALSE,
                              !.cursor = SkipTo(cv, p, count),
                              !.dirty = AvailableData(cv)], cv)

(* Faulty: the connections are not told.                                    *)
NotifiedNobody(cv) == conn

(* conversation_event_cb for PLAYER_ADDED and NEW_MESSAGE, in every         *)
(* connection that listens to the conversation.                             *)
Notified(cv) ==
    [c \in Conns |-> IF Listening(c) THEN UpdatePollFlags(conn[c], cv) ELSE conn[c]]

(* Faulty: the datum is not marked while older data wait in the buffer.     *)
NotifiedOfDataIdle(cv, d) ==
    [c \in Conns |-> IF Listening(c)
                     THEN UpdatePollFlags([conn[c] EXCEPT !.dirty =
                              IF conn[c].buf = << >> THEN @ \cup {d} ELSE @], cv)
                     ELSE conn[c]]

(* conversation_event_cb for SIDEBAND_DATA_MODIFIED.                        *)
NotifiedOfData(cv, d) ==
    [c \in Conns |-> IF Listening(c)
                     THEN UpdatePollFlags([conn[c] EXCEPT !.dirty = @ \cup {d}], cv)
                     ELSE conn[c]]

(* remove_client frees the connection: its listener and its buffer go.      *)
RemoveClient(c) ==
    conn' = [conn EXCEPT ![c] = [NewConnection EXCEPT !.state = "closed"]]

NoHello == [kind |-> "none", id |-> None, count |-> 0]
NewHello == [kind |-> "new", id |-> None, count |-> 0]
Reconnect(id, count) == [kind |-> "reconnect", id |-> id, count |-> count]

NewPage ==
    [sock |-> None, id |-> None, got |-> << >>, names |-> 0,
     view |-> [d \in Data |-> Unset], stopped |-> FALSE]

Peer(c) == client[c[1]]
Attached(c) == Peer(c).sock = c[2]

Init ==
    /\ conv = NewConversation
    /\ conn = [c \in Conns |-> NewConnection]
    /\ hello = [c \in Conns |-> NoHello]
    /\ wire = [c \in Conns |-> << >>]
    /\ client = [u \in Clients |-> NewPage]

-----------------------------------------------------------------------------
(* Players who left or whom the collector took.                             *)
Departed == conv.left \cup ((0 .. conv.n - 1) \ conv.base)

(* The bounds.                                                              *)
MayHappen == conv.said + conv.changes + Cardinality(Departed) < MaxEvents
MayDepart(p) ==
    p \in Departed \/ (MayHappen /\ Cardinality(Departed) < MaxDepartures)

-----------------------------------------------------------------------------
(* The server: what arrives on connection c.                                *)

(* NEW_PLAYER, NEW_PRIVATE_PLAYER or JOIN_PRIVATE_GAME that finds the       *)
(* conversation, or creates it: watch_conversation.                         *)
HandleNewPlayer(c) ==
    LET cv == AddPlayer([conv EXCEPT !.pending = TRUE])
    IN  /\ Open(c) /\ hello[c].kind = "new"
        /\ conv.n = 0 \/ conv.pending
        /\ conv' = cv
        /\ conn' = [Notified(cv) EXCEPT ![c] = SetPlayer(conn[c], cv, conv.n, 0)]
        /\ hello' = [hello EXCEPT ![c] = NoHello]
        /\ UNCHANGED <<wire, client>>

(* JOIN_PRIVATE_GAME for a conversation that is no longer pending.          *)
HandleNotFound(c) ==
    LET k == [conn[c] EXCEPT !.buf = Append(@, NotFound)]
    IN  /\ Open(c) /\ hello[c].kind = "new"
        /\ conv.n > 0 /\ ~conv.pending
        /\ IF Room(conn[c].buf) >= 1
           THEN conn' = [conn EXCEPT ![c] = UpdatePollFlags(k, conv)]
           ELSE RemoveClient(c)
        /\ hello' = [hello EXCEPT ![c] = NoHello]
        /\ UNCHANGED <<conv, wire, client>>

HandleReconnect(c) ==
    /\ Open(c) /\ hello[c].kind = "reconnect"
    /\ IF hello[c].id \in conv.base
       THEN conn' = [conn EXCEPT ![c] =
                         SetPlayer(@, conv, hello[c].id, hello[c].count)]
       ELSE RemoveClient(c)
    /\ hello' = [hello EXCEPT ![c] = NoHello]
    /\ UNCHANGED <<conv, wire, client>>

(* BUTTON, SEND_MESSAGE and CLIENT_SIDEBAND ask for a player in the game.   *)
MayAct(c) ==
    /\ Open(c) /\ hello[c].kind = "none"
    /\ conn[c].player # None /\ conn[c].player \notin conv.left

HandleRefused(c) ==
    /\ Open(c) /\ hello[c].kind = "none" /\ ~MayAct(c)
    /\ RemoveClient(c)
    /\ UNCHANGED <<conv, hello, wire, client>>

HandleChat(c, size) ==
    LET cv == [QueueMessage(conv, None, conn[c].player, size) EXCEPT !.said = @ + 1]
    IN  /\ MayAct(c) /\ MayHappen /\ conv.said < MaxSaid
        /\ conv' = cv
        /\ conn' = Notified(cv)
        /\ UNCHANGED <<hello, wire, client>>

(* The "start" button.  STARTED makes no connection ready.                  *)
HandleStart(c) ==
    /\ MayAct(c)
    /\ conv' = StartConversation(conv)
    /\ UNCHANGED <<conn, hello, wire, client>>

HandleLeave(c) ==
    LET cv == RemovePlayer([conv EXCEPT !.left = @ \cup {conn[c].player}])
    IN  /\ MayAct(c) /\ MayDepart(conn[c].player)
        /\ conv' = cv
        /\ conn' = Notified(cv)
        /\ UNCHANGED <<hello, wire, client>>

HandlePing(c) ==
    /\ Open(c) /\ hello[c].kind = "none"
    /\ Count("pong", wire[c] \o conn[c].buf) < MaxPongs
    /\ conn' = [conn EXCEPT ![c] = UpdatePollFlags([@ EXCEPT !.pong = TRUE], conv)]
    /\ UNCHANGED <<conv, hello, wire, client>>

(* The socket takes the first m frames of the buffer; m = 0 is EAGAIN,      *)
(* which leaves the poll flags alone, and all that a page that has gone     *)
(* still allows.                                                            *)
HandleWrite(c, m) ==
    /\ Open(c) /\ conn[c].pollOut
    /\ m > 0 => Attached(c)
    /\ UNCHANGED <<conv, hello, client>>
    /\ \E k \in {FillWriteBuf(conn[c], conv)} :
        /\ m =< Len(k.buf)
        /\ conn' = [conn EXCEPT ![c] =
               IF k.buf # << >> /\ m = 0
               THEN k
               ELSE UpdatePollFlags([k EXCEPT !.buf = SubSeq(@, m + 1, Len(@))], conv)]
        /\ wire' = [wire EXCEPT ![c] = @ \o SubSeq(k.buf, 1, m)]

(* The server closes a connection: an error or the end of the stream on its *)
(* socket, a close frame, or two minutes without a byte from the page.      *)
Lose(c) ==
    /\ Open(c)
    /\ RemoveClient(c)
    /\ UNCHANGED <<conv, hello, wire, client>>

-----------------------------------------------------------------------------
(* The game, through its callbacks, and the collection of idle players.     *)

GameMessage(to, size) ==
    LET cv == [QueueMessage(conv, to, None, size) EXCEPT !.said = @ + 1]
    IN  /\ conv.game /\ MayHappen /\ conv.said < MaxSaid
        /\ to < conv.n
        /\ conv' = cv
        /\ conn' = Notified(cv)
        /\ UNCHANGED <<hello, wire, client>>

(* set_sideband_data_cb: a value that does not change is announced only     *)
(* when the game forces it.                                                 *)
GameSideband(d, v, force) ==
    LET cv == [conv EXCEPT !.side[d] = v, !.changes = @ + 1]
    IN  /\ conv.game /\ MayHappen /\ conv.changes < MaxChanges
        /\ conv.side[d] # v \/ force
        /\ conv' = cv
        /\ conn' = NotifiedOfData(cv, d)
        /\ UNCHANGED <<hello, wire, client>>

GameOver ==
    /\ conv.game
    /\ conv' = [conv EXCEPT !.game = FALSE]
    /\ UNCHANGED <<conn, hello, wire, client>>

(* The collector of pcx-playerbase.c, for a player without a connection.    *)
Expire(p) ==
    LET cv == [conv EXCEPT !.base = @ \ {p}]
        told == IF p \in conv.left THEN cv ELSE RemovePlayer(cv)
    IN  /\ p \in conv.base /\ MayDepart(p)
        /\ \A c \in Conns : Listening(c) => conn[c].player # p
        /\ conv' = told
        /\ conn' = IF p \in conv.left THEN conn ELSE Notified(told)
        /\ UNCHANGED <<hello, wire, client>>

-----------------------------------------------------------------------------
(* The page.                                                                *)

Disconnected(u) == [client EXCEPT ![u].sock = None]
Emptied(c) == [wire EXCEPT ![c] = << >>]

(* doConnect and sockOpenCb: the first request says who the page is.        *)
Connect(u, i) ==
    LET c == <<u, i>>
        page == client[u]
    IN  /\ page.sock = None /\ ~page.stopped
        /\ conn[c].state = "unused"
        /\ \A j \in 1 .. i - 1 : conn[<<u, j>>].state # "unused"
        /\ conn' = [conn EXCEPT ![c].state = "open"]
        /\ hello' = [hello EXCEPT ![c] =
                         IF page.id = None THEN NewHello
                         ELSE Reconnect(page.id, Len(page.got) % CountMod)]
        /\ client' = [client EXCEPT ![u].sock = i]
        /\ UNCHANGED <<conv, wire>>

(* messageCb.  GAME_TYPE builds a new visualisation, which knows nothing.   *)
Handled(page, f) ==
    CASE f.kind = "details"  -> [page EXCEPT !.id = f.num, !.names = 0,
                                             !.view = [d \in Data |-> Unset]]
      [] f.kind = "name"     -> [page EXCEPT !.names = f.num + 1]
      [] f.kind = "sideband" -> [page EXCEPT !.view[f.num] = f.value]
      [] f.kind = "message"  -> [page EXCEPT !.got = Append(@, f.num)]
      [] f.kind = "notfound" -> [page EXCEPT !.stopped = TRUE, !.sock = None]
      [] f.kind = "pong"     -> page

Receive(u) ==
    LET c == <<u, client[u].sock>>
    IN  /\ client[u].sock # None
        /\ wire[c] # << >>
        /\ client' = [client EXCEPT ![u] = Handled(@, Head(wire[c]))]
        /\ wire' = [wire EXCEPT ![c] =
                        IF Head(@).kind = "notfound" THEN << >> ELSE Tail(@)]
        /\ UNCHANGED <<conv, conn, hello>>

(* The socket breaks on the page's side; the server has not noticed.        *)
Drop(u) ==
    LET c == <<u, client[u].sock>>
    IN  /\ client[u].sock # None
        /\ Open(c) /\ client[u].sock < MaxSockets[u]
        /\ client' = Disconnected(u)
        /\ wire' = Emptied(c)
        /\ UNCHANGED <<conv, conn, hello>>

(* sockErrorCb, when the server has closed the socket.                      *)
Notice(u) ==
    LET c == <<u, client[u].sock>>
    IN  /\ client[u].sock # None
        /\ conn[c].state = "closed"
        /\ client' = Disconnected(u)
        /\ wire' = Emptied(c)
        /\ UNCHANGED <<conv, conn, hello>>

(* Bound: the last socket of a page does not break.                         *)
MayBreak(c) == ~Attached(c) \/ c[2] < MaxSockets[c[1]]

Server(c) ==
    \/ HandleNewPlayer(c) \/ HandleNotFound(c) \/ HandleReconnect(c)
    \/ HandleRefused(c) \/ HandleStart(c) \/ HandleLeave(c) \/ HandlePing(c)
    \/ \E size \in MsgSizes : HandleChat(c, size)
    \/ \E m \in 0 .. BufSize : HandleWrite(c, m)
    \/ MayBreak(c) /\ Lose(c)

Game ==
    \/ \E to \in Players \cup {None}, size \in MsgSizes : GameMessage(to, size)
    \/ \E d \in Data, v \in Values, force \in BOOLEAN : GameSideband(d, v, force)
    \/ GameOver
    \/ \E p \in Players : Expire(p)

Page(u) ==
    \/ \E i \in 1 .. MaxSockets[u] : Connect(u, i)
    \/ Receive(u) \/ Drop(u) \/ Notice(u)

Next ==
    \/ \E c \in Conns : Server(c)
    \/ Game
    \/ \E u \in Clients : Page(u)

Spec == Init /\ [][Next]_vars

(* What the event loop and the network owe: a request that has arrived is   *)
(* handled, a writable socket takes bytes, a broken one is noticed; a page  *)
(* reads what reaches it and connects again when it has lost its socket.    *)
ServerWork(c) ==
    \/ HandleNewPlayer(c) \/ HandleNotFound(c) \/ HandleReconnect(c)
    \/ \E m \in 1 .. BufSize : HandleWrite(c, m)
    \/ /\ conn[c].buf = << >> /\ FramesDue(conn[c], conv) = << >>
       /\ HandleWrite(c, 0)
    \/ ~Attached(c) /\ Lose(c)

PageWork(u) ==
    \/ Receive(u) \/ Notice(u)
    \/ \E i \in 1 .. MaxSockets[u] : Connect(u, i)

Fairness ==
    /\ \A c \in Conns : WF_vars(ServerWork(c))
    /\ \A u \in Clients : WF_vars(PageWork(u))

FairSpec == Spec /\ Fairness

-----------------------------------------------------------------------------
(* Properties.                                                              *)

Pages ==
    [sock : Nat \cup {None}, id : Players \cup {None},
     got : Seq(Nat), names : Nat, view : [Data -> Values \cup {Unset}],
     stopped : BOOLEAN]

Connections ==
    [state : {"unused", "open", "closed"}, player : Players \cup {None},
     cursor : Nat, detailed : BOOLEAN, named : Nat, dirty : SUBSET Data,
     pong : BOOLEAN, buf : Seq(Frames), pollOut : BOOLEAN]

LogEntries ==
    [to : Players \cup {None}, from : Players \cup {None}, size : Nat,
     joined : Nat]

Conversations ==
    [n : 0 .. MaxPlayers, started : BOOLEAN, game : BOOLEAN,
     pending : BOOLEAN, log : Seq(LogEntries), left : SUBSET Players,
     base : SUBSET Players, side : [Data -> Values \cup {Unset}],
     said : Nat, changes : Nat]

Hellos ==
    [kind : {"none", "new", "reconnect"}, id : Players \cup {None}, count : Nat]

(* Every variable holds values of the type the code declares for it.        *)
TypeOK ==
    /\ conv \in Conversations
    /\ conn \in [Conns -> Connections]
    /\ hello \in [Conns -> Hellos]
    /\ wire \in [Conns -> Seq(Frames)]
    /\ client \in [Clients -> Pages]

(* A connection that has something to send is polled for writing: no event  *)
(* of the conversation, no request and no partial write leaves data behind  *)
(* with nobody to wake the connection up (update_poll_flags and the events  *)
(* of conversation_event_cb that call it).                                  *)
NoLostWakeup ==
    \A c \in Conns : Open(c) /\ ReadyToWrite(conn[c], conv) => conn[c].pollOut

(* pcx_conversation_add_player asserts that the conversation has room and   *)
(* has not started: what the server still offers to newcomers satisfies it, *)
(* and everyone in it is still there.                                       *)
OfferedIsJoinable ==
    conv.pending =>
        /\ ~conv.started
        /\ conv.n < MaxPlayers
        /\ conv.left = {}
        /\ conv.base = 0 .. conv.n - 1

(* What the page has, what the network carries and what the write buffer    *)
(* holds are, in this order, exactly the messages of its player up to the   *)
(* connection's cursor: nothing is lost, repeated or reordered by partial   *)
(* writes, private messages of others, reconnections or resumed counts.     *)
PipelineExact ==
    \A c \in Conns :
        Listening(c) /\ Attached(c) =>
            Peer(c).got \o Nums(Of("message", wire[c] \o conn[c].buf))
                = Due(conv, conn[c].player, 0, conn[c].cursor)

(* On its way through one connection a message never overtakes the name of  *)
(* a player who was in the game when it was queued (fill_write_buf writes   *)
(* the names first, and stops when they do not fit).                        *)
NamesBeforeMessages ==
    \A c \in Conns : Listening(c) /\ Attached(c) =>
        LET queue == wire[c] \o conn[c].buf
            fresh == \E i \in DOMAIN queue : queue[i].kind = "details"
            known(j) == Count("name", SubSeq(queue, 1, j))
                            + (IF fresh THEN 0 ELSE Peer(c).names)
        IN  \A j \in DOMAIN queue :
                queue[j].kind = "message" => known(j) >= conv.log[queue[j].num].joined

(* The value the page will show for datum d once it has read everything     *)
(* that the server has already produced for it.                             *)
Projected(c, d) ==
    LET queue == wire[c] \o conn[c].buf
        hits == {i \in DOMAIN queue :
                     queue[i].kind = "sideband" /\ queue[i].num = d}
    IN  IF hits = {} THEN Peer(c).view[d] ELSE queue[Max(hits)].value

(* A datum is either marked dirty in a connection or its current value is   *)
(* the last one on its way to the page: an update that arrives while an     *)
(* older value sits in the buffer is never forgotten.                       *)
SidebandCoherent ==
    \A c \in Conns : Listening(c) /\ Attached(c) =>
        \A d \in Data : d \in conn[c].dirty \/ Projected(c, d) = conv.side[d]

(* The conversation as doc/protocol.txt promises it to the pages: in order, *)
(* exactly once, across all the connections a page goes through.            *)
Promise == INSTANCE Stream WITH
    Pages <- Clients,
    Public <- None,
    log <- [i \in DOMAIN conv.log |-> conv.log[i].to],
    id <- [u \in Clients |-> client[u].id],
    got <- [u \in Clients |-> client[u].got]

ImplementsStream == Promise!Spec

(* A page that will never catch up: it was refused, its player left or was  *)
(* collected, or it has used the sockets the model gives it.                *)
Gone(u) ==
    \/ client[u].stopped
    \/ client[u].id # None
       /\ (client[u].id \notin conv.base \/ client[u].id \in conv.left)
    \/ client[u].sock = None /\ \A i \in 1 .. MaxSockets[u] : conn[<<u, i>>].state # "unused"

CaughtUp(u) ==
    LET page == client[u]
    IN  /\ page.id # None
        /\ page.got = Due(conv, page.id, 0, Len(conv.log))
        /\ page.names = conv.n
        /\ page.view = conv.side

(* Every page that stays in the game comes to show the whole log, all the   *)
(* names and the current side-band data, whatever connections broke on the  *)
(* way.                                                                     *)
CatchesUp == \A u \in Clients : []<>(Gone(u) \/ CaughtUp(u))

(* Every page has at most one player: doc/protocol.txt says a client whose  *)
(* connection is dropped recovers "without creating a new player".          *)
OnePlayerPerPage == conv.n =< Cardinality(Clients)

(* doc/protocol.txt on LEAVE: "no further messages will be sent to any      *)
(* connections listening to this player, even historical ones".             *)
NothingAfterLeave ==
    [][\A c \in Conns :
           Listening(c) /\ conn[c].player \in conv.left
               => Count("message", wire'[c]) =< Count("message", wire[c])]_vars
=============================================================================
