------------------------------- MODULE MCWeb -------------------------------
(***************************************************************************)
(* What the web games rest on, for TLC: the pages of one conversation, the *)
(* registry of clients and players, what sockets deliver, and the files    *)
(* that are read. Each is a small instance of its module, and a behaviour  *)
(* is one of one of them; the others stay as they begin.                   *)
(***************************************************************************)
EXTENDS Session

CONSTANT Parts
VARIABLES
    part,
    clients, player, convs, clientGc, playerGc, listening, backlog,     \* WebServer
    stream, got, incoming,                                              \* Incoming
    words, all_nodes, file, syllabary,                                  \* Dictionary
    config_file, config                                                 \* Config

serverVars == <<clients, player, convs, clientGc, playerGc, listening, backlog>>
incomingVars == <<stream, got, incoming>>
dictVars == <<words, all_nodes, file, syllabary>>
configVars == <<config_file, config>>
webVars == <<part, vars, serverVars, incomingVars, dictVars, configVars>>

-----------------------------------------------------------------------------
(* The instances.                                                           *)

\* Of Session: one page with two sockets, one message, one datum that changes.
OnePage == {"u1"}
TwoSockets == [u \in OnePage |-> 2]

\* Pages on two listening sockets share a file descriptor, and fall silent.
Registry == INSTANCE WebServer WITH
    client <- clients, conv <- convs,
    Conns <- {"c1", "c2"}, Listeners <- {"s1", "s2"}, Kinds <- {"coup"}, MinPlayers <- 1,
    MaxPlayers <- 2, MaxFds <- 1, MaxAge <- 1, MaxBytes <- 1, MaxBroken <- 1

\* Every sequence of at most n members of S.
Some(n, S) == UNION {[1 .. k -> S] : k \in 0 .. n}

\* Requests with a few bytes of any kind in any of three places, and frames after one:
\* of all opcodes, with and without a mask and a longer length, right and wrong.
CR == <<"\r">>
LF == <<"\n">>
SP == <<" ">>
X == <<"x">>
COLON == <<":">>
KEY == <<"Sec-WebSocket-Key">>
Line(bytes) == bytes \o <<CR, LF>>
Request == Line(<<X, SP, X, SP, <<"HTTP/1.1">>>>)
Key == Line(<<KEY, COLON, X>>)
Texts == {Request \o s \o Key \o Line(<< >>) : s \in Some(3, {X, COLON, KEY, CR, LF, SP})}
         \cup {s \o Request \o Key \o Line(<< >>) : s \in Some(3, {X, CR, LF, SP})}
         \cup {Request \o Key \o s : s \in Some(3, {X, CR, LF, SP})}
WsFrame(id, opcode, fin, rsv, ext, mask, size) ==
    [id |-> id, opcode |-> opcode, fin |-> fin, rsv |-> rsv, ext |-> ext, mask |-> mask,
     size |-> size]
WsFrames == {WsFrame(1, "message", TRUE, FALSE, 0, FALSE, 2),
           WsFrame(2, "message", FALSE, FALSE, 2, TRUE, 1),
           WsFrame(3, "continuation", FALSE, FALSE, 0, FALSE, 1),
           WsFrame(4, "continuation", TRUE, FALSE, 0, TRUE, 2),
           WsFrame(5, "ping", TRUE, FALSE, 0, FALSE, 1),
           WsFrame(6, "close", TRUE, FALSE, 0, FALSE, 0),
           WsFrame(7, "continuation", FALSE, FALSE, 0, FALSE, 0),
           WsFrame(8, "pong", FALSE, FALSE, 0, FALSE, 0),
           WsFrame(9, "pong", TRUE, FALSE, 0, FALSE, 0),
           WsFrame(10, "message", TRUE, TRUE, 0, FALSE, 1),
           WsFrame(11, "ping", TRUE, FALSE, 2, FALSE, 3),
           WsFrame(12, "text", TRUE, FALSE, 0, FALSE, 1)}
NothingSent == INSTANCE Incoming WITH
    conn <- incoming, Inputs <- {}, BufSize <- 9, MaxLine <- 6, MaxPayload <- 3, MaxControl <- 2
\* No text goes on when the request is complete.
EndsAtMost(t) == ~NothingSent!Complete(SubSeq(t, 1, Len(t) - 1))
NoStream == [text |-> << >>, frames |-> << >>]
Inputs == {[text |-> t, frames |-> << >>] : t \in {t \in Texts : EndsAtMost(t)}}
           \cup {[text |-> Request \o Key \o Line(<< >>), frames |-> f] :
              f \in Some(2, WsFrames) \cup Some(3, {f \in WsFrames : f.id \in 1 .. 5})}

Incoming == INSTANCE Incoming WITH
    conn <- incoming, Inputs <- Inputs,
    BufSize <- 9, MaxLine <- 6, MaxPayload <- 3, MaxControl <- 2

\* Words that begin and end alike, and suffixes that look alike but for their siblings.
Dictionary == INSTANCE Dictionary WITH
    Lines <- {<< >>, <<2>>, <<2, 3>>, <<1, 2>>, <<1, 3>>, <<1, 2, 1>>},
    MaxWords <- 4, Base <- 3, Alphabet <- {1, 2}, Lengths <- {1, 2}, MinCount <- 2,
    MaxDifficulty <- 100

\* Files of a few lines, and files with a few bytes of any kind.
FileLines == <<
    <<"[", "bot", "]">>, <<"[", "server", "]", " ">>, <<" ", "[", "general", "]">>,
    <<"apikey", "=", "x">>, <<"botname", " ", "=", " ", "x", "=", " ", "x", " ">>,
    <<"certificate", "=">>, <<"private_key", "=", "x">>, <<"language", "=", "eo">>,
    <<"language", "=", "x">>, <<"user", "=", "x">>, <<"x">>,
    <<"private_key_password", "=", "x">> >>
Files ==
    {FlattenSeq([i \in 1 .. Len(s) |-> Append(FileLines[s[i]], "\n")]) :
        s \in Some(3, DOMAIN FileLines)
               \cup {t \o <<1, 4, 5>> \o u : t, u \in Some(1, DOMAIN FileLines)}}
    \cup {<<"[", "bot", "]", "\n", "apikey", "=", "x", "\n">> \o s \o t :
            s \in {<< >>, <<"botname", "=">>},
            t \in Some(3, {"[", "]", "=", " ", "\n", "botname", "x"})}
    \cup {t \o <<"server", "]">> : t \in Some(3, {"[", "]", "=", " ", "\n", "x"})}

Config == INSTANCE Config WITH Files <- Files, Languages <- {"eo"}

-----------------------------------------------------------------------------
(* The specification.                                                       *)

WebInit ==
    /\ part \in Parts
    /\ Init /\ Registry!Init /\ Dictionary!DictInit
    /\ IF part = "incoming" THEN Incoming!InInit
       ELSE stream = NoStream /\ got = 0 /\ incoming = NoStream
    /\ IF part = "config" THEN Config!ConfigInit
       ELSE config_file = << >> /\ config = Config!NotLoaded

WebNext ==
    /\ \/ /\ part = "session" /\ Next
          /\ UNCHANGED <<serverVars, incomingVars, dictVars, configVars>>
       \/ /\ part = "server" /\ Registry!Next
          /\ UNCHANGED <<vars, incomingVars, dictVars, configVars>>
       \/ /\ part = "incoming" /\ Incoming!InNext
          /\ UNCHANGED <<vars, serverVars, dictVars, configVars>>
       \/ /\ part = "dictionary" /\ Dictionary!DictNext
          /\ UNCHANGED <<vars, serverVars, incomingVars, configVars>>
       \/ /\ part = "config" /\ Config!pcx_config_load
          /\ UNCHANGED <<vars, serverVars, incomingVars, dictVars>>
    /\ UNCHANGED part

\* That of the modules.
WebFairness ==
    /\ \A c \in Conns : WF_vars(part = "session" /\ ServerWork(c))
    /\ \A u \in Clients : WF_vars(part = "session" /\ PageWork(u))
    /\ WF_serverVars(part = "server" /\ Registry!Tick)
    /\ WF_serverVars(part = "server" /\ Registry!CollectClients)
    /\ WF_serverVars(part = "server" /\ Registry!CollectPlayers)
    /\ \A s \in {"s1", "s2"} : WF_serverVars(part = "server" /\ Registry!Accept(s))

WebSpec == WebInit /\ [][WebNext]_webVars /\ WebFairness

-----------------------------------------------------------------------------
(* Properties.                                                              *)

\* Every page that stays in the game comes to show the whole log, all the names and the
\* current side-band data (CatchesUp of Session).
PageCatchesUp == \A u \in Clients : []<>(part = "session" => Gone(u) \/ CaughtUp(u))

\* Whoever waits at a listening socket is accepted (WebServer).
EverybodyIsAccepted == Registry!EverybodyIsAccepted

\* When the pages have gone silent, no client, player or conversation is left (WebServer).
EmptiesInTheEnd == Registry!EmptiesInTheEnd

\* What one end has written the other reads: a socket that cuts it into pieces, a file
\* that shares the ends of its words and a configuration of any layout make no difference
\* (pcx-ws-parser.c and process_frames, make-dictionary.c and pcx-dictionary.c,
\* pcx-syllabary.c, pcx-key-value.c and pcx-config.c).
ReadAsWritten ==
    /\ part = "incoming" => Incoming!PiecesDontMatter
    /\ part = "dictionary" => Dictionary!WordsSurvive /\ Dictionary!SyllablesAreFair
    /\ part = "config" => Config!ConfigIsTheFile
=============================================================================
