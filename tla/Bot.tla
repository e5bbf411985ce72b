-------------------------------- MODULE Bot --------------------------------
(***************************************************************************)
(* The games of a Telegram bot (pcx-bot.c): who is in which, the timeout   *)
(* of each, and the file of the users who have written to the bot in       *)
(* private.  Each action is what one update, one entity of a message or    *)
(* one timer makes the bot do; a message with several commands acts like   *)
(* several messages in a row.  An update that only gets an answer (a       *)
(* refusal, /help) is a Message with no further effect.  The games         *)
(* themselves are external: a game that has started goes on or is over.    *)
(***************************************************************************)
EXTENDS Integers, Sequences

CONSTANTS
    Groups,         \* chats that are not private
    Users,          \* from_id; also the chat_id of the user's private chat
    Types,          \* pcx_game_list
    MinPlayers,     \* min_players, by type
    MaxPlayers,     \* max_players
    NeedsPrivate,   \* types with needs_private_messages
    HandlesMessage, \* types with a handle_message_cb
    Addresses,      \* where a struct game may be allocated
    GameTimeout     \* GAME_TIMEOUT

ASSUME ChatsAssumption == Groups \cap Users = {}
ASSUME TypesAssumption ==
    /\ MinPlayers \in [Types -> Nat \ {0}]
    /\ MaxPlayers \in [Types -> Nat]
    /\ \A t \in Types : MinPlayers[t] =< MaxPlayers[t]
    /\ NeedsPrivate \subseteq Types
    /\ HandlesMessage \subseteq Types
ASSUME TimeoutAssumption == GameTimeout \in Nat \ {0}

VARIABLES
    games,          \* bot->games
    timers,         \* the game_timeout_source of the games, with the time left
    known,          \* known_ids
    file            \* the known ids that the file holds

vars == <<games, timers, known, file>>

InGameTimeout == GameTimeout * 2
Timeout(started) == IF started THEN InGameTimeout ELSE GameTimeout

Game == [address : Addresses, chat : Groups, type : Types,
         players : Seq(Users), started : BOOLEAN]
Timer == [game : Addresses, left : 0 .. InGameTimeout]

Init ==
    /\ games = {}
    /\ timers = {}
    /\ known = {}
    /\ file = {}

-----------------------------------------------------------------------------
(* The list of games and their timeouts.                                    *)

In(u, g) == \E i \in DOMAIN g.players : g.players[i] = u

(* Faulty: nobody is looked for.                                            *)
NeverPlaying(u) == FALSE

(* check_already_in_game fails                                              *)
Playing(u) == \E g \in games : In(u, g)

(* Faulty: the id is not looked up.                                         *)
IdUnchecked(u, type) == TRUE

(* check_id_valid_for_game.  A message makes its sender known first.        *)
IdValid(u, type) == type \in NeedsPrivate => u \in known'

(* Faulty: the timer of the game is kept.                                   *)
TimersKept(g) == timers

(* remove_game_timeout_source                                               *)
OtherTimers(g) == {t \in timers : t.game # g.address}

(* set_game_timeout, for a game that has started or not                     *)
SetGameTimeout(g) ==
    timers' = OtherTimers(g) \cup
                  {[game |-> g.address, left |-> Timeout(g.started)]}

RemoveGame(g) ==
    /\ games' = games \ {g}
    /\ timers' = OtherTimers(g)

(* The game old, with what has changed of it, whose timeout begins anew.    *)
Update(old, new) ==
    /\ games' = (games \ {old}) \cup {new}
    /\ SetGameTimeout(new)

StartGame(g) == Update(g, [g EXCEPT !.started = TRUE])

Full(g) == Len(g.players) >= MaxPlayers[g.type]

(* The game g once u has joined it: join_game starts it if it is full.      *)
Joined(g, u) ==
    LET new == [g EXCEPT !.players = Append(@, u)]
    IN  [new EXCEPT !.started = Full(new)]

-----------------------------------------------------------------------------
(* The commands of players.                                                 *)

(* process_create_game                                                      *)
CreateGame(u, chat, type) ==
    /\ chat \in Groups
    /\ \A g \in games : g.chat # chat
    /\ IdValid(u, type)
    /\ ~Playing(u)
    /\ \E a \in Addresses :
           /\ \A g \in games : g.address # a
           /\ LET g == [address |-> a, chat |-> chat, type |-> type,
                        players |-> << >>, started |-> FALSE]
              IN  Update(g, Joined(g, u))

(* process_join                                                             *)
Join(u, chat) ==
    /\ ~Playing(u)
    /\ \E g \in games :
           /\ g.chat = chat
           /\ IdValid(u, g.type)
           /\ ~Full(g)
           /\ ~g.started
           /\ Update(g, Joined(g, u))

(* process_start                                                            *)
Start(u, chat) ==
    \E g \in games :
        /\ g.chat = chat
        /\ ~g.started
        /\ In(u, g)
        /\ Len(g.players) >= MinPlayers[g.type]
        /\ StartGame(g)

(* process_cancel                                                           *)
Cancel(u, chat) ==
    \E g \in games :
        /\ g.chat = chat
        /\ In(u, g)
        /\ RemoveGame(g)

(* A game that hears of a player may be over: then game_over_cb removes it. *)
Play(g) == Update(g, g) \/ RemoveGame(g)

(* process_game_message                                                     *)
GameMessage(u, chat) ==
    \E g \in games :
        /\ g.chat = chat
        /\ g.type \in HandlesMessage
        /\ g.started
        /\ In(u, g)
        /\ Play(g)

-----------------------------------------------------------------------------
(* What arrives from Telegram.                                              *)

(* Faulty: the file is rewritten in its place.                              *)
InPlace(ids) == SUBSET ids

(* save_known_ids: what the file may hold if the bot dies while it replaces *)
(* it with one of ids.  The new file is renamed over the old one.           *)
Renamed(ids) == {file, ids}

Unknown(u, chat) == chat = u /\ u \notin known

(* Faulty: whatever the chat is, it becomes known.                          *)
GreetChat(u, chat) ==
    /\ known' = known \cup {chat}
    /\ file' = known'

(* Faulty: the id is not saved.                                             *)
GreetUnsaved(u, chat) ==
    /\ known' = IF Unknown(u, chat) THEN known \cup {u} ELSE known
    /\ UNCHANGED file

(* process_message, up to its commands: a private message makes its sender  *)
(* known (add_known_id).                                                    *)
Greet(u, chat) ==
    \/ /\ Unknown(u, chat)
       /\ known' = known \cup {u}
       /\ file' = known'
    \/ /\ ~Unknown(u, chat)
       /\ UNCHANGED <<known, file>>

(* process_message                                                          *)
Message(u, chat) ==
    /\ Greet(u, chat)
    /\ \/ \E type \in Types : CreateGame(u, chat, type)
       \/ Join(u, chat)
       \/ Start(u, chat)
       \/ Cancel(u, chat)
       \/ GameMessage(u, chat)
       \/ UNCHANGED <<games, timers>>

(* process_callback: a button of the question which game to create ...      *)
CreateCallback(u, chat) ==
    /\ UNCHANGED <<known, file>>
    /\ \E type \in Types : CreateGame(u, chat, type)

(* ... or of a game, whatever chat it was pressed in.                       *)
GameCallback(u) ==
    /\ UNCHANGED <<known, file>>
    /\ \E g \in games : In(u, g) /\ g.started /\ Play(g)

-----------------------------------------------------------------------------
(* What happens by itself.                                                  *)

(* Faulty: however few have joined.                                         *)
AnyCanStart(g) == ~g.started

(* Faulty: a game that has started is started again.                        *)
StartsAgain(g) == Len(g.players) > 1 /\ Len(g.players) >= MinPlayers[g.type]

CanStart(g) ==
    /\ ~g.started
    /\ Len(g.players) > 1
    /\ Len(g.players) >= MinPlayers[g.type]

(* game_timeout_cb                                                          *)
GameTimesOut(t) ==
    /\ t.left = 0
    /\ \E g \in games :
           /\ g.address = t.game
           /\ \/ CanStart(g) /\ StartGame(g)
              \/ ~CanStart(g) /\ RemoveGame(g)
    /\ UNCHANGED <<known, file>>

(* A timer of the game itself ends it: game_over_cb.                        *)
GameOver ==
    /\ \E g \in games : g.started /\ RemoveGame(g)
    /\ UNCHANGED <<known, file>>

(* Time passes unless a timer is due.                                       *)
Tick ==
    /\ timers # {}
    /\ \A t \in timers : t.left > 0
    /\ timers' = {[t EXCEPT !.left = @ - 1] : t \in timers}
    /\ UNCHANGED <<games, known, file>>

(* The bot dies, or is stopped, and starts again with the known ids ids.    *)
RestartWith(ids) ==
    /\ games' = {}
    /\ timers' = {}
    /\ known' = ids
    /\ file' = ids

Restart == RestartWith(file)

(* The bot dies while it saves that u is known.                             *)
CrashInSave(u) ==
    /\ Unknown(u, u)
    /\ \E ids \in Renamed(known \cup {u}) : RestartWith(ids)

TimedOut == \E t \in timers : GameTimesOut(t)

Next ==
    \/ \E u \in Users : \E chat \in Groups \cup {u} :
           Message(u, chat) \/ CreateCallback(u, chat)
    \/ \E u \in Users : GameCallback(u) \/ CrashInSave(u)
    \/ TimedOut
    \/ GameOver
    \/ Tick
    \/ Restart

Spec == Init /\ [][Next]_vars

(* The loop runs a timer that is due, and time passes.                      *)
FairSpec == Spec /\ WF_vars(TimedOut) /\ WF_vars(Tick)

-----------------------------------------------------------------------------
(* Properties.                                                              *)

(* Every variable holds values of the type the code declares for it; a game *)
(* is listed at one address.                                                *)
TypeOK ==
    /\ games \subseteq Game
    /\ timers \subseteq Timer
    /\ known \subseteq Users
    /\ file \subseteq Users
    /\ \A g, h \in games : g.address = h.address => g = h

(* A chat has one game at most, and a user plays at most once: in one game  *)
(* of one chat, whether they create it by a command or a button or join it. *)
OneGameEach ==
    /\ \A g, h \in games : g.chat = h.chat => g = h
    /\ \A g, h \in games : \A i \in DOMAIN g.players : \A j \in DOMAIN h.players :
           g.players[i] = h.players[j] => g = h /\ i = j

(* Each game of the list has one timer, for no longer than its state allows,*)
(* and no timer is left of a game that is gone, whose memory another game   *)
(* may use.                                                                 *)
TimersMatch ==
    /\ \A g \in games : \E t \in timers :
           t.game = g.address /\ t.left =< Timeout(g.started)
    /\ \A t \in timers : \E g \in games : g.address = t.game
    /\ \A t, s \in timers : t.game = s.game => t = s

(* A game has a player; it has started if it is full, and if it has         *)
(* started, as many play as the rules ask for.                              *)
Playable ==
    \A g \in games :
        /\ Len(g.players) \in 1 .. MaxPlayers[g.type]
        /\ Full(g) => g.started
        /\ g.started => Len(g.players) >= MinPlayers[g.type]

(* Telegram lets the bot write to all players of a game with secrets.       *)
PlayersReachable ==
    \A g \in games : \A i \in DOMAIN g.players :
        g.type \in NeedsPrivate => g.players[i] \in known

(* Whoever has written to the bot in private is known from then on, also    *)
(* after a crash at any moment.                                             *)
ForgetsNobody == [][known \subseteq known']_vars

(* A game of which nobody takes care any more ends: no game is left if from *)
(* some moment on no update arrives.                                        *)
QuietGamesEnd == <>[][TimedOut \/ Tick \/ GameOver]_vars => <>[](games = {})
=============================================================================
