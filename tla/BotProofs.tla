----------------------------- MODULE BotProofs -----------------------------
(***************************************************************************)
(* The games of a bot are sound for any number of chats, users and types   *)
(* of games.  The invariant is put in terms of one game (Sound) and of two *)
(* (Apart), so that a step that changes one game is checked against what   *)
(* that game becomes and against the others.                               *)
(***************************************************************************)
EXTENDS Bot, TLAPS

(* A game by itself, when ids are known.                                    *)
Sound(g, ids) ==
    /\ g \in Game
    /\ \A i, j \in DOMAIN g.players : g.players[i] = g.players[j] => i = j
    /\ Len(g.players) \in 1 .. MaxPlayers[g.type]
    /\ Full(g) => g.started
    /\ g.started => Len(g.players) >= MinPlayers[g.type]
    /\ \A i \in DOMAIN g.players : g.type \in NeedsPrivate => g.players[i] \in ids

Apart(g, h) ==
    /\ g.address # h.address
    /\ g.chat # h.chat
    /\ \A i \in DOMAIN g.players : \A j \in DOMAIN h.players :
           g.players[i] # h.players[j]

Inv ==
    /\ \A g \in games : Sound(g, known)
    /\ \A g, h \in games : g # h => Apart(g, h)
    /\ timers \subseteq Timer
    /\ TimersMatch
    /\ known \subseteq Users
    /\ file = known

(* What a step may do to the known ids without harm.                        *)
Learns ==
    /\ known \subseteq known'
    /\ known' \subseteq Users
    /\ file' = known'

(* The new state of a game can be put in the place of old.                  *)
Fits(old, new) ==
    /\ Sound(new, known')
    /\ new.address = old.address
    /\ \A h \in games \ {old} : Apart(new, h)

(* The invariant is what the runs check.                                    *)
LEMMA InvMeaning ==
    ASSUME Inv
    PROVE  TypeOK /\ OneGameEach /\ TimersMatch /\ Playable /\ PlayersReachable
<1>1. TypeOK
  BY DEF Inv, TypeOK, Sound, Apart
<1>2. OneGameEach
  BY DEF Inv, OneGameEach, Sound, Apart
<1>3. Playable
  BY DEF Inv, Playable, Sound
<1>4. PlayersReachable
  BY DEF Inv, PlayersReachable, Sound
<1> QED  BY <1>1, <1>2, <1>3, <1>4 DEF Inv

(* Known ids only make a game sounder.                                      *)
LEMMA SoundGrows ==
    ASSUME NEW g, NEW ids, NEW more, Sound(g, ids), ids \subseteq more
    PROVE  Sound(g, more)
BY DEF Sound

LEMMA TimeoutType == \A b \in BOOLEAN : Timeout(b) \in 0 .. InGameTimeout
BY TimeoutAssumption DEF Timeout, InGameTimeout

(* Putting a sound game in the place of another, or in a new place, keeps   *)
(* the invariant.                                                           *)
LEMMA UpdateKeeps ==
    ASSUME Inv, Learns, NEW old, NEW new, Fits(old, new), Update(old, new),
           old \in games \/ \A h \in games : h.address # old.address
    PROVE  Inv'
<1> DEFINE kept == OtherTimers(new)
           timer == [game |-> new.address, left |-> Timeout(new.started)]
<1>1. games' = (games \ {old}) \cup {new} /\ timers' = kept \cup {timer}
  BY DEF Update, SetGameTimeout
<1>2. \A g \in games' : Sound(g, known')
  BY <1>1, SoundGrows DEF Inv, Learns, Fits
<1>3. \A g, h \in games' : g # h => Apart(g, h)
  BY <1>1 DEF Inv, Fits, Apart
<1>4. timer \in Timer
  BY TimeoutType DEF Fits, Sound, Game, Timer
<1>5. timers' \subseteq Timer
  BY <1>1, <1>4 DEF Inv, OtherTimers
<1>6. TimersMatch'
  <2>1. ASSUME NEW g \in games'
        PROVE  \E t \in timers' : t.game = g.address /\ t.left =< Timeout(g.started)
    <3>1. CASE g = new
      <4>1. Timeout(new.started) \in Nat
        BY TimeoutType, TimeoutAssumption DEF Fits, Sound, Game, InGameTimeout
      <4>2. timer.game = g.address /\ timer.left =< Timeout(g.started)
        BY <3>1, <4>1
      <4> QED  BY <4>2, <1>1
    <3>2. CASE g # new
      <4>1. g \in games \ {old} /\ Apart(new, g)
        BY <1>1, <3>2 DEF Fits
      <4>2. PICK t \in timers : t.game = g.address /\ t.left =< Timeout(g.started)
        BY <4>1 DEF Inv, TimersMatch
      <4>3. t \in kept
        BY <4>1, <4>2 DEF OtherTimers, Apart
      <4> QED  BY <4>2, <4>3, <1>1
    <3> QED  BY <3>1, <3>2
  <2>2. ASSUME NEW t \in timers'
        PROVE  \E g \in games' : g.address = t.game
    <3>1. CASE t = timer
      BY <3>1, <1>1
    <3>2. CASE t \in kept
      <4>1. t \in timers /\ t.game # new.address
        BY <3>2 DEF OtherTimers
      <4>2. PICK g \in games : g.address = t.game
        BY <4>1 DEF Inv, TimersMatch
      <4>3. g # old
        BY <4>1, <4>2 DEF Fits
      <4> QED  BY <4>2, <4>3, <1>1
    <3> QED  BY <3>1, <3>2, <1>1
  <2>3. ASSUME NEW t \in timers', NEW s \in timers', t.game = s.game
        PROVE  t = s
    BY <2>3, <1>1 DEF Inv, TimersMatch, OtherTimers
  <2> QED  BY <2>1, <2>2, <2>3 DEF TimersMatch
<1> QED  BY <1>2, <1>3, <1>5, <1>6 DEF Inv, Learns

(* So does removing a game.                                                 *)
LEMMA RemoveKeeps ==
    ASSUME Inv, Learns, NEW g \in games, RemoveGame(g)
    PROVE  Inv'
<1>1. games' = games \ {g} /\ timers' = OtherTimers(g)
  BY DEF RemoveGame
<1>2. \A h \in games' : Sound(h, known')
  BY <1>1, SoundGrows DEF Inv, Learns
<1>3. \A h, k \in games' : h # k => Apart(h, k)
  BY <1>1 DEF Inv, Apart
<1>4. timers' \subseteq Timer
  BY <1>1 DEF Inv, OtherTimers
<1>5. TimersMatch'
  <2>1. \A h \in games' : Apart(h, g)
    BY <1>1 DEF Inv
  <2> QED  BY <1>1, <2>1 DEF Inv, TimersMatch, OtherTimers, Apart
<1> QED  BY <1>2, <1>3, <1>4, <1>5 DEF Inv, Learns

(* Nothing happens to the games.                                            *)
LEMMA IdleKeeps ==
    ASSUME Inv, Learns, UNCHANGED <<games, timers>>
    PROVE  Inv'
<1>1. \A g \in games' : Sound(g, known')
  BY SoundGrows DEF Inv, Learns
<1> QED  BY <1>1 DEF Inv, Learns, Apart, TimersMatch

(* A player who plays nowhere can join a game that has room.                *)
LEMMA JoinedFits ==
    ASSUME Inv, Learns, NEW g, NEW u \in Users, ~Playing(u), IdValid(u, g.type),
           g \in Game, ~Full(g), ~g.started,
           \A i, j \in DOMAIN g.players : g.players[i] = g.players[j] => i = j,
           \A i \in DOMAIN g.players :
               g.type \in NeedsPrivate => g.players[i] \in known,
           ~In(u, g),
           \A h \in games \ {g} : Apart(g, h)
    PROVE  Fits(g, Joined(g, u))
<1> DEFINE new == Joined(g, u)
           wider == [g EXCEPT !.players = Append(@, u)]
           n == Len(g.players)
<1>1. /\ new \in Game
      /\ new.address = g.address /\ new.chat = g.chat /\ new.type = g.type
      /\ new.players = Append(g.players, u)
      /\ new.started = Full(new)
  <2>1. /\ wider \in Game
        /\ wider.address = g.address /\ wider.chat = g.chat /\ wider.type = g.type
        /\ wider.players = Append(g.players, u)
    BY DEF Game
  <2>2. Full(wider) \in BOOLEAN
    BY DEF Full
  <2>3. new = [wider EXCEPT !.started = Full(wider)]
    BY DEF Joined
  <2> HIDE DEF wider, new
  <2>4. /\ new \in Game
        /\ new.address = wider.address /\ new.chat = wider.chat
        /\ new.type = wider.type /\ new.players = wider.players
        /\ new.started = Full(wider)
    BY <2>1, <2>2, <2>3 DEF Game
  <2>5. Full(new) = Full(wider)
    BY <2>4 DEF Full
  <2> QED  BY <2>1, <2>4, <2>5
<1>2. /\ n \in Nat /\ DOMAIN g.players = 1 .. n
      /\ DOMAIN new.players = 1 .. n + 1 /\ Len(new.players) = n + 1
      /\ \A i \in 1 .. n : new.players[i] = g.players[i]
      /\ new.players[n + 1] = u
  BY <1>1 DEF Game
<1> HIDE DEF new
<1>3. n + 1 \in 1 .. MaxPlayers[new.type]
  BY <1>1, <1>2, TypesAssumption DEF Full, Game
<1>4. \A i, j \in DOMAIN new.players : new.players[i] = new.players[j] => i = j
  BY <1>2, SMTT(30) DEF In
<1>5. \A i \in DOMAIN new.players :
          new.type \in NeedsPrivate => new.players[i] \in known'
  BY <1>1, <1>2 DEF IdValid, Learns
<1>6. new.started => Len(new.players) >= MinPlayers[new.type]
  BY <1>1, <1>2, TypesAssumption DEF Full, Game
<1>7. Sound(new, known')
  BY <1>1, <1>2, <1>3, <1>4, <1>5, <1>6 DEF Sound
<1>8. ASSUME NEW h \in games \ {g}
      PROVE  Apart(new, h)
  <2>1. \A j \in DOMAIN h.players : h.players[j] # u
    BY <1>8 DEF Playing, In
  <2>2. \A i \in DOMAIN new.players : \A j \in DOMAIN h.players :
            new.players[i] # h.players[j]
    BY <2>1, <1>2, <1>8 DEF Apart
  <2> QED  BY <2>2, <1>1, <1>8 DEF Apart
<1> QED  BY <1>1, <1>7, <1>8 DEF Fits, new

(* A game of which only the start changes stays apart from the others.      *)
LEMMA SamePlayersFit ==
    ASSUME Inv, Learns, NEW g \in games, NEW b \in BOOLEAN,
           g.started => b,
           b => Len(g.players) >= MinPlayers[g.type]
    PROVE  Fits(g, [g EXCEPT !.started = b])
<1> DEFINE new == [g EXCEPT !.started = b]
<1>1. Sound(g, known)
  BY DEF Inv
<1>2. /\ new \in Game /\ new.address = g.address /\ new.chat = g.chat
      /\ new.type = g.type /\ new.players = g.players /\ new.started = b
  BY <1>1 DEF Sound, Game
<1>3. Full(new) = Full(g)
  BY <1>2 DEF Full
<1> HIDE DEF new
<1>4. Sound(new, known')
  BY <1>1, <1>2, <1>3 DEF Sound, Learns
<1>5. \A h \in games \ {g} : Apart(new, h)
  BY <1>2 DEF Inv, Apart
<1> QED  BY <1>2, <1>4, <1>5 DEF Fits, new

-----------------------------------------------------------------------------
(* The steps.                                                               *)

LEMMA GreetLearns ==
    ASSUME Inv, NEW u \in Users, NEW chat, Greet(u, chat)
    PROVE  Learns
BY DEF Inv, Greet, Learns

LEMMA SameLearns ==
    ASSUME Inv, UNCHANGED <<known, file>>
    PROVE  Learns
BY DEF Inv, Learns

LEMMA CreateGameKeeps ==
    ASSUME Inv, Learns, NEW u \in Users, NEW chat, NEW type \in Types,
           CreateGame(u, chat, type)
    PROVE  Inv'
<1>1. PICK a \in Addresses :
          /\ \A h \in games : h.address # a
          /\ LET g == [address |-> a, chat |-> chat, type |-> type,
                       players |-> << >>, started |-> FALSE]
             IN  Update(g, Joined(g, u))
  BY DEF CreateGame
<1> DEFINE g == [address |-> a, chat |-> chat, type |-> type,
                 players |-> << >>, started |-> FALSE]
<1>2. /\ g \in Game /\ g.address = a /\ g.type = type /\ ~g.started
      /\ g.chat = chat /\ g.players = << >>
  BY DEF CreateGame, Game
<1>3. Update(g, Joined(g, u))
  BY <1>1
<1> HIDE DEF g
<1>4. ~Full(g)
  BY <1>2, TypesAssumption DEF Full
<1>5. ~In(u, g)
  BY <1>2 DEF In
<1>6. \A h \in games \ {g} : Apart(g, h)
  BY <1>1, <1>2 DEF CreateGame, Apart
<1>7. ~Playing(u) /\ IdValid(u, g.type)
  BY <1>2 DEF CreateGame
<1>8. Fits(g, Joined(g, u))
  BY <1>2, <1>4, <1>5, <1>6, <1>7, JoinedFits
<1>9. \A h \in games : h.address # g.address
  BY <1>1, <1>2
<1> QED  BY <1>3, <1>8, <1>9, UpdateKeeps

LEMMA JoinKeeps ==
    ASSUME Inv, Learns, NEW u \in Users, NEW chat, Join(u, chat)
    PROVE  Inv'
<1>1. PICK g \in games :
          /\ IdValid(u, g.type) /\ ~Full(g) /\ ~g.started
          /\ Update(g, Joined(g, u))
  BY DEF Join
<1>2. ~Playing(u) /\ ~In(u, g)
  BY DEF Join, Playing
<1>3. Sound(g, known) /\ \A h \in games \ {g} : Apart(g, h)
  BY DEF Inv
<1>4. Fits(g, Joined(g, u))
  BY <1>1, <1>2, <1>3, JoinedFits DEF Sound
<1> QED  BY <1>1, <1>4, UpdateKeeps

LEMMA StartGameKeeps ==
    ASSUME Inv, Learns, NEW g \in games, StartGame(g),
           Len(g.players) >= MinPlayers[g.type]
    PROVE  Inv'
<1>1. Fits(g, [g EXCEPT !.started = TRUE])
  BY SamePlayersFit
<1> QED  BY <1>1, UpdateKeeps DEF StartGame

LEMMA PlayKeeps ==
    ASSUME Inv, Learns, NEW g \in games, Play(g)
    PROVE  Inv'
<1>1. CASE Update(g, g)
  <2>1. Sound(g, known') /\ \A h \in games \ {g} : Apart(g, h)
    BY SoundGrows DEF Inv, Learns
  <2>2. Fits(g, g)
    BY <2>1 DEF Fits
  <2> QED  BY <1>1, <2>2, UpdateKeeps
<1>2. CASE RemoveGame(g)
  BY <1>2, RemoveKeeps
<1> QED  BY <1>1, <1>2 DEF Play

LEMMA MessageKeeps ==
    ASSUME Inv, NEW u \in Users, NEW chat, Message(u, chat)
    PROVE  Inv' /\ known \subseteq known'
<1>1. Learns
  BY GreetLearns DEF Message
<1>2. ASSUME \E type \in Types : CreateGame(u, chat, type)
      PROVE  Inv'
  BY <1>1, <1>2, CreateGameKeeps
<1>3. ASSUME Join(u, chat)
      PROVE  Inv'
  BY <1>1, <1>3, JoinKeeps
<1>4. ASSUME Start(u, chat)
      PROVE  Inv'
  BY <1>1, <1>4, StartGameKeeps DEF Start
<1>5. ASSUME Cancel(u, chat)
      PROVE  Inv'
  BY <1>1, <1>5, RemoveKeeps DEF Cancel
<1>6. ASSUME GameMessage(u, chat)
      PROVE  Inv'
  BY <1>1, <1>6, PlayKeeps DEF GameMessage
<1>7. ASSUME UNCHANGED <<games, timers>>
      PROVE  Inv'
  BY <1>1, <1>7, IdleKeeps
<1>8. Inv'
  BY <1>2, <1>3, <1>4, <1>5, <1>6, <1>7 DEF Message
<1> QED  BY <1>1, <1>8 DEF Learns

LEMMA TimesOutKeeps ==
    ASSUME Inv, NEW t \in timers, GameTimesOut(t)
    PROVE  Inv' /\ known \subseteq known'
<1>1. Learns
  BY SameLearns DEF GameTimesOut
<1>2. PICK g \in games : \/ CanStart(g) /\ StartGame(g)
                         \/ RemoveGame(g)
  BY DEF GameTimesOut
<1>3. Inv'
  BY <1>1, <1>2, StartGameKeeps, RemoveKeeps DEF CanStart
<1> QED  BY <1>1, <1>3 DEF Learns

LEMMA TickKeeps ==
    ASSUME Inv, Tick
    PROVE  Inv' /\ known \subseteq known'
<1> DEFINE Later(t) == [t EXCEPT !.left = @ - 1]
<1>1. /\ timers' = {Later(t) : t \in timers}
      /\ UNCHANGED <<games, known, file>>
  BY DEF Tick
<1>2. ASSUME NEW t \in timers
      PROVE  /\ Later(t) \in Timer
             /\ Later(t).game = t.game
             /\ Later(t).left = t.left - 1
             /\ t.left \in Nat
  BY TimeoutAssumption DEF Inv, Tick, Timer, InGameTimeout
<1> HIDE DEF Later
<1>3. timers' \subseteq Timer
  BY <1>1, <1>2
<1>4. TimersMatch'
  <2>1. ASSUME NEW g \in games
        PROVE  \E t \in timers' : t.game = g.address /\ t.left =< Timeout(g.started)
    <3>1. PICK t \in timers : t.game = g.address /\ t.left =< Timeout(g.started)
      BY DEF Inv, TimersMatch
    <3>2. Timeout(g.started) \in Int
      BY TimeoutType, TimeoutAssumption DEF Inv, Sound, Game, InGameTimeout
    <3>3. Later(t) \in timers' /\ Later(t).game = g.address
          /\ Later(t).left =< Timeout(g.started)
      BY <1>1, <1>2, <3>1, <3>2
    <3> QED  BY <3>3
  <2>2. \A t \in timers' : \E g \in games : g.address = t.game
    BY <1>1, <1>2 DEF Inv, TimersMatch
  <2>3. \A t, s \in timers' : t.game = s.game => t = s
    BY <1>1, <1>2 DEF Inv, TimersMatch
  <2> QED  BY <1>1, <2>1, <2>2, <2>3 DEF TimersMatch
<1> QED  BY <1>1, <1>3, <1>4 DEF Inv, Apart

LEMMA RestartKeeps ==
    ASSUME NEW ids \in SUBSET Users, RestartWith(ids)
    PROVE  Inv'
BY DEF RestartWith, Inv, TimersMatch

LEMMA NextKeeps ==
    ASSUME Inv, [Next]_vars
    PROVE  Inv' /\ known \subseteq known'
<1>1. CASE \E u \in Users : \E chat \in Groups \cup {u} : Message(u, chat)
  BY <1>1, MessageKeeps
<1>2. ASSUME NEW u \in Users, NEW chat, CreateCallback(u, chat)
      PROVE  Inv' /\ known \subseteq known'
  <2>1. Learns
    BY <1>2, SameLearns DEF CreateCallback
  <2> QED  BY <1>2, <2>1, CreateGameKeeps DEF CreateCallback, Learns
<1>3. ASSUME NEW u \in Users, GameCallback(u)
      PROVE  Inv' /\ known \subseteq known'
  <2>1. Learns
    BY <1>3, SameLearns DEF GameCallback
  <2> QED  BY <1>3, <2>1, PlayKeeps DEF GameCallback, Learns
<1>4. ASSUME NEW u \in Users, CrashInSave(u)
      PROVE  Inv' /\ known \subseteq known'
  <2>1. PICK ids \in Renamed(known \cup {u}) : RestartWith(ids)
    BY <1>4 DEF CrashInSave
  <2>2. ids \in SUBSET Users /\ known \subseteq ids
    BY <2>1 DEF Inv, Renamed
  <2> QED  BY <2>1, <2>2, RestartKeeps DEF RestartWith
<1>5. CASE TimedOut
  BY <1>5, TimesOutKeeps DEF TimedOut
<1>6. CASE GameOver
  <2>1. Learns
    BY <1>6, SameLearns DEF GameOver
  <2> QED  BY <1>6, <2>1, RemoveKeeps DEF GameOver, Learns
<1>7. CASE Tick
  BY <1>7, TickKeeps
<1>8. CASE Restart
  BY <1>8, RestartKeeps DEF Restart, RestartWith, Inv
<1>9. CASE UNCHANGED vars
  <2>1. Learns /\ UNCHANGED <<games, timers>>
    BY <1>9 DEF vars, Inv, Learns
  <2> QED  BY <2>1, IdleKeeps DEF Learns
<1> QED  BY <1>1, <1>2, <1>3, <1>4, <1>5, <1>6, <1>7, <1>8, <1>9 DEF Next

LEMMA InitSound == Init => Inv
BY DEF Init, Inv, TimersMatch

LEMMA Invariance == Spec => []Inv
<1>1. Inv /\ [Next]_vars => Inv'
  BY NextKeeps
<1> QED  BY InitSound, <1>1, PTL DEF Spec

(* Every variable keeps its type, and no two games are at one address.      *)
THEOREM TypeCorrect == Spec => []TypeOK
<1>1. Inv => TypeOK
  BY InvMeaning
<1> QED  BY Invariance, <1>1, PTL

(* In every state of every bot a chat has one game at most, and nobody      *)
(* plays twice.                                                             *)
THEOREM NobodyPlaysTwice == Spec => []OneGameEach
<1>1. Inv => OneGameEach
  BY InvMeaning
<1> QED  BY Invariance, <1>1, PTL

(* Each game has one timer, that runs no longer than its state allows, and  *)
(* each timer has a game: no timer of a freed game ever runs.               *)
THEOREM TimersHaveGames == Spec => []TimersMatch
<1>1. Inv => TimersMatch
  BY InvMeaning
<1> QED  BY Invariance, <1>1, PTL

(* A game never has more players than its rules allow, a full one has       *)
(* started, and none starts with fewer than its rules want.                 *)
THEOREM GamesArePlayable == Spec => []Playable
<1>1. Inv => Playable
  BY InvMeaning
<1> QED  BY Invariance, <1>1, PTL

(* The bot may write to each player of a game with secrets.                 *)
THEOREM SecretsReachPlayers == Spec => []PlayersReachable
<1>1. Inv => PlayersReachable
  BY InvMeaning
<1> QED  BY Invariance, <1>1, PTL

(* No step, not even the death of the bot, makes it forget a user who has   *)
(* written to it.                                                           *)
THEOREM NobodyIsForgotten == Spec => ForgetsNobody
<1>1. Inv /\ [Next]_vars => Inv'
  BY NextKeeps
<1>2. Inv /\ [Next]_vars => [known \subseteq known']_vars
  BY NextKeeps
<1> QED  BY InitSound, <1>1, <1>2, PTL DEF Spec, ForgetsNobody
=============================================================================
