-------------------------- MODULE WebServerProofs --------------------------
(* The registry of the web games frees nothing that is in use and keeps    *)
(* nothing for ever, for any number of pages, listening sockets and games, *)
(* and any limits.                                                         *)
(*                                                                         *)
(* Three tables refer to each other by counts: sockets to players, players *)
(* to conversations. Each count is the size of the set of those who refer. *)
(* That a game hears once of everyone who goes rests on its players having *)
(* numbers of their own, and the bounds on silence on the collectors: what *)
(* is old plus what is left until the collector runs does not grow.        *)
EXTENDS WebServer, FiniteSetTheorems, SequenceTheorems, TLAPS

Clients == [state : {"away", "queued", "open", "closed"},
            player : Nat, idle : Nat, bytes : Nat]
Players == [conv : Nat \ {0}, num : Numbers, left : BOOLEAN, idle : Nat,
            refs : Nat, kept : BOOLEAN]
Conversations == [kind : Kinds, private : BOOLEAN, n : 0 .. MaxPlayers,
                  started : BOOLEAN, pending : BOOLEAN, refs : Nat,
                  told : [Numbers -> Nat]]

(* A socket that waits to be accepted waits once.                           *)
QueuedOnce ==
    \A s \in Listeners : \A i \in 1 .. Len(backlog[s]) :
        /\ client[backlog[s][i]].state = "queued"
        /\ \A r \in Listeners : \A j \in 1 .. Len(backlog[r]) :
               backlog[r][j] = backlog[s][i] => r = s /\ j = i

(* Only an open socket has a player and an age.                             *)
OpenOnly ==
    /\ IsFiniteSet(Opened)
    /\ \A c \in Conns : client[c].state # "open" =>
           client[c].player = None /\ client[c].idle = 0

Users(id) == {c \in Opened : client[c].player = id}
Members(i) == {id \in Kept : player[id].conv = i}

(* The player of a socket is there, and as fresh as the socket.             *)
PlayersThere ==
    \A c \in Opened : client[c].player # None =>
        /\ client[c].player \in Kept
        /\ player[client[c].player].idle =< client[c].idle

PlayersCounted ==
    \A id \in DOMAIN player : player[id].refs = Cardinality(Users(id))

(* Every player has a number in its conversation.                           *)
PlayersPlaced ==
    \A id \in DOMAIN player :
        /\ player[id].conv \in DOMAIN conv
        /\ player[id].num < conv[player[id].conv].n
        /\ \A other \in DOMAIN player :
               /\ player[other].conv = player[id].conv
               /\ player[other].num = player[id].num
               => other = id

MembersCounted ==
    \A i \in DOMAIN conv :
        conv[i].refs = Count(conv[i].pending) + Cardinality(Members(i))

(* Nobody was told of numbers that have no player yet.                      *)
NoneToldEarly ==
    \A i \in DOMAIN conv : \A p \in Numbers :
        conv[i].n =< p => conv[i].told[p] = 0

PendingJoinable ==
    \A i \in DOMAIN conv : conv[i].pending =>
        /\ ~conv[i].started
        /\ conv[i].n \in 1 .. MaxPlayers - 1
        /\ \A id \in DOMAIN player :
               player[id].conv = i => player[id].kept /\ ~player[id].left

OfferedOnce == \A kind \in Kinds : \A i, j \in Offered(kind) : i = j

(* The age of a socket or of a player and the time until the collector runs *)
(* are not too long together.                                               *)
ClientsAge ==
    \A c \in Opened : clientGc # Stopped /\ client[c].idle + clientGc < 2 * MaxAge
PlayersAge ==
    \A id \in Kept : playerGc # Stopped /\ player[id].idle + playerGc < 3 * MaxAge

(* The inductive invariant, by the tables it is about.                      *)
ClientsInv == QueuedOnce /\ OpenOnly
UsersInv == PlayersThere /\ PlayersCounted
ConvInv ==
    /\ PlayersPlaced /\ MembersCounted /\ GoneToldOnce /\ NoneToldEarly
    /\ PendingJoinable /\ OfferedOnce
AgesInv == ClientsAge /\ PlayersAge
ServerInv == TypeOK /\ ClientsInv /\ UsersInv /\ ConvInv /\ AgesInv

-----------------------------------------------------------------------------
(* The types.                                                              *)

(* Players and conversations are addressed by position.                    *)
LEMMA Positions ==
    ASSUME TypeOK
    PROVE  /\ client \in [Conns -> Clients]
           /\ player \in Seq(Players) /\ Len(player) \in Nat
           /\ DOMAIN player = 1 .. Len(player)
           /\ \A id \in DOMAIN player : player[id] \in Players
           /\ conv \in Seq(Conversations) /\ Len(conv) \in Nat
           /\ DOMAIN conv = 1 .. Len(conv)
           /\ \A i \in DOMAIN conv : conv[i] \in Conversations
  <1>1. player \in Seq(Players) /\ conv \in Seq(Conversations) /\ client \in [Conns -> Clients]
    BY DEF TypeOK, Clients, Players, Conversations
  <1> QED
    BY <1>1, LenProperties, ElementOfSeq

(* A table that keeps its length and the types of its rows keeps its own.   *)
LEMMA TableOK ==
    ASSUME NEW S, NEW n \in Nat, NEW t, t = [i \in 1 .. n |-> t[i]],
           \A i \in 1 .. n : t[i] \in S
    PROVE  t \in Seq(S)
  BY SeqDef

-----------------------------------------------------------------------------
(* What the operations on a conversation do to it.                         *)

(* The count of its references follows the mark.                           *)
Withdrawn(old, new) ==
    /\ new \in Conversations
    /\ new.kind = old.kind /\ new.private = old.private /\ new.n = old.n
    /\ new.refs - Count(new.pending) = old.refs - Count(old.pending)
    /\ new.pending => old.pending /\ new.started = old.started

LEMMA Fields ==
    ASSUME NEW cv \in Conversations
    PROVE  /\ cv.kind \in Kinds /\ cv.private \in BOOLEAN /\ cv.n \in 0 .. MaxPlayers
           /\ cv.started \in BOOLEAN /\ cv.pending \in BOOLEAN /\ cv.refs \in Nat
           /\ cv.told \in [Numbers -> Nat] /\ Count(cv.pending) \in {0, 1}
  BY DEF Conversations, Count

LEMMA RemovePendingWithdraws ==
    ASSUME NEW cv \in Conversations, Count(cv.pending) =< cv.refs
    PROVE  /\ Withdrawn(cv, RemovePending(cv))
           /\ ~RemovePending(cv).pending
           /\ RemovePending(cv).told = cv.told
           /\ RemovePending(cv).started = cv.started
<1> DEFINE refs == cv.refs - Count(cv.pending)
<1>1. refs \in Nat
  BY Fields DEF Count
<1>2. RemovePending(cv) = [cv EXCEPT !.pending = FALSE, !.refs = refs]
  BY DEF RemovePending
<1> HIDE DEF refs
<1>3. LET new == [cv EXCEPT !.pending = FALSE, !.refs = refs]
      IN  /\ new \in Conversations
          /\ new.kind = cv.kind /\ new.private = cv.private /\ new.n = cv.n
          /\ new.started = cv.started /\ new.told = cv.told
          /\ new.pending = FALSE /\ new.refs = refs
  BY <1>1 DEF Conversations
<1> QED
  BY <1>1, <1>2, <1>3 DEF Withdrawn, Count, refs

LEMMA StartWithdraws ==
    ASSUME NEW cv \in Conversations, Count(cv.pending) =< cv.refs
    PROVE  /\ Withdrawn(cv, Start(cv))
           /\ Start(cv).told = cv.told
           /\ ~cv.started /\ MinPlayers =< cv.n => ~Start(cv).pending
<1> DEFINE new == [cv EXCEPT !.started = TRUE]
<1>1. /\ new \in Conversations
      /\ new.kind = cv.kind /\ new.private = cv.private /\ new.n = cv.n
      /\ new.started = TRUE /\ new.told = cv.told
      /\ new.pending = cv.pending /\ new.refs = cv.refs
  BY DEF Conversations
<1>2. Start(cv) = IF cv.started \/ cv.n < MinPlayers THEN cv ELSE RemovePending(new)
  BY DEF Start
<1> HIDE DEF new
<1>3. Withdrawn(new, RemovePending(new)) /\ ~RemovePending(new).pending
      /\ RemovePending(new).told = cv.told
  BY <1>1, RemovePendingWithdraws
<1>4. Withdrawn(cv, cv)
  BY Fields DEF Withdrawn
<1>5. Withdrawn(cv, RemovePending(new))
  BY <1>1, <1>3, Fields DEF Withdrawn
<1>6. ~cv.started /\ MinPlayers =< cv.n => ~(cv.started \/ cv.n < MinPlayers)
  BY Fields, PlayersAssumption DEF PlayersAssumption
<1> QED
  BY <1>2, <1>3, <1>4, <1>5, <1>6

LEMMA ToldWithdraws ==
    ASSUME NEW cv \in Conversations, Count(cv.pending) =< cv.refs, NEW nums
    PROVE  /\ Withdrawn(cv, Told(cv, nums))
           /\ nums # {} => ~Told(cv, nums).pending
           /\ \A p \in Numbers : Told(cv, nums).told[p] = cv.told[p] + Count(p \in nums)
<1> DEFINE told == [p \in Numbers |-> cv.told[p] + Count(p \in nums)]
           new == [cv EXCEPT !.told = told]
<1>1. told \in [Numbers -> Nat]
  BY DEF Count, Conversations
<1>2. new \in Conversations /\ new.told = told /\ new.pending = cv.pending
      /\ new.refs = cv.refs /\ new.kind = cv.kind /\ new.n = cv.n
      /\ new.private = cv.private /\ new.started = cv.started
  BY <1>1 DEF Conversations
<1>3. CASE nums = {}
  <2>1. Told(cv, nums) = cv
    BY <1>3 DEF Told
  <2>2. \A p \in Numbers : cv.told[p] = cv.told[p] + Count(p \in nums)
    BY <1>3, Fields DEF Count
  <2>3. Withdrawn(cv, cv)
    BY Fields DEF Withdrawn
  <2> QED
    BY <1>3, <2>1, <2>2, <2>3
<1>4. CASE nums # {}
  <2>1. Told(cv, nums) = RemovePending(new)
    BY <1>4, Zenon DEF Told
  <2> HIDE DEF new
  <2>2. Withdrawn(new, RemovePending(new)) /\ ~RemovePending(new).pending
        /\ RemovePending(new).told = told
    BY <1>2, RemovePendingWithdraws
  <2> QED
    BY <2>1, <2>2, <1>2, <1>4 DEF Withdrawn
<1> QED
  BY <1>3, <1>4

(* A newcomer is counted, and a game that is full is off the list.          *)
LEMMA JoinedCounts ==
    ASSUME NEW cv \in Conversations, cv.pending, ~cv.started, cv.refs >= 1,
           cv.n < MaxPlayers
    PROVE  /\ Joined(cv) \in Conversations
           /\ Joined(cv).kind = cv.kind /\ Joined(cv).private = cv.private
           /\ Joined(cv).n = cv.n + 1 /\ Joined(cv).told = cv.told
           /\ Joined(cv).refs - Count(Joined(cv).pending) = cv.refs
           /\ Joined(cv).pending => ~Joined(cv).started /\ Joined(cv).n < MaxPlayers
<1> DEFINE new == [cv EXCEPT !.n = cv.n + 1, !.refs = cv.refs + 1]
<1>1. cv.n + 1 \in 0 .. MaxPlayers /\ cv.refs + 1 \in Nat
  BY PlayersAssumption, Fields DEF PlayersAssumption
<1>2. new \in Conversations /\ new.told = cv.told /\ new.pending = cv.pending
      /\ new.refs = cv.refs + 1 /\ new.kind = cv.kind /\ new.n = cv.n + 1
      /\ new.private = cv.private /\ new.started = cv.started
  BY <1>1 DEF Conversations
<1>3. Joined(cv) = IF new.n >= MaxPlayers THEN Start(new) ELSE new
  BY DEF Joined
<1> HIDE DEF new
<1>4. Count(new.pending) = 1 /\ cv.refs \in Nat /\ new.refs - 1 = cv.refs
      /\ 1 =< new.refs
  <2>1. Count(new.pending) = 1
    BY <1>2 DEF Count
  <2>2. cv.refs \in Nat /\ new.refs = cv.refs + 1
    BY <1>2, Fields
  <2> QED
    BY <2>1, <2>2
<1>5. CASE new.n >= MaxPlayers
  <2>1. MinPlayers =< new.n
    BY <1>5, <1>2, Fields, PlayersAssumption DEF PlayersAssumption
  <2>2. Count(new.pending) =< new.refs
    BY <1>4
  <2>3. Withdrawn(new, Start(new)) /\ ~Start(new).pending /\ Start(new).told = new.told
    BY <1>2, <2>1, <2>2, StartWithdraws
  <2>4. Start(new).refs - Count(Start(new).pending) = cv.refs
    BY <2>3, <1>4, <1>2, Fields DEF Withdrawn
  <2> QED
    BY <1>2, <1>3, <1>5, <2>3, <2>4 DEF Withdrawn
<1>6. CASE ~(new.n >= MaxPlayers)
  <2>1. new.n < MaxPlayers
    BY <1>2, <1>6, Fields, PlayersAssumption DEF PlayersAssumption
  <2>2. new.refs - Count(new.pending) = cv.refs
    BY <1>4
  <2> QED
    BY <1>2, <1>3, <1>6, <2>1, <2>2
<1> QED
  BY <1>5, <1>6

-----------------------------------------------------------------------------
(* What a step must respect for a part of the invariant to survive it.     *)

(* Sockets that wait, were closed or are away are left alone.              *)
LEMMA ClientsFrame ==
    ASSUME TypeOK, TypeOK', ClientsInv, UNCHANGED backlog,
           \A c \in Conns : client[c].state # "open" => client'[c] = client[c],
           \A c \in Conns : client[c].state = "open" =>
               client'[c].state = "open" \/ client'[c] = Closed
    PROVE  ClientsInv'
<1>1. Opened' \subseteq Opened
  BY DEF Opened
<1>2. IsFiniteSet(Opened')
  BY <1>1, FS_Subset DEF ClientsInv, OpenOnly
<1>3. \A c \in Conns : client'[c].state # "open" =>
          client'[c].player = None /\ client'[c].idle = 0
  BY DEF ClientsInv, OpenOnly, Closed, NewClient
<1>4. QueuedOnce'
  <2>1. \A s \in Listeners : backlog[s] \in Seq(Conns)
    BY DEF TypeOK
  <2>2. \A s \in Listeners : \A i \in 1 .. Len(backlog[s]) : backlog[s][i] \in Conns
    BY <2>1, ElementOfSeq
  <2> QED
    BY <2>2 DEF ClientsInv, QueuedOnce
<1> QED
  BY <1>2, <1>3, <1>4 DEF ClientsInv, OpenOnly

(* Every socket that is open keeps its player, which stays as fresh.       *)
LEMMA UsersFrame ==
    ASSUME TypeOK, OpenOnly, UsersInv, DOMAIN player' = DOMAIN player,
           \A c \in Conns :
               /\ client'[c].player = client[c].player
               /\ client[c].player # None =>
                      (client'[c].state = "open" <=> client[c].state = "open"),
           \A id \in DOMAIN player : player'[id].refs = player[id].refs,
           \A c \in Opened : client[c].player # None =>
               /\ player'[client[c].player].kept
               /\ player'[client[c].player].idle =< client'[c].idle
    PROVE  UsersInv'
<1>1. \A id \in DOMAIN player : Users(id)' = Users(id)
  BY Positions DEF Users, Opened, None
<1>2. PlayersCounted'
  BY <1>1 DEF UsersInv, PlayersCounted
<1>3. \A c \in Opened' : client'[c].player # None => c \in Opened
  BY DEF Opened
<1>4. PlayersThere'
  BY <1>3 DEF UsersInv, PlayersThere, Kept, Opened
<1> QED
  BY <1>2, <1>4 DEF UsersInv

(* Players keep their places; who goes is told to a game that is closed to  *)
(* newcomers from then on.                                                  *)
LEMMA ConvFrame ==
    ASSUME TypeOK, TypeOK', ConvInv,
           DOMAIN player' = DOMAIN player, DOMAIN conv' = DOMAIN conv,
           \A id \in DOMAIN player :
               player'[id].conv = player[id].conv /\ player'[id].num = player[id].num,
           \A i \in DOMAIN conv :
               /\ conv'[i].kind = conv[i].kind /\ conv'[i].private = conv[i].private
               /\ conv'[i].n = conv[i].n
               /\ conv'[i].pending => conv[i].pending /\ conv'[i].started = conv[i].started,
           \A id \in DOMAIN player : conv'[player[id].conv].pending =>
               player'[id].left = player[id].left /\ player'[id].kept = player[id].kept,
           \A i \in DOMAIN conv : \A p \in Numbers :
               conv[i].n =< p => conv'[i].told[p] = conv[i].told[p],
           MembersCounted', GoneToldOnce'
    PROVE  ConvInv'
<1>1. PlayersPlaced'
  BY DEF ConvInv, PlayersPlaced
<1>2. NoneToldEarly'
  BY DEF ConvInv, NoneToldEarly
<1>3. PendingJoinable'
  BY DEF ConvInv, PendingJoinable, PlayersPlaced
<1>4. OfferedOnce'
  BY DEF ConvInv, OfferedOnce, Offered
<1> QED
  BY <1>1, <1>2, <1>3, <1>4 DEF ConvInv

(* Steps that are not about conversations.                                  *)
LEMMA ConvKept ==
    ASSUME TypeOK, TypeOK', ConvInv, UNCHANGED conv, DOMAIN player' = DOMAIN player,
           \A id \in DOMAIN player :
               /\ player'[id].conv = player[id].conv /\ player'[id].num = player[id].num
               /\ player'[id].left = player[id].left /\ player'[id].kept = player[id].kept
    PROVE  ConvInv'
<1>1. \A i \in DOMAIN conv : Members(i)' = Members(i)
  BY DEF Members, Kept
<1>2. MembersCounted'
  BY <1>1 DEF ConvInv, MembersCounted
<1>3. GoneToldOnce'
  BY DEF ConvInv, GoneToldOnce
<1> QED
  BY <1>2, <1>3, ConvFrame

-----------------------------------------------------------------------------
(* Listening.                                                              *)

LEMMA InitOK == Init => ServerInv
<1> SUFFICES ASSUME Init PROVE ServerInv
  OBVIOUS
<1>1. TypeOK
  <2>1. player \in Seq(Players) /\ conv \in Seq(Conversations)
    BY EmptySeq DEF Init
  <2>2. \A s \in Listeners : backlog[s] \in Seq(Conns)
    BY EmptySeq DEF Init
  <2>3. clientGc \in {Stopped} /\ playerGc \in {Stopped}
    BY DEF Init
  <2> QED
    BY <2>1, <2>2, <2>3
       DEF Init, TypeOK, NewClient, None, Players, Conversations
<1>2. Opened = {} /\ DOMAIN player = {} /\ DOMAIN conv = {}
      /\ Len(player) = 0
  BY EmptySeq DEF Init, Opened, NewClient
<1>3. ClientsInv
  <2>1. \A s \in Listeners : 1 .. Len(backlog[s]) = {}
    BY DEF Init
  <2> QED
    BY <1>2, <2>1, FS_EmptySet DEF ClientsInv, QueuedOnce, OpenOnly, Init, NewClient, None
<1>4. UsersInv
  BY <1>2 DEF UsersInv, PlayersThere, PlayersCounted
<1>5. ConvInv
  BY <1>2 DEF ConvInv, PlayersPlaced, MembersCounted, GoneToldOnce, NoneToldEarly,
              PendingJoinable, OfferedOnce, Offered
<1>6. AgesInv
  BY <1>2 DEF AgesInv, ClientsAge, PlayersAge, Kept
<1> QED
  BY <1>1, <1>3, <1>4, <1>5, <1>6 DEF ServerInv

LEMMA DialOK ==
    ASSUME ServerInv, NEW c \in Conns, NEW s \in Listeners, Dial(c, s)
    PROVE  ServerInv'
<1> USE DEF ServerInv, Dial
<1>1. client'[c] = [client[c] EXCEPT !.state = "queued"]
      /\ \A d \in Conns : d # c => client'[d] = client[d]
  BY DEF TypeOK
<1>2. /\ client[c].state = "away" /\ client'[c].state = "queued"
      /\ client'[c].player = client[c].player /\ client'[c].idle = client[c].idle
  BY <1>1 DEF TypeOK
<1>3. backlog[s] \in Seq(Conns)
  BY DEF TypeOK
<1>4. /\ Len(backlog'[s]) = Len(backlog[s]) + 1
      /\ backlog'[s] \in Seq(Conns)
      /\ \A i \in 1 .. Len(backlog[s]) : backlog'[s][i] = backlog[s][i]
      /\ backlog'[s][Len(backlog[s]) + 1] = c
      /\ \A r \in Listeners : r # s => backlog'[r] = backlog[r]
  BY <1>3, AppendProperties DEF TypeOK
<1>5. TypeOK'
  <2>1. client' \in [Conns -> Clients]
    BY Positions DEF Clients
  <2>2. backlog' \in [Listeners -> Seq(Conns)]
    BY <1>4 DEF TypeOK
  <2> QED
    BY <2>1, <2>2 DEF TypeOK, Clients
<1>6. Opened' = Opened
  BY <1>1, <1>2 DEF Opened
<1>7. OpenOnly'
  BY <1>1, <1>2, <1>6 DEF ClientsInv, OpenOnly
<1>8. QueuedOnce'
  <2>1. \A r \in Listeners : Len(backlog[r]) \in Nat
    BY LenProperties DEF TypeOK
  <2>2. \A r \in Listeners : \A i \in 1 .. Len(backlog'[r]) :
            \/ i \in 1 .. Len(backlog[r]) /\ backlog'[r][i] = backlog[r][i]
            \/ r = s /\ i = Len(backlog[s]) + 1 /\ backlog'[r][i] = c
    BY <1>4, <2>1
  <2>3. \A r \in Listeners : \A i \in 1 .. Len(backlog[r]) :
            backlog[r][i] # c /\ backlog[r][i] \in Conns
    BY <1>2, ElementOfSeq, ZenonT(60) DEF ClientsInv, QueuedOnce, TypeOK
  <2> QED
    BY <1>1, <1>2, <2>2, <2>3 DEF ClientsInv, QueuedOnce
<1>9. UsersInv'
  BY <1>1, <1>2, UsersFrame DEF ClientsInv, UsersInv, PlayersThere, Kept, Opened
<1>10. ConvInv'
  BY <1>5, ConvKept
<1>11. AgesInv'
  BY <1>1, <1>2, <1>6 DEF AgesInv, ClientsAge, PlayersAge, Kept
<1> QED
  BY <1>5, <1>7, <1>8, <1>9, <1>10, <1>11 DEF ClientsInv

LEMMA ArmedOK ==
    ASSUME NEW timer \in 0 .. MaxAge \cup {Stopped}
    PROVE  /\ Armed(timer) \in 0 .. MaxAge
           /\ timer # Stopped => Armed(timer) = timer
  BY LimitsAssumption DEF LimitsAssumption, Armed, Stopped

LEMMA TimerBound ==
    ASSUME NEW timer \in 0 .. MaxAge
    PROVE  /\ timer < 2 * MaxAge /\ timer < 3 * MaxAge
           /\ 0 + timer = timer /\ timer # Stopped
<1>1. MaxAge \in Nat /\ 0 < MaxAge /\ timer \in Nat /\ timer =< MaxAge
  BY LimitsAssumption DEF LimitsAssumption
<1> QED
  BY <1>1 DEF Stopped

LEMMA AcceptOK ==
    ASSUME ServerInv, NEW s \in Listeners, Accept(s)
    PROVE  ServerInv'
<1> USE DEF ServerInv
<1>1. CASE ~(Cardinality(Opened) < MaxFds)
  <2>1. UNCHANGED <<client, player, conv, clientGc, playerGc, backlog>>
        /\ listening' = [listening EXCEPT ![s] = "off"]
    BY <1>1 DEF Accept
  <2>2. TypeOK'
    BY <2>1 DEF TypeOK
  <2>3. ClientsInv' /\ UsersInv' /\ AgesInv'
    BY <2>1 DEF ClientsInv, QueuedOnce, OpenOnly, UsersInv, PlayersThere, PlayersCounted, Users,
                AgesInv, ClientsAge, PlayersAge, Opened, Kept
  <2>4. ConvInv'
    BY <2>1, <2>2, ConvKept
  <2> QED
    BY <2>2, <2>3, <2>4
<1>2. CASE Cardinality(Opened) < MaxFds
  <2>1. PICK c : c = Head(backlog[s])
    OBVIOUS
  <2>2. /\ backlog[s] \in Seq(Conns) /\ backlog[s] # << >>
        /\ client' = [client EXCEPT ![c].state = "open"]
        /\ backlog' = [backlog EXCEPT ![s] = Tail(@)]
        /\ clientGc' = Armed(clientGc)
        /\ UNCHANGED <<listening, player, conv, playerGc>>
    BY <1>2, <2>1 DEF Accept, TypeOK
  <2>3. c \in Conns /\ Len(backlog[s]) \in Nat /\ 1 \in 1 .. Len(backlog[s])
        /\ c = backlog[s][1]
    BY <2>1, <2>2, HeadTailProperties, EmptySeq, LenProperties, ElementOfSeq
  <2>4. client[c].state = "queued" /\ client[c].player = None /\ client[c].idle = 0
    BY <2>3 DEF ClientsInv, QueuedOnce, OpenOnly
  <2>5. /\ client'[c].state = "open" /\ client'[c].player = None /\ client'[c].idle = 0
        /\ \A d \in Conns : d # c => client'[d] = client[d]
    BY <2>2, <2>3, <2>4 DEF TypeOK
  <2>6. /\ Tail(backlog[s]) \in Seq(Conns)
        /\ Len(Tail(backlog[s])) = Len(backlog[s]) - 1
        /\ \A i \in 1 .. Len(backlog[s]) - 1 : Tail(backlog[s])[i] = backlog[s][i + 1]
    BY <2>2, HeadTailProperties
  <2>7. backlog'[s] = Tail(backlog[s]) /\ \A r \in Listeners : r # s => backlog'[r] = backlog[r]
    BY <2>2 DEF TypeOK
  <2>8. clientGc' \in 0 .. MaxAge /\ (clientGc # Stopped => clientGc' = clientGc)
    BY <2>2, ArmedOK DEF TypeOK
  <2>9. TypeOK'
    <3>1. client' \in [Conns -> Clients]
      BY <2>2, Positions DEF Clients
    <3>2. backlog' \in [Listeners -> Seq(Conns)]
      BY <2>2, <2>6 DEF TypeOK
    <3> QED
      BY <3>1, <3>2, <2>2, <2>8 DEF TypeOK, Clients
  <2>10. Opened' = Opened \cup {c}
    BY <2>5, <2>3 DEF Opened
  <2>11. OpenOnly'
    <3>1. IsFiniteSet(Opened')
      BY <2>10, FS_AddElement DEF ClientsInv, OpenOnly
    <3> QED
      BY <3>1, <2>5 DEF ClientsInv, OpenOnly
  <2>12. QueuedOnce'
    <3>1. \A r \in Listeners : Len(backlog[r]) \in Nat
               /\ \A i \in 1 .. Len(backlog[r]) : backlog[r][i] \in Conns
      BY LenProperties, ElementOfSeq DEF TypeOK
    <3>2. \A i \in 1 .. Len(backlog'[s]) :
              i + 1 \in 1 .. Len(backlog[s]) /\ backlog'[s][i] = backlog[s][i + 1] /\ i + 1 # 1
      <4>1. \A i \in 1 .. Len(backlog[s]) - 1 : i + 1 \in 1 .. Len(backlog[s]) /\ i + 1 # 1
        BY <2>3
      <4> QED
        BY <4>1, <2>6, <2>7
    <3>3. \A r \in Listeners : \A i \in 1 .. Len(backlog'[r]) :
              \/ r # s /\ i \in 1 .. Len(backlog[r]) /\ backlog'[r][i] = backlog[r][i]
              \/ r = s /\ i + 1 \in 1 .. Len(backlog[s]) /\ backlog'[s][i] = backlog[s][i + 1]
                 /\ i + 1 # 1
      BY <3>2, <2>7
    <3>4. \A r \in Listeners : \A i \in 1 .. Len(backlog'[r]) :
              /\ backlog'[r][i] # c
              /\ client'[backlog'[r][i]].state = "queued"
      <4> SUFFICES ASSUME NEW r \in Listeners, NEW i \in 1 .. Len(backlog'[r])
                   PROVE  /\ backlog'[r][i] # c
                          /\ client'[backlog'[r][i]].state = "queued"
        OBVIOUS
      <4>1. CASE r # s
        BY <4>1, <3>1, <3>3, <2>3, <2>5 DEF ClientsInv, QueuedOnce
      <4>2. CASE r = s
        <5>1. PICK k \in 1 .. Len(backlog[s]) : k # 1 /\ backlog'[r][i] = backlog[s][k]
          BY <4>2, <3>3
        <5>2. backlog[s][k] # c /\ backlog[s][k] \in Conns
          BY <5>1, <3>1, <2>3 DEF ClientsInv, QueuedOnce
        <5> QED
          BY <5>1, <5>2, <2>5 DEF ClientsInv, QueuedOnce
      <4> QED
        BY <4>1, <4>2
    <3>5. \A r, q \in Listeners :
              \A i \in 1 .. Len(backlog'[r]) : \A j \in 1 .. Len(backlog'[q]) :
                  backlog'[q][j] = backlog'[r][i] => q = r /\ j = i
      <4> SUFFICES ASSUME NEW r \in Listeners, NEW q \in Listeners,
                          NEW i \in 1 .. Len(backlog'[r]), NEW j \in 1 .. Len(backlog'[q]),
                          backlog'[q][j] = backlog'[r][i]
                   PROVE  q = r /\ j = i
        OBVIOUS
      <4>1. CASE r # s /\ q # s
        BY <4>1, <3>3 DEF ClientsInv, QueuedOnce
      <4>2. CASE r = s /\ q # s
        BY <4>2, <3>3 DEF ClientsInv, QueuedOnce
      <4>3. CASE r # s /\ q = s
        BY <4>3, <3>3 DEF ClientsInv, QueuedOnce
      <4>4. CASE r = s /\ q = s
        <5>1. i + 1 = j + 1
          BY <4>4, <3>3, SMTT(30) DEF ClientsInv, QueuedOnce
        <5> QED
          BY <5>1, <4>4
      <4> QED
        BY <4>1, <4>2, <4>3, <4>4
    <3> QED
      BY <3>4, <3>5 DEF QueuedOnce
  <2>13. UsersInv'
    <3>1. \A d \in Conns :
               /\ client'[d].player = client[d].player
               /\ client[d].player # None =>
                      (client'[d].state = "open" <=> client[d].state = "open")
      BY <2>4, <2>5
    <3>2. \A d \in Opened : client'[d] = client[d]
      BY <2>4, <2>5 DEF Opened
    <3> QED
      BY <3>1, <3>2, <2>2, UsersFrame DEF ClientsInv, UsersInv, PlayersThere, Kept
  <2>14. ConvInv'
    BY <2>2, <2>9, ConvKept
  <2>15. AgesInv'
    <3>1. clientGc' < 2 * MaxAge /\ 0 + clientGc' = clientGc' /\ clientGc' # Stopped
      BY <2>8, TimerBound
    <3> QED
      BY <3>1, <2>2, <2>5, <2>8, <2>10 DEF AgesInv, ClientsAge, PlayersAge, Kept, Opened
  <2> QED
    BY <2>9, <2>11, <2>12, <2>13, <2>14, <2>15 DEF ClientsInv
<1> QED
  BY <1>1, <1>2

LEMMA AcceptFailsOK ==
    ASSUME ServerInv, NEW s \in Listeners, AcceptFails(s)
    PROVE  ServerInv'
<1> USE DEF ServerInv
<1> DEFINE cut == {c \in Conns : \E i \in DOMAIN backlog[s] : backlog[s][i] = c}
<1>1. /\ client' = [c \in Conns |-> IF c \in cut THEN Closed ELSE client[c]]
      /\ listening' = [listening EXCEPT ![s] = "gone"]
      /\ backlog' = [backlog EXCEPT ![s] = << >>]
      /\ UNCHANGED <<player, conv, clientGc, playerGc>>
  BY DEF AcceptFails
<1>2. \A r \in Listeners : Len(backlog[r]) \in Nat /\ DOMAIN backlog[r] = 1 .. Len(backlog[r])
               /\ \A i \in 1 .. Len(backlog[r]) : backlog[r][i] \in Conns
  BY LenProperties, ElementOfSeq DEF TypeOK
<1>3. \A c \in cut : client[c].state = "queued" /\ client[c].player = None /\ client[c].idle = 0
  BY <1>2 DEF ClientsInv, QueuedOnce, OpenOnly
<1> HIDE DEF cut
<1>4. \A c \in Conns :
          /\ c \in cut => client'[c] = Closed
          /\ c \notin cut => client'[c] = client[c]
  BY <1>1
<1>5. Closed \in Clients /\ Closed.state = "closed" /\ Closed.player = None /\ Closed.idle = 0
  BY DEF Closed, NewClient, Clients, None
<1>6. TypeOK'
  <2>1. client' \in [Conns -> Clients]
    BY <1>1, <1>5, Positions
  <2>2. backlog' \in [Listeners -> Seq(Conns)]
    BY <1>1, EmptySeq DEF TypeOK
  <2> QED
    BY <2>1, <2>2, <1>1 DEF TypeOK, Clients
<1>7. Opened' = Opened
  BY <1>3, <1>4, <1>5 DEF Opened
<1>8. OpenOnly'
  BY <1>4, <1>5, <1>7 DEF ClientsInv, OpenOnly
<1>9. QueuedOnce'
  <2>1. \A r \in Listeners : r # s => backlog'[r] = backlog[r]
    BY <1>1 DEF TypeOK
  <2>2. backlog'[s] = << >> /\ 1 .. Len(backlog'[s]) = {}
    BY <1>1 DEF TypeOK
  <2>3. \A r \in Listeners : r # s => \A i \in 1 .. Len(backlog[r]) : backlog[r][i] \notin cut
    BY <1>2, SMTT(30) DEF ClientsInv, QueuedOnce, cut
  <2>4. \A r \in Listeners : \A i \in 1 .. Len(backlog'[r]) :
            /\ r # s /\ i \in 1 .. Len(backlog[r]) /\ backlog'[r][i] = backlog[r][i]
            /\ client'[backlog[r][i]] = client[backlog[r][i]]
    BY <2>1, <2>2, <2>3, <1>2, <1>4
  <2>5. QueuedOnce
    BY DEF ClientsInv
  <2>6. SUFFICES ASSUME NEW r \in Listeners, NEW i \in 1 .. Len(backlog'[r])
                 PROVE  /\ client'[backlog'[r][i]].state = "queued"
                        /\ \A q \in Listeners : \A j \in 1 .. Len(backlog'[q]) :
                               backlog'[q][j] = backlog'[r][i] => q = r /\ j = i
    BY DEF QueuedOnce
  <2>7. client'[backlog'[r][i]].state = "queued"
    BY <2>4, <2>5, <2>6 DEF QueuedOnce
  <2>8. ASSUME NEW q \in Listeners, NEW j \in 1 .. Len(backlog'[q]),
               backlog'[q][j] = backlog'[r][i]
        PROVE  q = r /\ j = i
    <3>1. /\ i \in 1 .. Len(backlog[r]) /\ j \in 1 .. Len(backlog[q])
          /\ backlog[q][j] = backlog[r][i]
      BY <2>4, <2>6, <2>8
    <3> QED
      BY <3>1, <2>5 DEF QueuedOnce
  <2> QED
    BY <2>7, <2>8
<1>10. UsersInv'
  BY <1>1, <1>3, <1>4, <1>5, UsersFrame DEF ClientsInv, UsersInv, PlayersThere, Kept, Opened
<1>11. ConvInv'
  BY <1>1, <1>6, ConvKept
<1>12. AgesInv'
  BY <1>1, <1>3, <1>4, <1>7 DEF AgesInv, ClientsAge, PlayersAge, Kept, Opened
<1> QED
  BY <1>6, <1>8, <1>9, <1>10, <1>11, <1>12 DEF ClientsInv

-----------------------------------------------------------------------------
(* Requests of those who have a player.                                    *)

(* c has been heard of, and its player with it.                            *)
Heard(c) ==
    /\ client' \in [Conns -> Clients]
    /\ client[c].state = "open" /\ client'[c].state = "open"
    /\ client'[c].player = client[c].player /\ client'[c].idle = 0
    /\ \A d \in Conns : d # c => client'[d] = client[d]
    /\ player' \in Seq(Players) /\ DOMAIN player' = DOMAIN player
    /\ \A id \in DOMAIN player :
           /\ player'[id].conv = player[id].conv /\ player'[id].num = player[id].num
           /\ player'[id].refs = player[id].refs /\ player'[id].kept = player[id].kept
           /\ player'[id].idle = IF id = client[c].player THEN 0 ELSE player[id].idle
    /\ UNCHANGED <<clientGc, playerGc, listening, backlog>>

LEMMA HeardOK ==
    ASSUME ServerInv, NEW c \in Conns, Heard(c), conv' \in Seq(Conversations)
    PROVE  TypeOK' /\ ClientsInv' /\ UsersInv' /\ AgesInv'
<1> USE DEF ServerInv, Heard
<1>1. TypeOK'
  BY DEF TypeOK, Clients, Players, Conversations
<1>2. Opened' = Opened
  BY DEF Opened
<1>3. ClientsInv'
  BY <1>1, ClientsFrame
<1>4. UsersInv'
  <2>1. \A d \in Opened : client[d].player # None =>
            /\ player'[client[d].player].kept
            /\ player'[client[d].player].idle =< client'[d].idle
    <3> SUFFICES ASSUME NEW d \in Opened, client[d].player # None
                 PROVE  /\ player'[client[d].player].kept
                        /\ player'[client[d].player].idle =< client'[d].idle
      OBVIOUS
    <3>1. /\ d \in Conns /\ client[d].player \in DOMAIN player /\ player[client[d].player].kept
          /\ player[client[d].player].idle =< client[d].idle
      BY DEF UsersInv, PlayersThere, Kept, Opened
    <3>2. client[d].idle \in Nat
      BY <3>1, Positions DEF Clients
    <3>3. CASE client[d].player = client[c].player
      <4>1. player'[client[d].player].idle = 0 /\ client'[d].idle \in Nat
        BY <3>1, <3>2, <3>3
      <4> QED
        BY <3>1, <4>1
    <3>4. CASE client[d].player # client[c].player
      BY <3>1, <3>4
    <3> QED
      BY <3>3, <3>4
  <2> QED
    BY <2>1, UsersFrame DEF ClientsInv
<1>5. AgesInv'
  <2>1. ClientsAge'
    <3>1. c \in Opened
      BY DEF Opened
    <3>2. client[c].idle \in Nat /\ clientGc \in Int /\ 2 * MaxAge \in Int
      BY Positions, LimitsAssumption DEF Clients, TypeOK, Stopped, LimitsAssumption
    <3>3. clientGc # Stopped /\ client'[c].idle + clientGc < 2 * MaxAge
      BY <3>1, <3>2 DEF AgesInv, ClientsAge
    <3> QED
      BY <1>2, <3>3 DEF AgesInv, ClientsAge, Opened
  <2>2. PlayersAge'
    <3>1. Kept' = Kept
      BY DEF Kept
    <3>2. \A id \in Kept : player[id].idle \in Nat
      BY Positions DEF Kept, Players
    <3>3. playerGc \in Int /\ 3 * MaxAge \in Int
      BY LimitsAssumption DEF TypeOK, Stopped, LimitsAssumption
    <3>4. \A id \in Kept : playerGc # Stopped /\ player'[id].idle + playerGc < 3 * MaxAge
      <4> TAKE id \in Kept
      <4>1. player[id].idle + playerGc < 3 * MaxAge /\ playerGc # Stopped
        BY DEF AgesInv, PlayersAge
      <4>2. player'[id].idle \in Nat /\ player'[id].idle =< player[id].idle
        BY <3>2 DEF Kept
      <4> QED
        BY <4>1, <4>2, <3>2, <3>3
    <3> QED
      BY <3>1, <3>4 DEF PlayersAge
  <2> QED
    BY <2>1, <2>2 DEF AgesInv
<1> QED
  BY <1>1, <1>3, <1>4, <1>5

(* The two expressions of set_last_update_time.                             *)
LEMMA FreshFacts ==
    ASSUME TypeOK, NEW c \in Conns
    PROVE  /\ Fresh(c) \in [Conns -> Clients]
           /\ Fresh(c)[c].state = client[c].state /\ Fresh(c)[c].player = client[c].player
           /\ Fresh(c)[c].idle = 0 /\ Fresh(c)[c].bytes = client[c].bytes
           /\ \A d \in Conns : d # c => Fresh(c)[d] = client[d]
           /\ FreshPlayers(c) \in Seq(Players) /\ DOMAIN FreshPlayers(c) = DOMAIN player
           /\ \A id \in DOMAIN player :
                  /\ FreshPlayers(c)[id].conv = player[id].conv
                  /\ FreshPlayers(c)[id].num = player[id].num
                  /\ FreshPlayers(c)[id].refs = player[id].refs
                  /\ FreshPlayers(c)[id].kept = player[id].kept
                  /\ FreshPlayers(c)[id].left = player[id].left
                  /\ FreshPlayers(c)[id].idle =
                         IF id = client[c].player THEN 0 ELSE player[id].idle
<1>1. client \in [Conns -> Clients]
  BY Positions
<1>2. /\ Fresh(c) \in [Conns -> Clients]
      /\ Fresh(c)[c].state = client[c].state /\ Fresh(c)[c].player = client[c].player
      /\ Fresh(c)[c].idle = 0 /\ Fresh(c)[c].bytes = client[c].bytes
      /\ \A d \in Conns : d # c => Fresh(c)[d] = client[d]
  BY <1>1 DEF Fresh, Clients
<1>3. \A p \in Players :
          LET new == [p EXCEPT !.idle = 0]
          IN  /\ new \in Players /\ new.conv = p.conv /\ new.num = p.num /\ new.refs = p.refs
              /\ new.kept = p.kept /\ new.left = p.left /\ new.idle = 0
  BY DEF Players
<1>4. /\ FreshPlayers(c) = [id \in 1 .. Len(player) |-> FreshPlayers(c)[id]]
      /\ \A id \in 1 .. Len(player) : FreshPlayers(c)[id] =
             IF id = client[c].player THEN [player[id] EXCEPT !.idle = 0] ELSE player[id]
  BY Positions DEF FreshPlayers
<1>5. \A id \in 1 .. Len(player) : FreshPlayers(c)[id] \in Players
  BY <1>3, <1>4, Positions
<1>6. FreshPlayers(c) \in Seq(Players)
  BY <1>4, <1>5, Positions, TableOK
<1>7. \A id \in DOMAIN player :
          /\ FreshPlayers(c)[id].conv = player[id].conv
          /\ FreshPlayers(c)[id].num = player[id].num
          /\ FreshPlayers(c)[id].refs = player[id].refs
          /\ FreshPlayers(c)[id].kept = player[id].kept
          /\ FreshPlayers(c)[id].left = player[id].left
          /\ FreshPlayers(c)[id].idle = IF id = client[c].player THEN 0 ELSE player[id].idle
  <2> TAKE id \in DOMAIN player
  <2>1. CASE id = client[c].player
    <3>1. player[id] \in Players /\ FreshPlayers(c)[id] = [player[id] EXCEPT !.idle = 0]
      BY <2>1, <1>4, Positions
    <3> QED
      BY <2>1, <3>1, <1>3
  <2>2. CASE id # client[c].player
    BY <2>2, <1>4, Positions
  <2> QED
    BY <2>1, <2>2
<1>8. DOMAIN FreshPlayers(c) = DOMAIN player
  BY DEF FreshPlayers
<1> QED
  BY <1>2, <1>6, <1>7, <1>8

LEMMA HandleBytesOK ==
    ASSUME ServerInv, NEW c \in Conns, HandleBytes(c)
    PROVE  ServerInv'
<1> USE DEF ServerInv, HandleBytes
<1>1. /\ client' \in [Conns -> Clients]
      /\ client'[c].state = client[c].state
      /\ client'[c].player = client[c].player /\ client'[c].idle = 0
      /\ \A d \in Conns : d # c => client'[d] = client[d]
  <2>1. PICK f \in [Conns -> Clients] : f = Fresh(c)
    BY FreshFacts
  <2>2. client' = [f EXCEPT ![c].bytes = @ + 1]
    BY <2>1
  <2>3. /\ f[c].state = client[c].state /\ f[c].player = client[c].player /\ f[c].idle = 0
        /\ \A d \in Conns : d # c => f[d] = client[d]
    BY <2>1, FreshFacts
  <2>4. LET new == [f[c] EXCEPT !.bytes = @ + 1]
        IN  new \in Clients /\ new.state = f[c].state /\ new.player = f[c].player
            /\ new.idle = f[c].idle
    BY DEF Clients
  <2> QED
    BY <2>2, <2>3, <2>4
<1>2. Heard(c)
  BY <1>1, FreshFacts DEF Heard
<1>3. TypeOK' /\ ClientsInv' /\ UsersInv' /\ AgesInv'
  BY <1>2, HeardOK, Positions
<1>4. ConvInv'
  BY <1>3, FreshFacts, ConvKept
<1> QED
  BY <1>3, <1>4

(* A conversation that has players in the base, or is on offer, is alive.   *)
LEMMA RefsCovered ==
    ASSUME TypeOK, MembersCounted, NEW i \in DOMAIN conv, IsFiniteSet(Members(i))
    PROVE  /\ Count(conv[i].pending) =< conv[i].refs
           /\ conv[i].refs - Count(conv[i].pending) = Cardinality(Members(i))
<1>1. Cardinality(Members(i)) \in Nat
  BY FS_CardinalityType
<1>2. conv[i].refs \in Nat /\ Count(conv[i].pending) \in {0, 1}
  BY Positions, Fields
<1>3. conv[i].refs = Count(conv[i].pending) + Cardinality(Members(i))
  BY DEF MembersCounted
<1> QED
  BY <1>1, <1>2, <1>3

LEMMA MembersFinite ==
    ASSUME TypeOK
    PROVE  \A i : IsFiniteSet(Members(i))
<1>1. IsFiniteSet(1 .. Len(player))
  BY Positions, FS_Interval
<1>2. \A i : Members(i) \in SUBSET (1 .. Len(player))
  BY Positions DEF Members, Kept
<1> QED
  BY <1>1, <1>2, FS_Subset

(* The references of a conversation that is withdrawn are still right.      *)
LEMMA WithdrawnCounted ==
    ASSUME TypeOK, MembersCounted, NEW i \in DOMAIN conv, NEW cv, Withdrawn(conv[i], cv)
    PROVE  cv.refs = Count(cv.pending) + Cardinality(Members(i))
<1>1. conv[i].refs - Count(conv[i].pending) = Cardinality(Members(i))
  BY MembersFinite, RefsCovered
<1>2. cv.refs \in Nat /\ Count(cv.pending) \in {0, 1}
  BY Fields DEF Withdrawn
<1>3. Cardinality(Members(i)) \in Nat
  BY MembersFinite, FS_CardinalityType
<1>4. cv.refs - Count(cv.pending) = Cardinality(Members(i))
  BY <1>1 DEF Withdrawn
<1> QED
  BY <1>2, <1>3, <1>4

LEMMA HandleStartOK ==
    ASSUME ServerInv, NEW c \in Conns, HandleStart(c)
    PROVE  ServerInv'
<1> USE DEF ServerInv
<1>1. PICK i : i = player[client[c].player].conv
  OBVIOUS
<1>2. /\ client[c].state = "open" /\ client[c].player # None
      /\ client' = Fresh(c) /\ player' = FreshPlayers(c)
      /\ conv' = [conv EXCEPT ![i] = Start(@)]
      /\ UNCHANGED <<clientGc, playerGc, listening, backlog>>
  BY <1>1 DEF HandleStart
<1>3. client[c].player \in DOMAIN player /\ i \in DOMAIN conv
  BY <1>1, <1>2 DEF UsersInv, PlayersThere, ConvInv, PlayersPlaced, Opened, Kept
<1>4. /\ conv[i] \in Conversations /\ Count(conv[i].pending) =< conv[i].refs
  BY <1>3, Positions, MembersFinite, RefsCovered DEF ConvInv
<1>5. Withdrawn(conv[i], Start(conv[i])) /\ Start(conv[i]).told = conv[i].told
  BY <1>4, StartWithdraws
<1>6. /\ DOMAIN conv' = DOMAIN conv /\ conv'[i] = Start(conv[i])
      /\ \A j \in DOMAIN conv : j # i => conv'[j] = conv[j]
  BY <1>2, <1>3
<1>7. conv' \in Seq(Conversations)
  <2>1. conv' = [j \in 1 .. Len(conv) |-> conv'[j]]
    BY <1>2, Positions
  <2>2. \A j \in 1 .. Len(conv) : conv'[j] \in Conversations
    BY <1>5, <1>6, Positions DEF Withdrawn
  <2> QED
    BY <2>1, <2>2, Positions, TableOK
<1>8. Heard(c)
  BY <1>2, FreshFacts DEF Heard
<1>9. TypeOK' /\ ClientsInv' /\ UsersInv' /\ AgesInv'
  BY <1>7, <1>8, HeardOK
<1>10. ConvInv'
  <2>1. \A id \in DOMAIN player :
            /\ player'[id].conv = player[id].conv /\ player'[id].num = player[id].num
            /\ player'[id].left = player[id].left /\ player'[id].kept = player[id].kept
    BY <1>2, FreshFacts
  <2>2. DOMAIN player' = DOMAIN player
    BY <1>2, FreshFacts
  <2>3. \A j \in DOMAIN conv : Members(j)' = Members(j)
    BY <2>1, <2>2 DEF Members, Kept
  <2>4. MembersCounted'
    <3>1. conv'[i].refs = Count(conv'[i].pending) + Cardinality(Members(i)')
      BY <1>3, <1>5, <1>6, <2>3, WithdrawnCounted DEF ConvInv
    <3> QED
      BY <3>1, <1>6, <2>3 DEF ConvInv, MembersCounted
  <2>5. \A j \in DOMAIN conv : conv'[j].told = conv[j].told
    BY <1>5, <1>6
  <2>6. GoneToldOnce'
    BY <2>1, <2>2, <2>5 DEF ConvInv, GoneToldOnce, PlayersPlaced
  <2>7. \A j \in DOMAIN conv :
            /\ conv'[j].kind = conv[j].kind /\ conv'[j].private = conv[j].private
            /\ conv'[j].n = conv[j].n
            /\ conv'[j].pending => conv[j].pending /\ conv'[j].started = conv[j].started
    BY <1>5, <1>6 DEF Withdrawn
  <2> QED
    BY <2>1, <2>2, <2>4, <2>5, <2>6, <2>7, <1>6, <1>9, ConvFrame
<1> QED
  BY <1>9, <1>10

LEMMA HandleLeaveOK ==
    ASSUME ServerInv, NEW c \in Conns, HandleLeave(c)
    PROVE  ServerInv'
<1> USE DEF ServerInv
<1>1. PICK me, i, num : me = client[c].player /\ i = player[me].conv /\ num = player[me].num
  OBVIOUS
<1>2. /\ client[c].state = "open" /\ me # None /\ ~player[me].left
      /\ client' = Fresh(c)
      /\ player' = [FreshPlayers(c) EXCEPT ![me].left = TRUE]
      /\ conv' = [conv EXCEPT ![i] = Told(@, {num})]
      /\ UNCHANGED <<clientGc, playerGc, listening, backlog>>
  BY <1>1 DEF HandleLeave
<1>3. me \in DOMAIN player /\ player[me].kept /\ i \in DOMAIN conv
  BY <1>1, <1>2 DEF UsersInv, PlayersThere, ConvInv, PlayersPlaced, Opened, Kept
<1>4. /\ conv[i] \in Conversations /\ Count(conv[i].pending) =< conv[i].refs
  BY <1>3, Positions, MembersFinite, RefsCovered DEF ConvInv
<1>5. /\ Withdrawn(conv[i], Told(conv[i], {num}))
      /\ ~Told(conv[i], {num}).pending
      /\ \A p \in Numbers : Told(conv[i], {num}).told[p] = conv[i].told[p] + Count(p = num)
  <2>1. \A p \in Numbers : Count(p \in {num}) = Count(p = num)
    BY DEF Count
  <2> QED
    BY <2>1, <1>4, ToldWithdraws
<1>6. /\ DOMAIN conv' = DOMAIN conv /\ conv'[i] = Told(conv[i], {num})
      /\ \A j \in DOMAIN conv : j # i => conv'[j] = conv[j]
  BY <1>2, <1>3
<1>7. conv' \in Seq(Conversations)
  <2>1. conv' = [j \in 1 .. Len(conv) |-> conv'[j]]
    BY <1>2, Positions
  <2>2. \A j \in 1 .. Len(conv) : conv'[j] \in Conversations
    BY <1>5, <1>6, Positions DEF Withdrawn
  <2> QED
    BY <2>1, <2>2, Positions, TableOK
<1>8. /\ player' \in Seq(Players) /\ DOMAIN player' = DOMAIN player
      /\ \A id \in DOMAIN player :
            /\ player'[id].conv = player[id].conv /\ player'[id].num = player[id].num
            /\ player'[id].refs = player[id].refs /\ player'[id].kept = player[id].kept
            /\ player'[id].idle = IF id = me THEN 0 ELSE player[id].idle
            /\ id = me => player'[id].left = TRUE
            /\ id # me => player'[id].left = player[id].left
  <2>1. PICK f : f = FreshPlayers(c)
    OBVIOUS
  <2>2. /\ f \in Seq(Players) /\ DOMAIN f = 1 .. Len(player) /\ me \in 1 .. Len(player)
        /\ player' = [f EXCEPT ![me].left = TRUE]
    BY <2>1, <1>2, <1>3, FreshFacts, Positions
  <2>3. \A p \in Players :
            LET new == [p EXCEPT !.left = TRUE]
            IN  /\ new \in Players /\ new.conv = p.conv /\ new.num = p.num /\ new.refs = p.refs
                /\ new.kept = p.kept /\ new.left = TRUE /\ new.idle = p.idle
    BY DEF Players
  <2>4. \A id \in 1 .. Len(player) : f[id] \in Players
    BY <2>2, ElementOfSeq, LenProperties
  <2>5. player'[me] = [f[me] EXCEPT !.left = TRUE]
        /\ \A id \in 1 .. Len(player) : id # me => player'[id] = f[id]
    BY <2>2
  <2>6. /\ player'[me] \in Players
        /\ player'[me].conv = f[me].conv /\ player'[me].num = f[me].num
        /\ player'[me].refs = f[me].refs /\ player'[me].kept = f[me].kept
        /\ player'[me].left = TRUE /\ player'[me].idle = f[me].idle
    BY <2>2, <2>3, <2>4, <2>5
  <2>7. player' = [id \in 1 .. Len(player) |-> player'[id]]
    BY <2>2
  <2>8. \A id \in 1 .. Len(player) : player'[id] \in Players
    BY <2>4, <2>5, <2>6
  <2>9. player' \in Seq(Players) /\ DOMAIN player' = 1 .. Len(player)
    BY <2>7, <2>8, Positions, TableOK
  <2>10. \A id \in 1 .. Len(player) :
             /\ f[id].conv = player[id].conv /\ f[id].num = player[id].num
             /\ f[id].refs = player[id].refs /\ f[id].kept = player[id].kept
             /\ f[id].left = player[id].left
             /\ f[id].idle = IF id = me THEN 0 ELSE player[id].idle
    BY <2>1, <1>1, FreshFacts, Positions
  <2>11. \A id \in 1 .. Len(player) :
            /\ player'[id].conv = player[id].conv /\ player'[id].num = player[id].num
            /\ player'[id].refs = player[id].refs /\ player'[id].kept = player[id].kept
            /\ player'[id].idle = IF id = me THEN 0 ELSE player[id].idle
            /\ id = me => player'[id].left = TRUE
            /\ id # me => player'[id].left = player[id].left
    <3> TAKE id \in 1 .. Len(player)
    <3>1. CASE id = me
      BY <3>1, <2>6, <2>10
    <3>2. CASE id # me
      BY <3>2, <2>5, <2>10
    <3> QED
      BY <3>1, <3>2
  <2> QED
    BY <2>9, <2>11, Positions
<1>9. Heard(c)
  BY <1>1, <1>2, <1>8, FreshFacts DEF Heard
<1>10. TypeOK' /\ ClientsInv' /\ UsersInv' /\ AgesInv'
  BY <1>7, <1>9, HeardOK
<1>11. ConvInv'
  <2>1. \A j \in DOMAIN conv : Members(j)' = Members(j)
    BY <1>8 DEF Members, Kept
  <2>2. MembersCounted'
    <3>1. conv'[i].refs = Count(conv'[i].pending) + Cardinality(Members(i)')
      BY <1>3, <1>5, <1>6, <2>1, WithdrawnCounted DEF ConvInv
    <3> QED
      BY <3>1, <1>6, <2>1 DEF ConvInv, MembersCounted
  <2>3. \A j \in DOMAIN conv : \A p \in Numbers :
            conv'[j].told[p] = conv[j].told[p] + Count(j = i /\ p = num)
    <3>1. \A p \in Numbers : conv'[i].told[p] = conv[i].told[p] + Count(p = num)
      BY <1>5, <1>6
    <3>2. \A j \in DOMAIN conv : \A p \in Numbers : conv[j].told[p] \in Nat
      BY Positions, Fields
    <3> QED
      BY <3>1, <3>2, <1>6 DEF Count
  <2>4. \A id \in DOMAIN player : player[id].num \in Numbers /\ player[id].conv \in DOMAIN conv
            /\ player[id].left \in BOOLEAN /\ player[id].kept \in BOOLEAN
    BY Positions DEF Players, ConvInv, PlayersPlaced
  <2>5. \A id \in DOMAIN player : (player[id].conv = i /\ player[id].num = num) <=> id = me
    BY <1>1, <1>3 DEF ConvInv, PlayersPlaced
  <2>6. GoneToldOnce'
    <3> SUFFICES ASSUME NEW id \in DOMAIN player
                 PROVE  conv'[player[id].conv].told[player[id].num]
                            = Count(player'[id].left \/ ~player'[id].kept)
      BY <1>8 DEF GoneToldOnce
    <3>1. conv[player[id].conv].told[player[id].num] = Count(player[id].left \/ ~player[id].kept)
      BY DEF ConvInv, GoneToldOnce
    <3>2. conv'[player[id].conv].told[player[id].num]
              = Count(player[id].left \/ ~player[id].kept) + Count(id = me)
      BY <3>1, <2>3, <2>4, <2>5
    <3>3. CASE id = me
      <4>1. Count(player[id].left \/ ~player[id].kept) = 0 /\ Count(id = me) = 1
        BY <3>3, <1>2, <1>3, <2>4 DEF Count
      <4>2. Count(player'[id].left \/ ~player'[id].kept) = 1
        BY <3>3, <1>8 DEF Count
      <4> QED
        BY <3>2, <4>1, <4>2
    <3>4. CASE id # me
      <4>1. Count(id = me) = 0 /\ Count(player[id].left \/ ~player[id].kept) \in {0, 1}
        BY <3>4 DEF Count
      <4>2. player'[id].left = player[id].left /\ player'[id].kept = player[id].kept
        BY <3>4, <1>8
      <4> QED
        BY <3>2, <4>1, <4>2
    <3> QED
      BY <3>3, <3>4
  <2>7. \A j \in DOMAIN conv :
            /\ conv'[j].kind = conv[j].kind /\ conv'[j].private = conv[j].private
            /\ conv'[j].n = conv[j].n
            /\ conv'[j].pending => conv[j].pending /\ conv'[j].started = conv[j].started
            /\ conv'[j].pending => j # i
    BY <1>5, <1>6 DEF Withdrawn
  <2>8. \A j \in DOMAIN conv : \A p \in Numbers :
            conv[j].n =< p => conv'[j].told[p] = conv[j].told[p]
    <3>1. num \in Numbers /\ num < conv[i].n
      BY <1>1, <1>3, <2>4 DEF ConvInv, PlayersPlaced
    <3>2. conv[i].n \in Nat /\ \A p \in Numbers : p \in Nat /\ (conv[i].n =< p => p # num)
      BY <3>1, <1>3, Positions, Fields DEF Numbers
    <3>3. \A j \in DOMAIN conv : \A p \in Numbers : conv[j].told[p] \in Nat
      BY Positions, Fields
    <3> QED
      BY <2>3, <3>2, <3>3 DEF Count
  <2>9. \A id \in DOMAIN player : conv'[player[id].conv].pending =>
            player'[id].left = player[id].left /\ player'[id].kept = player[id].kept
    BY <1>8, <2>4, <2>5, <2>7
  <2> QED
    BY <1>6, <1>8, <1>10, <2>2, <2>6, <2>7, <2>8, <2>9, ConvFrame
<1> QED
  BY <1>10, <1>11

-----------------------------------------------------------------------------
(* Requests of those who have none yet.                                    *)

(* A socket that has just been heard of is not too old.                     *)
LEMMA SeatedAges ==
    ASSUME ServerInv, NEW c \in Opened,
           \A d \in Conns : d # c => client'[d] = client[d],
           client'[c].state = "open", client'[c].idle = 0, UNCHANGED clientGc
    PROVE  ClientsAge'
<1>1. client[c].idle \in Nat /\ clientGc \in Int /\ 2 * MaxAge \in Int /\ c \in Conns
  BY Positions, LimitsAssumption
     DEF ServerInv, Clients, TypeOK, Stopped, LimitsAssumption, Opened
<1>2. clientGc # Stopped /\ client'[c].idle + clientGc < 2 * MaxAge
  BY <1>1 DEF ServerInv, AgesInv, ClientsAge
<1> QED
  BY <1>1, <1>2 DEF ServerInv, AgesInv, ClientsAge, Opened

LEMMA HandleReconnectOK ==
    ASSUME ServerInv, NEW c \in Conns, NEW id \in DOMAIN player, HandleReconnect(c, id)
    PROVE  ServerInv'
<1> USE DEF ServerInv
<1>1. /\ c \in Opened /\ client[c].player = None /\ player[id].kept
      /\ client' = [Fresh(c) EXCEPT ![c].player = id]
      /\ player' = [player EXCEPT ![id].refs = @ + 1, ![id].idle = 0]
      /\ UNCHANGED <<conv, clientGc, playerGc, listening, backlog>>
  BY DEF HandleReconnect, Unwatched, Opened
<1>2. /\ client' \in [Conns -> Clients]
      /\ client'[c].state = "open" /\ client'[c].player = id /\ client'[c].idle = 0
      /\ \A d \in Conns : d # c => client'[d] = client[d]
  <2>1. PICK f \in [Conns -> Clients] : f = Fresh(c)
    BY FreshFacts
  <2>2. client' = [f EXCEPT ![c].player = id] /\ id \in Nat
    BY <2>1, <1>1, Positions
  <2>3. /\ f[c].state = client[c].state /\ f[c].idle = 0
        /\ \A d \in Conns : d # c => f[d] = client[d]
    BY <2>1, FreshFacts
  <2>4. LET new == [f[c] EXCEPT !.player = id]
        IN  new \in Clients /\ new.state = f[c].state /\ new.player = id
            /\ new.idle = f[c].idle
    BY <2>2 DEF Clients
  <2> QED
    BY <1>1, <2>2, <2>3, <2>4 DEF Opened
<1>3. /\ DOMAIN player' = DOMAIN player
      /\ \A k \in DOMAIN player : k # id => player'[k] = player[k]
  BY <1>1
<1>4. /\ player'[id] \in Players
      /\ player'[id].conv = player[id].conv /\ player'[id].num = player[id].num
      /\ player'[id].kept = player[id].kept /\ player'[id].left = player[id].left
      /\ player'[id].idle = 0 /\ player'[id].refs = player[id].refs + 1
  <2>1. PICK p \in Players : p = player[id]
    BY Positions
  <2>2. PICK r \in Nat : r = p.refs + 1
    BY DEF Players
  <2>3. player'[id] = [p EXCEPT !.refs = r, !.idle = 0]
    BY <1>1, <2>1, <2>2
  <2>4. LET new == [p EXCEPT !.refs = r, !.idle = 0]
        IN  /\ new \in Players /\ new.conv = p.conv /\ new.num = p.num
            /\ new.kept = p.kept /\ new.left = p.left
            /\ new.idle = 0 /\ new.refs = r
    BY DEF Players
  <2> QED
    BY <2>1, <2>2, <2>3, <2>4
<1>5. player' \in Seq(Players)
  <2>1. player' = [k \in 1 .. Len(player) |-> player'[k]]
    BY <1>1, Positions
  <2>2. \A k \in 1 .. Len(player) : player'[k] \in Players
    BY <1>3, <1>4, Positions
  <2> QED
    BY <2>1, <2>2, Positions, TableOK
<1>6. TypeOK'
  BY <1>1, <1>2, <1>5 DEF TypeOK, Clients, Players
<1>7. ClientsInv'
  BY <1>1, <1>2, <1>6, ClientsFrame DEF Opened
<1>8. Opened' = Opened
  BY <1>1, <1>2 DEF Opened
<1>9. UsersInv'
  <2>1. id # None /\ \A k \in DOMAIN player : k # None
    BY Positions DEF None
  <2>2. Users(id)' = Users(id) \cup {c} /\ c \notin Users(id)
    BY <1>1, <1>2, <1>8, <2>1 DEF Users, Opened
  <2>3. \A k \in DOMAIN player : k # id => Users(k)' = Users(k)
    BY <1>1, <1>2, <1>8, <2>1 DEF Users, Opened
  <2>4. IsFiniteSet(Users(id))
    BY FS_Subset DEF Users, ClientsInv, OpenOnly
  <2>5. Cardinality(Users(id)') = Cardinality(Users(id)) + 1
    BY <2>2, <2>4, FS_AddElement
  <2>6. PlayersCounted'
    <3>1. player'[id].refs = Cardinality(Users(id)')
      BY <1>4, <2>5 DEF UsersInv, PlayersCounted
    <3>2. \A k \in DOMAIN player : k # id => player'[k].refs = Cardinality(Users(k)')
      BY <1>3, <2>3 DEF UsersInv, PlayersCounted
    <3> QED
      BY <1>3, <3>1, <3>2 DEF PlayersCounted
  <2>7. PlayersThere'
    <3>1. \A k \in Kept : k \in Kept' /\ player'[k].idle =< player[k].idle
              /\ player'[k].idle \in Nat
      <4> TAKE k \in Kept
      <4>1. k \in DOMAIN player /\ player[k].kept /\ player[k].idle \in Nat
        BY Positions DEF Kept, Players
      <4>2. CASE k = id
        <5>1. k \in DOMAIN player' /\ player'[k].kept /\ player'[k].idle = 0
          BY <4>1, <4>2, <1>3, <1>4
        <5> QED
          BY <5>1, <4>1 DEF Kept
      <4>3. CASE k # id
        BY <4>1, <4>3, <1>3, <1>4 DEF Kept
      <4> QED
        BY <4>2, <4>3
    <3>2. \A d \in Opened : d # c => client'[d] = client[d] /\ client[d].idle \in Nat
      BY <1>2, Positions DEF Opened, Clients
    <3>3. player'[id].idle = 0 /\ id \in Kept'
      BY <1>1, <1>3, <1>4 DEF Kept
    <3>4. \A d \in Opened : d # c /\ client[d].player # None =>
              /\ client[d].player \in Kept /\ player[client[d].player].idle \in Nat
              /\ player[client[d].player].idle =< client[d].idle
      BY Positions DEF UsersInv, PlayersThere, Kept, Players
    <3>5. \A d \in Opened : d # c /\ client'[d].player # None =>
              /\ client'[d].player \in Kept'
              /\ player'[client'[d].player].idle =< client'[d].idle
      <4> SUFFICES ASSUME NEW d \in Opened, d # c, client[d].player # None
                   PROVE  /\ client[d].player \in Kept'
                          /\ player'[client[d].player].idle =< client[d].idle
        BY <3>2
      <4>1. player'[client[d].player].idle =< player[client[d].player].idle
            /\ player'[client[d].player].idle \in Nat /\ client[d].player \in Kept'
        BY <3>1, <3>4
      <4> QED
        BY <4>1, <3>2, <3>4
    <3> QED
      BY <1>2, <1>8, <3>3, <3>5 DEF PlayersThere
  <2> QED
    BY <2>6, <2>7 DEF UsersInv
<1>10. ConvInv'
  BY <1>1, <1>3, <1>4, <1>6, ConvKept
<1>11. AgesInv'
  <2>1. ClientsAge'
    BY <1>1, <1>2, SeatedAges
  <2>2. PlayersAge'
    <3>1. Kept' = Kept
      BY <1>3, <1>4 DEF Kept
    <3>2. \A k \in Kept : k # id => player'[k] = player[k]
      BY <1>3, <1>4 DEF Kept
    <3>3. player[id].idle \in Nat /\ playerGc \in Int /\ 3 * MaxAge \in Int /\ id \in Kept
      <4>1. player[id] \in Players
        BY Positions
      <4>2. playerGc \in Int /\ 3 * MaxAge \in Int
        BY LimitsAssumption DEF TypeOK, Stopped, LimitsAssumption
      <4> QED
        BY <1>1, <4>1, <4>2 DEF Players, Kept
    <3>4. playerGc # Stopped /\ 0 + playerGc < 3 * MaxAge
      BY <3>3 DEF AgesInv, PlayersAge
    <3> QED
      BY <1>1, <1>3, <1>4, <3>1, <3>2, <3>4 DEF AgesInv, PlayersAge
  <2> QED
    BY <2>1, <2>2 DEF AgesInv
<1> QED
  BY <1>6, <1>7, <1>9, <1>10, <1>11

(* The conversation a newcomer is put in, be it one that was there or a new *)
(* one at the end.                                                          *)
Vacant(convs, i) ==
    /\ convs \in Seq(Conversations)
    /\ i \in 1 .. Len(convs)
    /\ \A j \in 1 .. Len(convs) : j # i => j \in DOMAIN conv
    /\ \A j \in DOMAIN conv : j \in 1 .. Len(convs) /\ convs[j] = conv[j]
    /\ convs[i].pending /\ ~convs[i].started /\ convs[i].n < MaxPlayers
    /\ convs[i].refs = 1 + Cardinality(Members(i))
    /\ \A p \in Numbers : convs[i].n =< p => convs[i].told[p] = 0
    /\ \A id \in DOMAIN player : player[id].conv = i =>
           player[id].kept /\ ~player[id].left /\ player[id].num < convs[i].n
    /\ \A j \in DOMAIN conv : /\ conv[j].pending /\ ~conv[j].private
                              /\ ~convs[i].private /\ conv[j].kind = convs[i].kind
                              => j = i

LEMMA WatchOK ==
    ASSUME ServerInv, NEW c \in Conns, Unwatched(c), NEW convs, NEW i,
           Vacant(convs, i), Watch(c, convs, i)
    PROVE  ServerInv'
<1> USE DEF ServerInv
<1>1. PICK me, cv, joined : me = Len(player) + 1 /\ cv = convs[i] /\ joined = Joined(cv)
  OBVIOUS
<1>2. PICK new : new = [conv |-> i, num |-> cv.n, left |-> FALSE,
                        idle |-> 0, refs |-> 1, kept |-> TRUE]
  OBVIOUS
<1>3. /\ c \in Opened /\ client[c].player = None
      /\ conv' = [convs EXCEPT ![i] = joined]
      /\ player' = Append(player, new)
      /\ client' = [Fresh(c) EXCEPT ![c].player = me]
      /\ playerGc' = Armed(playerGc)
      /\ UNCHANGED <<clientGc, listening, backlog>>
  BY <1>1, <1>2 DEF Watch, Unwatched, Opened
<1>4. /\ cv \in Conversations /\ i \in Nat /\ i # 0
      /\ Len(convs) \in Nat /\ DOMAIN convs = 1 .. Len(convs)
      /\ \A j \in 1 .. Len(convs) : convs[j] \in Conversations
  BY <1>1, LenProperties, ElementOfSeq DEF Vacant
<1>5. IsFiniteSet(Members(i)) /\ Cardinality(Members(i)) \in Nat
  BY MembersFinite, FS_CardinalityType
<1>6. /\ joined \in Conversations
      /\ joined.kind = cv.kind /\ joined.private = cv.private
      /\ joined.n = cv.n + 1 /\ joined.told = cv.told
      /\ joined.refs - Count(joined.pending) = cv.refs
      /\ joined.pending => ~joined.started /\ joined.n < MaxPlayers
  <2>1. cv.pending /\ ~cv.started /\ cv.n < MaxPlayers /\ cv.refs >= 1
    BY <1>1, <1>5 DEF Vacant
  <2> QED
    BY <1>1, <1>4, <2>1, JoinedCounts
<1>7. /\ new \in Players /\ new.conv = i /\ new.num = cv.n /\ ~new.left
      /\ new.idle = 0 /\ new.refs = 1 /\ new.kept
  <2>1. cv.n \in Numbers
    BY <1>1, <1>4, Fields, PlayersAssumption DEF Vacant, Numbers, PlayersAssumption
  <2> QED
    BY <1>2, <1>4, <2>1 DEF Players
<1>8. /\ DOMAIN conv' = 1 .. Len(convs) /\ conv'[i] = joined
      /\ \A j \in DOMAIN conv : j # i => conv'[j] = conv[j]
      /\ \A j \in DOMAIN conv' : j # i => j \in DOMAIN conv
      /\ DOMAIN conv \subseteq DOMAIN conv' /\ i \in DOMAIN conv'
  BY <1>3, <1>4 DEF Vacant
<1>9. conv' \in Seq(Conversations)
  <2>1. conv' = [j \in 1 .. Len(convs) |-> conv'[j]]
    BY <1>3, <1>4
  <2>2. \A j \in 1 .. Len(convs) : conv'[j] \in Conversations
    BY <1>3, <1>4, <1>6
  <2> QED
    BY <2>1, <2>2, <1>4, TableOK
<1>10. /\ player' \in Seq(Players) /\ DOMAIN player' = DOMAIN player \cup {me}
       /\ me \notin DOMAIN player /\ player'[me] = new /\ me \in Nat /\ me # None
       /\ \A id \in DOMAIN player : player'[id] = player[id]
  <2>1. /\ Append(player, new) \in Seq(Players) /\ Len(Append(player, new)) = Len(player) + 1
        /\ \A id \in 1 .. Len(player) : Append(player, new)[id] = player[id]
        /\ Append(player, new)[Len(player) + 1] = new
    BY <1>7, Positions, AppendProperties
  <2>2. DOMAIN Append(player, new) = 1 .. Len(player) + 1
    BY <2>1, LenProperties
  <2>3. /\ 1 .. Len(player) + 1 = (1 .. Len(player)) \cup {Len(player) + 1}
        /\ Len(player) + 1 \notin 1 .. Len(player)
        /\ Len(player) + 1 \in Nat /\ Len(player) + 1 # None
    BY Positions DEF None
  <2> QED
    BY <1>1, <1>3, <2>1, <2>2, <2>3, Positions
<1>11. /\ client' \in [Conns -> Clients]
       /\ client'[c].state = "open" /\ client'[c].player = me /\ client'[c].idle = 0
       /\ \A d \in Conns : d # c => client'[d] = client[d]
  <2>1. PICK f \in [Conns -> Clients] : f = Fresh(c)
    BY FreshFacts
  <2>2. client' = [f EXCEPT ![c].player = me]
    BY <2>1, <1>3
  <2>3. /\ f[c].state = client[c].state /\ f[c].idle = 0
        /\ \A d \in Conns : d # c => f[d] = client[d]
    BY <2>1, FreshFacts
  <2>4. LET r == [f[c] EXCEPT !.player = me]
        IN  r \in Clients /\ r.state = f[c].state /\ r.player = me /\ r.idle = f[c].idle
    BY <1>10 DEF Clients
  <2> QED
    BY <1>3, <2>2, <2>3, <2>4 DEF Opened
<1>12. playerGc' \in 0 .. MaxAge /\ (playerGc # Stopped => playerGc' = playerGc)
  BY <1>3, ArmedOK DEF TypeOK
<1>13. TypeOK'
  BY <1>3, <1>9, <1>10, <1>11, <1>12 DEF TypeOK, Clients, Players, Conversations
<1>14. ClientsInv'
  BY <1>3, <1>11, <1>13, ClientsFrame DEF Opened
<1>15. Opened' = Opened
  BY <1>3, <1>11 DEF Opened
<1>16. \A d \in Opened : client[d].player # None =>
           /\ client[d].player \in Kept /\ client[d].player \in DOMAIN player
           /\ d # c /\ client[d].player # me
  BY <1>3, <1>10 DEF UsersInv, PlayersThere, Kept
<1>17. UsersInv'
  <2>1. Users(me)' = {c}
    BY <1>3, <1>10, <1>11, <1>15, <1>16 DEF Users, Opened
  <2>2. \A id \in DOMAIN player : Users(id)' = Users(id)
    <3>1. \A id \in DOMAIN player : id # None
      BY Positions DEF None
    <3> QED
      BY <3>1, <1>3, <1>10, <1>11, <1>15 DEF Users, Opened
  <2>3. PlayersCounted'
    <3>1. player'[me].refs = Cardinality(Users(me)')
      <4>1. Cardinality({c}) = 1
        BY FS_Singleton
      <4> QED
        BY <4>1, <1>7, <1>10, <2>1
    <3>2. \A id \in DOMAIN player : player'[id].refs = Cardinality(Users(id)')
      BY <1>10, <2>2 DEF UsersInv, PlayersCounted
    <3> QED
      BY <1>10, <3>1, <3>2 DEF PlayersCounted
  <2>4. PlayersThere'
    BY <1>7, <1>10, <1>11, <1>15, <1>16 DEF UsersInv, PlayersThere, Kept, Opened
  <2> QED
    BY <2>3, <2>4 DEF UsersInv
<1>18. ConvInv'
  <2>1. PlayersPlaced'
    <3>1. i \in DOMAIN conv' /\ new.num < joined.n
      <4>1. cv.n \in Nat
        BY <1>4, Fields
      <4> QED
        BY <4>1, <1>6, <1>7, <1>8
    <3>2. \A id \in DOMAIN player :
              /\ player[id].conv \in DOMAIN conv'
              /\ player[id].num < conv'[player[id].conv].n
              /\ ~(player[id].conv = i /\ player[id].num = new.num)
      <4> TAKE id \in DOMAIN player
      <4>1. player[id].conv \in DOMAIN conv /\ player[id].num < conv[player[id].conv].n
            /\ player[id].num \in Nat /\ cv.n \in Nat
        BY <1>4, Fields, Positions, SMTT(30) DEF ConvInv, PlayersPlaced, Players, Numbers
      <4>2. CASE player[id].conv = i
        <5>1. player[id].num < cv.n
          BY <4>2, <1>1 DEF Vacant
        <5> QED
          BY <4>1, <4>2, <5>1, <1>6, <1>7, <1>8
      <4>3. CASE player[id].conv # i
        BY <4>1, <4>3, <1>8
      <4> QED
        BY <4>2, <4>3
    <3> QED
      BY <3>1, <3>2, <1>7, <1>8, <1>10 DEF ConvInv, PlayersPlaced
  <2>2. Members(i)' = Members(i) \cup {me} /\ me \notin Members(i)
    BY <1>7, <1>10 DEF Members, Kept
  <2>3. \A j \in DOMAIN conv : j # i => Members(j)' = Members(j)
    BY <1>7, <1>10 DEF Members, Kept
  <2>4. MembersCounted'
    <3>1. Cardinality(Members(i)') = Cardinality(Members(i)) + 1
      BY <1>5, <2>2, FS_AddElement
    <3>2. cv.refs = 1 + Cardinality(Members(i))
      BY <1>1 DEF Vacant
    <3>3. joined.refs \in Nat /\ Count(joined.pending) \in {0, 1}
      BY <1>6, Fields
    <3>4. joined.refs = Count(joined.pending) + Cardinality(Members(i)')
      BY <1>5, <1>6, <3>1, <3>2, <3>3
    <3> QED
      BY <3>4, <1>8, <2>3 DEF ConvInv, MembersCounted
  <2>5. GoneToldOnce'
    <3>1. joined.told[new.num] = 0 /\ Count(new.left \/ ~new.kept) = 0
      <4>1. cv.n \in Numbers /\ cv.n =< cv.n
        BY <1>4, <1>7, Fields DEF Players
      <4> QED
        BY <4>1, <1>1, <1>6, <1>7 DEF Vacant, Count
    <3>2. \A id \in DOMAIN player : player[id].conv \in DOMAIN conv
      BY DEF ConvInv, PlayersPlaced
    <3>3. \A j \in DOMAIN conv : conv'[j].told = conv[j].told
      BY <1>1, <1>6, <1>8 DEF Vacant
    <3> QED
      BY <3>1, <3>2, <3>3, <1>7, <1>8, <1>10 DEF ConvInv, GoneToldOnce
  <2>6. NoneToldEarly'
    <3>1. \A p \in Numbers : joined.n =< p => joined.told[p] = 0
      <4>1. cv.n \in Nat /\ \A p \in Numbers : p \in Nat
        BY <1>4, Fields DEF Numbers
      <4>2. \A p \in Numbers : joined.n =< p => cv.n =< p
        BY <4>1, <1>6
      <4> QED
        BY <4>2, <1>1, <1>6 DEF Vacant
    <3> QED
      BY <3>1, <1>8 DEF ConvInv, NoneToldEarly
  <2>7. PendingJoinable'
    <3>1. joined.pending => joined.n \in 1 .. MaxPlayers - 1
      <4>1. cv.n \in Nat
        BY <1>4, Fields
      <4> QED
        BY <4>1, <1>6, PlayersAssumption DEF PlayersAssumption
    <3>2. \A id \in DOMAIN player' : player'[id].conv = i =>
              player'[id].kept /\ ~player'[id].left
      BY <1>7, <1>10 DEF Vacant
    <3>3. \A j \in DOMAIN conv : j # i => \A id \in DOMAIN player' :
              player'[id].conv = j => id \in DOMAIN player
      BY <1>7, <1>10
    <3> QED
      BY <3>1, <3>2, <3>3, <1>6, <1>8, <1>10 DEF ConvInv, PendingJoinable
  <2>8. OfferedOnce'
    <3>1. \A j \in DOMAIN conv' : j # i =>
              ~(/\ conv'[j].pending /\ ~conv'[j].private
                /\ ~conv'[i].private /\ conv'[j].kind = conv'[i].kind)
      BY <1>1, <1>6, <1>8 DEF Vacant
    <3> QED
      BY <3>1, <1>8 DEF ConvInv, OfferedOnce, Offered
  <2> QED
    BY <2>1, <2>4, <2>5, <2>6, <2>7, <2>8 DEF ConvInv
<1>19. AgesInv'
  <2>1. ClientsAge'
    BY <1>3, <1>11, SeatedAges
  <2>2. PlayersAge'
    <3>1. Kept' = Kept \cup {me}
      BY <1>7, <1>10 DEF Kept
    <3>2. playerGc' # Stopped /\ 0 + playerGc' < 3 * MaxAge
      BY <1>12, TimerBound
    <3> QED
      BY <3>1, <3>2, <1>7, <1>10, <1>12 DEF AgesInv, PlayersAge, Kept
  <2> QED
    BY <2>1, <2>2 DEF AgesInv
<1> QED
  BY <1>13, <1>14, <1>17, <1>18, <1>19

LEMMA JoinOffered ==
    ASSUME ServerInv, NEW i \in DOMAIN conv, conv[i].pending
    PROVE  Vacant(conv, i)
<1> USE DEF ServerInv
<1>1. /\ conv \in Seq(Conversations) /\ DOMAIN conv = 1 .. Len(conv)
      /\ conv[i] \in Conversations
  BY Positions
<1>2. ~conv[i].started /\ conv[i].n < MaxPlayers
  BY PlayersAssumption DEF PlayersAssumption, ConvInv, PendingJoinable
<1>3. conv[i].refs = 1 + Cardinality(Members(i))
  BY DEF ConvInv, MembersCounted, Count
<1>4. \A p \in Numbers : conv[i].n =< p => conv[i].told[p] = 0
  BY DEF ConvInv, NoneToldEarly
<1>5. \A id \in DOMAIN player : player[id].conv = i =>
          player[id].kept /\ ~player[id].left /\ player[id].num < conv[i].n
  BY DEF ConvInv, PendingJoinable, PlayersPlaced
<1>6. \A j \in DOMAIN conv : /\ conv[j].pending /\ ~conv[j].private
                              /\ ~conv[i].private /\ conv[j].kind = conv[i].kind
                              => j = i
  <2>1. conv[i].kind \in Kinds
    BY <1>1, Fields
  <2> QED
    BY <2>1 DEF ConvInv, OfferedOnce, Offered
<1> QED
  BY <1>1, <1>2, <1>3, <1>4, <1>5, <1>6 DEF Vacant

LEMMA JoinNew ==
    ASSUME ServerInv, NEW kind \in Kinds, NEW private \in BOOLEAN,
           ~private => Offered(kind) = {}
    PROVE  Vacant(Append(conv, NewConversation(kind, private)), Len(conv) + 1)
<1> USE DEF ServerInv
<1>1. PICK cv : cv = NewConversation(kind, private)
  OBVIOUS
<1>2. /\ cv \in Conversations /\ cv.kind = kind /\ cv.private = private /\ cv.n = 0
      /\ ~cv.started /\ cv.pending /\ cv.refs = 1
      /\ \A p \in Numbers : cv.told[p] = 0
  BY <1>1, PlayersAssumption DEF NewConversation, Conversations, PlayersAssumption
<1>3. PICK i, convs : i = Len(conv) + 1 /\ convs = Append(conv, cv)
  OBVIOUS
<1>4. /\ convs \in Seq(Conversations) /\ Len(convs) = Len(conv) + 1
      /\ \A j \in 1 .. Len(conv) : convs[j] = conv[j]
      /\ convs[i] = cv
  BY <1>2, <1>3, Positions, AppendProperties
<1>5. /\ i \in 1 .. Len(convs) /\ i \notin DOMAIN conv
      /\ \A j \in 1 .. Len(convs) : j # i => j \in DOMAIN conv
      /\ \A j \in DOMAIN conv : j \in 1 .. Len(convs) /\ convs[j] = conv[j]
  BY <1>3, <1>4, Positions
<1>6. \A id \in DOMAIN player : player[id].conv # i
  BY <1>5 DEF ConvInv, PlayersPlaced
<1>7. Members(i) = {}
  BY <1>6 DEF Members, Kept
<1>8. cv.refs = 1 + Cardinality(Members(i)) /\ cv.n < MaxPlayers
  BY <1>2, <1>7, FS_EmptySet, PlayersAssumption DEF PlayersAssumption
<1>9. \A j \in DOMAIN conv : /\ conv[j].pending /\ ~conv[j].private
                              /\ ~cv.private /\ conv[j].kind = cv.kind
                              => j = i
  BY <1>2 DEF Offered
<1>10. Vacant(convs, i)
  BY <1>2, <1>4, <1>5, <1>6, <1>8, <1>9 DEF Vacant
<1> QED
  BY <1>1, <1>3, <1>10

LEMMA NewcomersOK ==
    ASSUME ServerInv, NEW c \in Conns,
           \/ \E kind \in Kinds : HandleNewPlayer(c, kind) \/ HandleNewPrivatePlayer(c, kind)
           \/ \E i \in DOMAIN conv : HandleJoinPrivateGame(c, i)
    PROVE  ServerInv'
<1>1. ASSUME NEW kind \in Kinds, HandleNewPlayer(c, kind) PROVE ServerInv'
  <2>1. Unwatched(c)
    BY <1>1 DEF HandleNewPlayer
  <2>2. CASE \E i \in Offered(kind) : Watch(c, conv, i)
    BY <2>1, <2>2, JoinOffered, WatchOK DEF Offered
  <2>3. CASE /\ Offered(kind) = {}
             /\ Watch(c, Append(conv, NewConversation(kind, FALSE)), Len(conv) + 1)
    BY <2>1, <2>3, JoinNew, WatchOK
  <2> QED
    BY <1>1, <2>2, <2>3 DEF HandleNewPlayer
<1>2. ASSUME NEW kind \in Kinds, HandleNewPrivatePlayer(c, kind) PROVE ServerInv'
  BY <1>2, JoinNew, WatchOK DEF HandleNewPrivatePlayer
<1>3. ASSUME NEW i \in DOMAIN conv, HandleJoinPrivateGame(c, i) PROVE ServerInv'
  BY <1>3, JoinOffered, WatchOK DEF HandleJoinPrivateGame
<1> QED
  BY <1>1, <1>2, <1>3

-----------------------------------------------------------------------------
(* Sockets that go.                                                        *)

LEMMA CardinalityMinus ==
    ASSUME NEW S, IsFiniteSet(S), NEW T, T \subseteq S
    PROVE  /\ Cardinality(S) \in Nat /\ Cardinality(T) \in Nat
           /\ Cardinality(S \ T) \in Nat
           /\ Cardinality(S \ T) = Cardinality(S) - Cardinality(T)
<1>1. IsFiniteSet(T) /\ IsFiniteSet(S \ T)
  BY FS_Subset
<1>2. Cardinality((S \ T) \cup T)
          = Cardinality(S \ T) + Cardinality(T) - Cardinality((S \ T) \cap T)
  BY <1>1, FS_Union
<1>3. (S \ T) \cup T = S /\ (S \ T) \cap T = {}
  OBVIOUS
<1>4. /\ Cardinality(S) \in Nat /\ Cardinality(T) \in Nat /\ Cardinality(S \ T) \in Nat
      /\ Cardinality({}) = 0
  BY <1>1, FS_CardinalityType, FS_EmptySet
<1>5. Cardinality(S) = Cardinality(S \ T) + Cardinality(T) - 0
  BY <1>2, <1>3, <1>4
<1> QED
  BY <1>4, <1>5

(* What is left of the invariant is the age of the sockets that stay.       *)
LEMMA RemoveClientsOK ==
    ASSUME ServerInv, NEW gone \in SUBSET Opened, RemoveClients(gone),
           UNCHANGED <<conv, playerGc, backlog>>,
           clientGc' \in 0 .. MaxAge \cup {Stopped},
           \A c \in Opened \ gone :
               clientGc' # Stopped /\ client[c].idle + clientGc' < 2 * MaxAge
    PROVE  ServerInv'
<1> USE DEF ServerInv
<1> DEFINE lost(id) == {c \in gone : client[c].player = id}
<1>1. /\ \A c \in Conns : client'[c] = IF c \in gone THEN Closed ELSE client[c]
      /\ client' = [c \in Conns |-> client'[c]]
      /\ \A id \in DOMAIN player :
             player'[id] = [player[id] EXCEPT !.refs = @ - Cardinality(lost(id))]
      /\ player' = [id \in DOMAIN player |-> player'[id]]
      /\ DOMAIN player' = DOMAIN player
      /\ \A s \in Listeners : listening'[s] =
             IF gone # {} /\ listening[s] = "off" THEN "on" ELSE listening[s]
      /\ listening' = [s \in Listeners |-> listening'[s]]
  BY DEF RemoveClients
<1>2. Closed \in Clients /\ Closed.state = "closed" /\ Closed.player = None
  BY DEF Closed, NewClient, Clients, None
<1>3. Opened' = Opened \ gone
  BY <1>1, <1>2 DEF Opened
<1>4. \A id \in DOMAIN player : Users(id)' = Users(id) \ lost(id) /\ lost(id) \subseteq Users(id)
  BY <1>1, <1>3 DEF Users, Opened
<1>5. \A id \in DOMAIN player :
          /\ player[id].refs = Cardinality(Users(id))
          /\ player[id].refs - Cardinality(lost(id)) = Cardinality(Users(id)')
          /\ player[id].refs - Cardinality(lost(id)) \in Nat
  <2> TAKE id \in DOMAIN player
  <2>1. IsFiniteSet(Users(id))
    BY FS_Subset DEF Users, ClientsInv, OpenOnly
  <2>2. player[id].refs = Cardinality(Users(id))
    BY DEF UsersInv, PlayersCounted
  <2>3. /\ Cardinality(Users(id) \ lost(id)) = Cardinality(Users(id)) - Cardinality(lost(id))
        /\ Cardinality(Users(id) \ lost(id)) \in Nat
    BY <1>4, <2>1, CardinalityMinus
  <2> QED
    BY <1>4, <2>2, <2>3
<1>6. \A id \in DOMAIN player :
          /\ player'[id] \in Players
          /\ player'[id].conv = player[id].conv /\ player'[id].num = player[id].num
          /\ player'[id].kept = player[id].kept /\ player'[id].left = player[id].left
          /\ player'[id].idle = player[id].idle
          /\ player'[id].refs = player[id].refs - Cardinality(lost(id))
  <2> TAKE id \in DOMAIN player
  <2>1. PICK p \in Players : p = player[id]
    BY Positions
  <2>2. PICK r \in Nat : r = player[id].refs - Cardinality(lost(id))
    BY <1>5
  <2>3. player'[id] = [p EXCEPT !.refs = r]
    BY <1>1, <2>1, <2>2
  <2>4. LET new == [p EXCEPT !.refs = r]
        IN  /\ new \in Players /\ new.conv = p.conv /\ new.num = p.num
            /\ new.kept = p.kept /\ new.left = p.left
            /\ new.idle = p.idle /\ new.refs = r
    BY DEF Players
  <2> QED
    BY <2>1, <2>2, <2>3, <2>4
<1> HIDE DEF lost
<1>7. TypeOK'
  <2>1. player' \in Seq(Players)
    <3>1. player' = [id \in 1 .. Len(player) |-> player'[id]]
      BY <1>1, Positions
    <3>2. \A id \in 1 .. Len(player) : player'[id] \in Players
      BY <1>6, Positions
    <3> QED
      BY <3>1, <3>2, Positions, TableOK
  <2>2. client' \in [Conns -> Clients]
    <3>1. \A c \in Conns : client'[c] \in Clients
      BY <1>1, <1>2, Positions
    <3> QED
      BY <3>1, <1>1
  <2>3. listening' \in [Listeners -> {"on", "off", "gone"}]
    <3>1. \A s \in Listeners : listening'[s] \in {"on", "off", "gone"}
      BY <1>1 DEF TypeOK
    <3> QED
      BY <3>1, <1>1
  <2> QED
    BY <2>1, <2>2, <2>3 DEF TypeOK, Clients, Players
<1>8. ClientsInv'
  <2>1. \A c \in Conns : client[c].state # "open" => client'[c] = client[c]
    BY <1>1 DEF Opened
  <2>2. \A c \in Conns : client[c].state = "open" =>
            client'[c].state = "open" \/ client'[c] = Closed
    BY <1>1
  <2> QED
    BY <1>7, <2>1, <2>2, ClientsFrame
<1>9. UsersInv'
  <2>1. PlayersCounted'
    BY <1>1, <1>5, <1>6 DEF PlayersCounted
  <2>2. \A c \in Opened' : c \in Opened /\ client'[c] = client[c]
    BY <1>1, <1>3 DEF Opened
  <2>3. Kept' = Kept
    BY <1>1, <1>6 DEF Kept
  <2>4. \A id \in Kept : player'[id].idle = player[id].idle
    BY <1>6 DEF Kept
  <2>5. PlayersThere'
    BY <2>2, <2>3, <2>4 DEF UsersInv, PlayersThere
  <2> QED
    BY <2>1, <2>5 DEF UsersInv
<1>10. ConvInv'
  BY <1>1, <1>6, <1>7, ConvKept
<1>11. AgesInv'
  <2>1. ClientsAge'
    BY <1>1, <1>3 DEF ClientsAge, Opened
  <2>2. Kept' = Kept
    BY <1>1, <1>6 DEF Kept
  <2>3. \A id \in Kept : player'[id].idle = player[id].idle
    BY <1>6 DEF Kept
  <2>4. PlayersAge'
    BY <2>2, <2>3 DEF AgesInv, PlayersAge
  <2> QED
    BY <2>1, <2>4 DEF AgesInv
<1> QED
  BY <1>7, <1>8, <1>9, <1>10, <1>11

LEMMA LoseOK ==
    ASSUME ServerInv, NEW c \in Conns, Lose(c)
    PROVE  ServerInv'
<1>1. {c} \in SUBSET Opened /\ RemoveClients({c})
      /\ UNCHANGED <<conv, clientGc, playerGc, backlog>>
  BY DEF Lose, Opened
<1>2. clientGc' \in 0 .. MaxAge \cup {Stopped}
  BY <1>1 DEF ServerInv, TypeOK
<1>3. \A d \in Opened \ {c} : clientGc' # Stopped /\ client[d].idle + clientGc' < 2 * MaxAge
  BY <1>1 DEF ServerInv, AgesInv, ClientsAge
<1> QED
  BY <1>1, <1>2, <1>3, RemoveClientsOK

LEMMA CollectClientsOK ==
    ASSUME ServerInv, CollectClients
    PROVE  ServerInv'
<1>1. PICK old : old = {c \in Opened : client[c].idle >= MaxAge}
  OBVIOUS
<1>2. old \in SUBSET Opened /\ RemoveClients(old) /\ UNCHANGED <<conv, playerGc, backlog>>
      /\ clientGc' = IF old = Opened THEN Stopped ELSE MaxAge
  BY <1>1 DEF CollectClients
<1>3. MaxAge \in Nat /\ MaxAge \in 0 .. MaxAge /\ MaxAge # Stopped
  BY LimitsAssumption DEF LimitsAssumption, Stopped
<1>4. clientGc' \in 0 .. MaxAge \cup {Stopped}
  BY <1>2, <1>3
<1>5. \A c \in Opened \ old :
          clientGc' # Stopped /\ client[c].idle + clientGc' < 2 * MaxAge
  <2> SUFFICES ASSUME NEW c \in Opened \ old
               PROVE  clientGc' # Stopped /\ client[c].idle + clientGc' < 2 * MaxAge
    OBVIOUS
  <2>1. clientGc' = MaxAge
    BY <1>2
  <2>2. client[c].idle \in Nat /\ ~(client[c].idle >= MaxAge)
    BY <1>1, Positions DEF ServerInv, Opened, Clients
  <2> QED
    BY <1>3, <2>1, <2>2
<1> QED
  BY <1>2, <1>4, <1>5, RemoveClientsOK

-----------------------------------------------------------------------------
(* Players that go.                                                        *)

LEMMA CollectPlayersOK ==
    ASSUME ServerInv, CollectPlayers
    PROVE  ServerInv'
<1> USE DEF ServerInv
<1>1. PICK old : old = {id \in Kept : Collectable(id)}
  OBVIOUS
<1> DEFINE mine(i) == {id \in old : player[id].conv = i}
           nums(i) == Abandoned(i, old)
<1>2. /\ player' = [id \in DOMAIN player |->
                       IF id \in old THEN [player[id] EXCEPT !.kept = FALSE, !.idle = 0]
                       ELSE player[id]]
      /\ conv' = [i \in DOMAIN conv |->
                     [Told(conv[i], nums(i)) EXCEPT !.refs = @ - Cardinality(mine(i))]]
      /\ playerGc' = IF old = Kept THEN Stopped ELSE MaxAge
      /\ UNCHANGED <<client, clientGc, listening, backlog>>
  BY <1>1, ZenonT(60) DEF CollectPlayers
<1>3. \A id \in old : id \in Kept /\ id \in DOMAIN player /\ player[id].kept
                      /\ player[id].refs = 0
  BY <1>1 DEF Kept, Collectable
<1>4. \A id \in DOMAIN player :
          /\ player[id].conv \in DOMAIN conv /\ player[id].num \in Numbers
          /\ player[id].num < conv[player[id].conv].n
          /\ player[id].left \in BOOLEAN /\ player[id].kept \in BOOLEAN
          /\ \A other \in DOMAIN player :
                 player[other].conv = player[id].conv /\ player[other].num = player[id].num
                 => other = id
  BY Positions DEF ConvInv, PlayersPlaced, Players
(* Who is told of in a conversation.                                        *)
<1>5. \A i : \A num : num \in nums(i) <=>
          \E id \in mine(i) : ~player[id].left /\ player[id].num = num
  BY DEF Abandoned
<1>6. \A id \in DOMAIN player :
          player[id].num \in nums(player[id].conv) <=> id \in old /\ ~player[id].left
  BY <1>3, <1>4, <1>5
<1> HIDE DEF nums
<1>7. DOMAIN player' = DOMAIN player /\ DOMAIN conv' = DOMAIN conv
  BY <1>2, ZenonT(60)
<1>8. \A id \in DOMAIN player :
          /\ player'[id] \in Players
          /\ player'[id].conv = player[id].conv /\ player'[id].num = player[id].num
          /\ player'[id].left = player[id].left /\ player'[id].refs = player[id].refs
          /\ id \in old => ~player'[id].kept
          /\ id \notin old => player'[id] = player[id]
  <2> TAKE id \in DOMAIN player
  <2>1. PICK p \in Players : p = player[id]
    BY Positions
  <2>2. CASE id \in old
    <3>1. player'[id] = [p EXCEPT !.kept = FALSE, !.idle = 0]
      BY <1>2, <2>1, <2>2, ZenonT(60)
    <3>2. LET new == [p EXCEPT !.kept = FALSE, !.idle = 0]
          IN  /\ new \in Players /\ new.conv = p.conv /\ new.num = p.num
              /\ new.left = p.left /\ new.refs = p.refs /\ ~new.kept
      BY DEF Players
    <3> QED
      BY <2>1, <2>2, <3>1, <3>2
  <2>3. CASE id \notin old
    BY <1>2, <2>1, <2>3, ZenonT(60)
  <2> QED
    BY <2>2, <2>3
<1>9. Kept' = Kept \ old
  BY <1>3, <1>7, <1>8 DEF Kept
<1>10. \A i \in DOMAIN conv : Members(i)' = Members(i) \ mine(i) /\ mine(i) \subseteq Members(i)
  BY <1>3, <1>8, <1>9 DEF Members, Kept
<1> HIDE DEF mine
<1>11. \A i \in DOMAIN conv :
           /\ Withdrawn(conv[i], Told(conv[i], nums(i)))
           /\ nums(i) # {} => ~Told(conv[i], nums(i)).pending
           /\ \A p \in Numbers : Told(conv[i], nums(i)).told[p]
                                     = conv[i].told[p] + Count(p \in nums(i))
  <2> TAKE i \in DOMAIN conv
  <2>1. conv[i] \in Conversations /\ Count(conv[i].pending) =< conv[i].refs
    BY Positions, MembersFinite, RefsCovered DEF ConvInv
  <2> QED
    BY <2>1, ToldWithdraws
<1>12. \A i \in DOMAIN conv :
           LET told == Told(conv[i], nums(i))
               refs == told.refs - Cardinality(mine(i))
           IN  refs \in Nat /\ refs = Count(told.pending) + Cardinality(Members(i)')
  <2> TAKE i \in DOMAIN conv
  <2>1. PICK told : told = Told(conv[i], nums(i))
    OBVIOUS
  <2>2. told.refs = Count(told.pending) + Cardinality(Members(i))
    BY <1>11, <2>1, WithdrawnCounted DEF ConvInv
  <2>3. Count(told.pending) \in Nat
    BY DEF Count
  <2>4. /\ Cardinality(Members(i)) \in Nat /\ Cardinality(mine(i)) \in Nat
        /\ Cardinality(Members(i)') \in Nat
        /\ Cardinality(Members(i)') = Cardinality(Members(i)) - Cardinality(mine(i))
    BY <1>10, MembersFinite, CardinalityMinus
  <2>5. told.refs - Cardinality(mine(i)) \in Nat
        /\ told.refs - Cardinality(mine(i)) = Count(told.pending) + Cardinality(Members(i)')
    BY <2>2, <2>3, <2>4
  <2> QED
    BY <2>1, <2>5
<1>13. \A i \in DOMAIN conv :
           /\ conv'[i] \in Conversations
           /\ conv'[i].kind = conv[i].kind /\ conv'[i].private = conv[i].private
           /\ conv'[i].n = conv[i].n
           /\ conv'[i].pending => conv[i].pending /\ conv'[i].started = conv[i].started
           /\ nums(i) # {} => ~conv'[i].pending
           /\ conv'[i].refs = Count(conv'[i].pending) + Cardinality(Members(i)')
           /\ \A p \in Numbers : conv'[i].told[p] = conv[i].told[p] + Count(p \in nums(i))
  <2> TAKE i \in DOMAIN conv
  <2>1. PICK told \in Conversations : told = Told(conv[i], nums(i))
    BY <1>11 DEF Withdrawn
  <2>2. PICK refs \in Nat : refs = told.refs - Cardinality(mine(i))
    BY <1>12, <2>1
  <2>3. conv'[i] = [told EXCEPT !.refs = refs]
    BY <1>2, <2>1, <2>2, ZenonT(60)
  <2>4. LET new == [told EXCEPT !.refs = refs]
        IN  /\ new \in Conversations /\ new.kind = told.kind /\ new.private = told.private
            /\ new.n = told.n /\ new.pending = told.pending /\ new.started = told.started
            /\ new.told = told.told /\ new.refs = refs
    BY DEF Conversations
  <2>5. refs = Count(told.pending) + Cardinality(Members(i)')
    BY <1>12, <2>1, <2>2
  <2>6. /\ Withdrawn(conv[i], told)
        /\ nums(i) # {} => ~told.pending
        /\ \A p \in Numbers : told.told[p] = conv[i].told[p] + Count(p \in nums(i))
    BY <1>11, <2>1
  <2> QED
    BY <2>3, <2>4, <2>5, <2>6 DEF Withdrawn
<1>14. TypeOK'
  <2>1. player' \in Seq(Players)
    <3>1. player' = [id \in 1 .. Len(player) |-> player'[id]]
      BY <1>2, Positions, ZenonT(60)
    <3>2. \A id \in 1 .. Len(player) : player'[id] \in Players
      BY <1>8, Positions
    <3> QED
      BY <3>1, <3>2, Positions, TableOK
  <2>2. conv' \in Seq(Conversations)
    <3>1. conv' = [i \in 1 .. Len(conv) |-> conv'[i]]
      BY <1>2, Positions, ZenonT(60)
    <3>2. \A i \in 1 .. Len(conv) : conv'[i] \in Conversations
      BY <1>13, Positions
    <3> QED
      BY <3>1, <3>2, Positions, TableOK
  <2>3. playerGc' \in 0 .. MaxAge \cup {Stopped}
    <3>1. MaxAge \in 0 .. MaxAge
      BY LimitsAssumption DEF LimitsAssumption
    <3> QED
      BY <1>2, <3>1, ZenonT(60)
  <2> QED
    BY <1>2, <2>1, <2>2, <2>3, ZenonT(60) DEF TypeOK, Players, Conversations
<1>15. ClientsInv'
  BY <1>2, <1>14, ClientsFrame, ZenonT(60)
(* Nobody is taken whom a socket uses.                                      *)
<1>16. \A c \in Opened : client[c].player # None =>
           client[c].player \in Kept /\ client[c].player \notin old
  <2> SUFFICES ASSUME NEW c \in Opened, client[c].player # None
               PROVE  client[c].player \in Kept /\ client[c].player \notin old
    OBVIOUS
  <2>1. PICK id \in DOMAIN player : id = client[c].player /\ id \in Kept
    BY DEF UsersInv, PlayersThere, Kept
  <2>2. c \in Users(id) /\ IsFiniteSet(Users(id))
    BY <2>1, FS_Subset DEF Users, ClientsInv, OpenOnly
  <2>3. player[id].refs # 0
    BY <2>2, FS_EmptySet DEF UsersInv, PlayersCounted
  <2> QED
    BY <1>3, <2>1, <2>3
<1>17. UsersInv'
  <2>1. \A c \in Opened : client[c].player # None =>
            /\ player'[client[c].player].kept
            /\ player'[client[c].player].idle =< client'[c].idle
    BY <1>2, <1>8, <1>16, ZenonT(60) DEF UsersInv, PlayersThere, Kept
  <2> QED
    BY <1>2, <1>7, <1>8, <2>1, UsersFrame, ZenonT(60) DEF ClientsInv
<1>18. ConvInv'
  <2>1. MembersCounted'
    BY <1>7, <1>13 DEF MembersCounted
  <2>2. \A i \in DOMAIN conv : \A p \in Numbers : conv[i].told[p] \in Nat /\ p \in Nat
    <3>1. \A p \in Numbers : p \in Nat
      BY DEF Numbers
    <3>2. \A i \in DOMAIN conv : conv[i].told \in [Numbers -> Nat]
      BY Positions, Fields
    <3> QED
      BY <3>1, <3>2
  <2>3. GoneToldOnce'
    <3> SUFFICES ASSUME NEW id \in DOMAIN player
                 PROVE  conv'[player[id].conv].told[player[id].num]
                            = Count(player'[id].left \/ ~player'[id].kept)
      BY <1>7, <1>8 DEF GoneToldOnce
    <3>1. conv[player[id].conv].told[player[id].num] = Count(player[id].left \/ ~player[id].kept)
      BY DEF ConvInv, GoneToldOnce
    <3>2. conv'[player[id].conv].told[player[id].num]
              = Count(player[id].left \/ ~player[id].kept)
                + Count(player[id].num \in nums(player[id].conv))
      BY <1>4, <1>13, <3>1
    <3>3. CASE id \in old /\ ~player[id].left
      <4>1. /\ Count(player[id].left \/ ~player[id].kept) = 0
            /\ Count(player[id].num \in nums(player[id].conv)) = 1
        BY <1>3, <1>6, <3>3 DEF Count
      <4>2. Count(player'[id].left \/ ~player'[id].kept) = 1
        BY <1>8, <3>3 DEF Count
      <4> QED
        BY <3>2, <4>1, <4>2
    <3>4. CASE id \in old /\ player[id].left
      <4>1. /\ Count(player[id].left \/ ~player[id].kept) = 1
            /\ Count(player[id].num \in nums(player[id].conv)) = 0
        BY <1>6, <3>4 DEF Count
      <4>2. Count(player'[id].left \/ ~player'[id].kept) = 1
        BY <1>8, <3>4 DEF Count
      <4> QED
        BY <3>2, <4>1, <4>2
    <3>5. CASE id \notin old
      <4>1. /\ Count(player[id].left \/ ~player[id].kept) \in {0, 1}
            /\ Count(player[id].num \in nums(player[id].conv)) = 0
        BY <1>6, <3>5 DEF Count
      <4>2. player'[id] = player[id]
        BY <1>8, <3>5
      <4> QED
        BY <3>2, <4>1, <4>2
    <3> QED
      BY <3>3, <3>4, <3>5
  <2>4. \A i \in DOMAIN conv : \A p \in Numbers :
            conv[i].n =< p => conv'[i].told[p] = conv[i].told[p]
    <3> SUFFICES ASSUME NEW i \in DOMAIN conv, NEW p \in Numbers, conv[i].n =< p
                 PROVE  conv'[i].told[p] = conv[i].told[p]
      OBVIOUS
    <3>1. p \notin nums(i)
      <4> SUFFICES ASSUME NEW id \in mine(i), player[id].num = p PROVE FALSE
        BY <1>5
      <4>1. id \in DOMAIN player /\ player[id].conv = i
        BY <1>3 DEF mine
      <4>2. p < conv[i].n /\ conv[i].n \in Nat
        BY <4>1, <1>4, Positions, Fields
      <4> QED
        BY <4>2, <2>2
    <3>2. Count(p \in nums(i)) = 0
      BY <3>1 DEF Count
    <3> QED
      BY <1>13, <2>2, <3>2
  <2>5. \A id \in DOMAIN player : conv'[player[id].conv].pending =>
            player'[id].left = player[id].left /\ player'[id].kept = player[id].kept
    <3> SUFFICES ASSUME NEW id \in DOMAIN player, conv'[player[id].conv].pending
                 PROVE  id \notin old
      BY <1>8
    <3>1. conv[player[id].conv].pending /\ nums(player[id].conv) = {}
      BY <1>4, <1>13
    <3>2. ~player[id].left
      BY <3>1, <1>4 DEF ConvInv, PendingJoinable
    <3> QED
      BY <3>1, <3>2, <1>6
  <2> QED
    BY <1>7, <1>8, <1>13, <1>14, <2>1, <2>3, <2>4, <2>5, ConvFrame
<1>19. AgesInv'
  <2>1. ClientsAge'
    BY <1>2, ZenonT(60) DEF AgesInv, ClientsAge, Opened
  <2>2. PlayersAge'
    <3> SUFFICES ASSUME NEW id \in Kept \ old
                 PROVE  playerGc' # Stopped /\ player[id].idle + playerGc' < 3 * MaxAge
      BY <1>8, <1>9 DEF PlayersAge, Kept
    <3>1. MaxAge \in Nat /\ MaxAge # 0 /\ playerGc' = MaxAge /\ id \in DOMAIN player
      BY <1>2, LimitsAssumption, ZenonT(60) DEF LimitsAssumption, Kept
    <3>2. player[id].idle \in Nat
      BY <3>1, Positions DEF Players
    <3>3. CASE player[id].refs = 0
      <4>1. ~(player[id].idle >= MaxAge)
        BY <1>1, <3>3 DEF Collectable
      <4> QED
        BY <3>1, <3>2, <4>1 DEF Stopped
    <3>4. CASE player[id].refs # 0
      <4>1. Users(id) # {}
        BY <3>1, <3>4, FS_EmptySet DEF UsersInv, PlayersCounted
      <4>2. PICK c \in Opened : client[c].player = id
        BY <4>1 DEF Users
      <4>3. player[id].idle =< client[c].idle
        BY <4>2, <3>1, Positions DEF UsersInv, PlayersThere, None
      <4>4. client[c].idle + clientGc < 2 * MaxAge /\ clientGc # Stopped
        BY DEF AgesInv, ClientsAge
      <4>5. client[c].idle \in Nat /\ clientGc \in 0 .. MaxAge
        BY <4>4, Positions DEF Opened, Clients, TypeOK
      <4> QED
        BY <3>1, <3>2, <4>3, <4>4, <4>5 DEF Stopped
    <3> QED
      BY <3>3, <3>4
  <2> QED
    BY <2>1, <2>2 DEF AgesInv
<1> QED
  BY <1>14, <1>15, <1>17, <1>18, <1>19

-----------------------------------------------------------------------------
(* Time.                                                                   *)

LEMMA LaterOK ==
    ASSUME NEW timer \in 0 .. MaxAge \cup {Stopped}, timer # 0
    PROVE  /\ Later(timer) \in 0 .. MaxAge \cup {Stopped}
           /\ timer # Stopped => Later(timer) # Stopped /\ Later(timer) = timer - 1
                                 /\ timer \in Nat
<1>1. MaxAge \in Nat
  BY LimitsAssumption DEF LimitsAssumption
<1> QED
  BY <1>1 DEF Later, Stopped

LEMMA TickOK ==
    ASSUME ServerInv, Tick
    PROVE  ServerInv'
<1> USE DEF ServerInv
<1>1. /\ client' = [c \in Conns |->
                       [client[c] EXCEPT !.idle = @ + Count(client[c].state = "open")]]
      /\ player' = [id \in DOMAIN player |->
                       [player[id] EXCEPT !.idle = @ + Count(player[id].kept)]]
      /\ clientGc' = Later(clientGc) /\ playerGc' = Later(playerGc)
      /\ clientGc # 0 /\ playerGc # 0
      /\ UNCHANGED <<conv, listening, backlog>>
  BY DEF Tick
<1>2. \A c \in Conns :
          /\ client'[c] \in Clients
          /\ client'[c].state = client[c].state /\ client'[c].player = client[c].player
          /\ client'[c].idle = client[c].idle + Count(client[c].state = "open")
          /\ client[c].state # "open" => client'[c] = client[c]
          /\ client[c].idle \in Nat
  <2> TAKE c \in Conns
  <2>1. PICK p \in Clients : p = client[c]
    BY Positions
  <2>2. PICK r \in Nat : r = p.idle + Count(p.state = "open")
    BY DEF Clients, Count
  <2>3. client'[c] = [p EXCEPT !.idle = r]
    BY <1>1, <2>1, <2>2
  <2>4. LET new == [p EXCEPT !.idle = r]
        IN  /\ new \in Clients /\ new.state = p.state /\ new.player = p.player
            /\ new.idle = r
            /\ r = p.idle => new = p
    BY DEF Clients
  <2>5. p.state # "open" => r = p.idle
    BY <2>2 DEF Count, Clients
  <2>6. p.idle \in Nat
    BY DEF Clients
  <2> QED
    BY <2>1, <2>2, <2>3, <2>4, <2>5, <2>6
<1>3. \A id \in DOMAIN player :
          /\ player'[id] \in Players
          /\ player'[id].conv = player[id].conv /\ player'[id].num = player[id].num
          /\ player'[id].kept = player[id].kept /\ player'[id].left = player[id].left
          /\ player'[id].refs = player[id].refs
          /\ player'[id].idle = player[id].idle + Count(player[id].kept)
          /\ player[id].idle \in Nat
  <2> TAKE id \in DOMAIN player
  <2>1. PICK p \in Players : p = player[id]
    BY Positions
  <2>2. PICK r \in Nat : r = p.idle + Count(p.kept)
    BY DEF Players, Count
  <2>3. player'[id] = [p EXCEPT !.idle = r]
    BY <1>1, <2>1, <2>2
  <2>4. LET new == [p EXCEPT !.idle = r]
        IN  /\ new \in Players /\ new.conv = p.conv /\ new.num = p.num
            /\ new.kept = p.kept /\ new.left = p.left
            /\ new.refs = p.refs /\ new.idle = r
    BY DEF Players
  <2>5. p.idle \in Nat
    BY DEF Players
  <2> QED
    BY <2>1, <2>2, <2>3, <2>4, <2>5
<1>4. DOMAIN player' = DOMAIN player
  BY <1>1
<1>5. TypeOK'
  <2>1. player' \in Seq(Players)
    <3>1. player' = [id \in 1 .. Len(player) |-> player'[id]]
      BY <1>1, Positions
    <3>2. \A id \in 1 .. Len(player) : player'[id] \in Players
      BY <1>3, Positions
    <3> QED
      BY <3>1, <3>2, Positions, TableOK
  <2>2. client' \in [Conns -> Clients]
    BY <1>1, <1>2
  <2>3. /\ clientGc' \in 0 .. MaxAge \cup {Stopped}
        /\ playerGc' \in 0 .. MaxAge \cup {Stopped}
    BY <1>1, LaterOK DEF TypeOK
  <2> QED
    BY <1>1, <2>1, <2>2, <2>3 DEF TypeOK, Clients, Players
<1>6. ClientsInv'
  BY <1>1, <1>2, <1>5, ClientsFrame
<1>7. Opened' = Opened
  BY <1>2 DEF Opened
<1>8. \A c \in Opened : c \in Conns /\ client'[c].idle = client[c].idle + 1
  BY <1>2 DEF Opened, Count
<1>9. \A id \in Kept : id \in DOMAIN player /\ player'[id].idle = player[id].idle + 1
  BY <1>3 DEF Kept, Count
<1>10. UsersInv'
  <2>1. \A c \in Opened : client[c].player # None =>
            /\ player'[client[c].player].kept
            /\ player'[client[c].player].idle =< client'[c].idle
    <3> SUFFICES ASSUME NEW c \in Opened, client[c].player # None
                 PROVE  /\ player'[client[c].player].kept
                        /\ player'[client[c].player].idle =< client'[c].idle
      OBVIOUS
    <3>1. PICK id \in Kept : id = client[c].player /\ player[id].idle =< client[c].idle
      BY DEF UsersInv, PlayersThere
    <3>2. player'[id].idle =< client'[c].idle
      BY <3>1, <1>2, <1>3, <1>8, <1>9
    <3> QED
      BY <3>1, <3>2, <1>3 DEF Kept
  <2> QED
    BY <1>2, <1>3, <1>4, <2>1, UsersFrame DEF ClientsInv
<1>11. ConvInv'
  BY <1>1, <1>3, <1>4, <1>5, ConvKept
<1>12. AgesInv'
  <2>1. ClientsAge'
    <3> SUFFICES ASSUME NEW c \in Opened
                 PROVE  clientGc' # Stopped /\ client'[c].idle + clientGc' < 2 * MaxAge
      BY <1>7 DEF ClientsAge
    <3>1. clientGc # Stopped /\ client[c].idle + clientGc < 2 * MaxAge
      BY DEF AgesInv, ClientsAge
    <3>2. clientGc' # Stopped /\ clientGc' = clientGc - 1 /\ clientGc \in Nat
      BY <1>1, <3>1, LaterOK DEF TypeOK
    <3>3. client'[c].idle = client[c].idle + 1 /\ client[c].idle \in Nat
      BY <1>2, <1>8
    <3>4. client'[c].idle + clientGc' = client[c].idle + clientGc
      BY <3>2, <3>3
    <3> QED
      BY <3>1, <3>2, <3>4
  <2>2. PlayersAge'
    <3>1. Kept' = Kept
      BY <1>3, <1>4 DEF Kept
    <3> SUFFICES ASSUME NEW id \in Kept
                 PROVE  playerGc' # Stopped /\ player'[id].idle + playerGc' < 3 * MaxAge
      BY <3>1 DEF PlayersAge
    <3>2. playerGc # Stopped /\ player[id].idle + playerGc < 3 * MaxAge
      BY DEF AgesInv, PlayersAge
    <3>3. playerGc' # Stopped /\ playerGc' = playerGc - 1 /\ playerGc \in Nat
      BY <1>1, <3>2, LaterOK DEF TypeOK
    <3>4. player'[id].idle = player[id].idle + 1 /\ player[id].idle \in Nat
      BY <1>3, <1>9
    <3>5. player'[id].idle + playerGc' = player[id].idle + playerGc
      BY <3>3, <3>4
    <3> QED
      BY <3>2, <3>3, <3>5
  <2> QED
    BY <2>1, <2>2 DEF AgesInv
<1> QED
  BY <1>5, <1>6, <1>10, <1>11, <1>12

-----------------------------------------------------------------------------
(* The theorems.                                                           *)

LEMMA StutterOK ==
    ASSUME ServerInv, UNCHANGED vars
    PROVE  ServerInv'
<1> USE DEF ServerInv, vars
<1>1. TypeOK'
  BY DEF TypeOK
<1>2. ClientsInv' /\ UsersInv' /\ AgesInv'
  BY DEF ClientsInv, QueuedOnce, OpenOnly, UsersInv, PlayersThere, PlayersCounted, Users,
         AgesInv, ClientsAge, PlayersAge, Opened, Kept
<1>3. ConvInv'
  BY <1>1, ConvKept
<1> QED
  BY <1>1, <1>2, <1>3

LEMMA StepOK == ServerInv /\ [Next]_vars => ServerInv'
<1> SUFFICES ASSUME ServerInv, [Next]_vars PROVE ServerInv'
  OBVIOUS
<1>1. ASSUME NEW c \in Conns, NEW s \in Listeners, Dial(c, s) PROVE ServerInv'
  BY <1>1, DialOK
<1>2. ASSUME NEW s \in Listeners, Accept(s) PROVE ServerInv'
  BY <1>2, AcceptOK
<1>3. ASSUME NEW s \in Listeners, AcceptFails(s) PROVE ServerInv'
  BY <1>3, AcceptFailsOK
<1>4. ASSUME NEW c \in Conns, Request(c) PROVE ServerInv'
  <2>1. ASSUME NEW id \in DOMAIN player, HandleReconnect(c, id) PROVE ServerInv'
    BY <2>1, HandleReconnectOK
  <2> QED
    BY <1>4, <2>1, NewcomersOK, HandleLeaveOK, HandleStartOK, HandleBytesOK, LoseOK
       DEF Request
<1>5. CASE CollectClients
  BY <1>5, CollectClientsOK
<1>6. CASE CollectPlayers
  BY <1>6, CollectPlayersOK
<1>7. CASE Tick
  BY <1>7, TickOK
<1>8. CASE UNCHANGED vars
  BY <1>8, StutterOK
<1> QED
  BY <1>1, <1>2, <1>3, <1>4, <1>5, <1>6, <1>7, <1>8 DEF Next

LEMMA ServerIsSound == Spec => []ServerInv
<1>1. Init => ServerInv
  BY InitOK
<1>2. ServerInv /\ [Next]_vars => ServerInv'
  BY StepOK
<1> QED
  BY <1>1, <1>2, PTL DEF Spec

(* Whatever the pages do, and whichever timers run first, every table of    *)
(* the server holds what its declaration says: no count of references goes  *)
(* below zero, and no number of a player beyond the size of its game.       *)
THEOREM TypeCorrect == Spec => []TypeOK
<1>1. ServerInv => TypeOK
  BY DEF ServerInv
<1> QED
  BY <1>1, ServerIsSound, PTL

(* pcx_player and pcx_conversation are freed when nobody refers to them,    *)
(* and not before: the counts are the sizes of the sets of those who do.    *)
THEOREM CountsAreRight == Spec => []NothingFreedInUse
<1>1. ServerInv => NothingFreedInUse
  <2> SUFFICES ASSUME ServerInv PROVE NothingFreedInUse
    OBVIOUS
  <2>1. \A c \in Opened : client[c].player # None => player[client[c].player].kept
    BY DEF ServerInv, UsersInv, PlayersThere, Kept
  <2>2. \A id \in Kept : player[id].refs = Cardinality({c \in Opened : client[c].player = id})
    BY DEF ServerInv, UsersInv, PlayersCounted, Users, Kept
  <2>3. \A i \in DOMAIN conv :
            conv[i].refs = Count(conv[i].pending)
                               + Cardinality({id \in Kept : player[id].conv = i})
    BY DEF ServerInv, ConvInv, MembersCounted, Members
  <2>4. \A id \in Kept : conv[player[id].conv].refs > 0
    <3> TAKE id \in Kept
    <3>1. PICK i \in DOMAIN conv : i = player[id].conv
      BY DEF ServerInv, ConvInv, PlayersPlaced, Kept
    <3>2. id \in Members(i)
      BY <3>1 DEF Members
    <3>3. Cardinality(Members(i)) \in Nat /\ Cardinality(Members(i)) # 0
      BY <3>2, MembersFinite, FS_CardinalityType, FS_EmptySet DEF ServerInv
    <3>4. Count(conv[i].pending) \in Nat
      BY DEF Count
    <3>5. conv[i].refs = Count(conv[i].pending) + Cardinality(Members(i))
      BY DEF ServerInv, ConvInv, MembersCounted
    <3> QED
      BY <3>1, <3>3, <3>4, <3>5
  <2> QED
    BY <2>1, <2>2, <2>3, <2>4 DEF NothingFreedInUse
<1> QED
  BY <1>1, ServerIsSound, PTL

(* What pcx-playerbase.c offers to a newcomer can be joined, and is the     *)
(* same game for everyone who asks for it: strangers meet.                  *)
THEOREM StrangersMeet == Spec => []OfferedIsJoinable
<1>1. ServerInv => OfferedIsJoinable
  <2> SUFFICES ASSUME ServerInv PROVE OfferedIsJoinable
    OBVIOUS
  <2>1. \A kind \in Kinds : Cardinality(Offered(kind)) =< 1
    <3> TAKE kind \in Kinds
    <3>1. CASE Offered(kind) = {}
      BY <3>1, FS_EmptySet
    <3>2. CASE Offered(kind) # {}
      <4>1. PICK i : Offered(kind) = {i}
        BY <3>2 DEF ServerInv, ConvInv, OfferedOnce
      <4> QED
        BY <4>1, FS_Singleton
    <3> QED
      BY <3>1, <3>2
  <2> QED
    BY <2>1 DEF OfferedIsJoinable, ServerInv, ConvInv, PendingJoinable
<1> QED
  BY <1>1, ServerIsSound, PTL

(* pcx_conversation_remove_player is called once for each player that goes, *)
(* by the page, by the collector, or by both in turn.                       *)
THEOREM RemovedOnce == Spec => []GoneToldOnce
<1>1. ServerInv => GoneToldOnce
  BY DEF ServerInv, ConvInv
<1> QED
  BY <1>1, ServerIsSound, PTL

(* The two collectors together bound how long silence is put up with,       *)
(* whatever the order in which they and the requests run.                   *)
THEOREM SilenceEnds == Spec => []SilenceIsBounded
<1>1. ServerInv => SilenceIsBounded
  <2> SUFFICES ASSUME ServerInv PROVE SilenceIsBounded
    OBVIOUS
  <2>1. MaxAge \in Nat
    BY LimitsAssumption DEF LimitsAssumption
  <2>2. \A c \in Opened : client[c].idle < 2 * MaxAge
    <3> TAKE c \in Opened
    <3>1. client[c].idle \in Nat /\ clientGc \in Nat
      BY Positions DEF ServerInv, AgesInv, ClientsAge, TypeOK, Opened, Clients
    <3>2. client[c].idle + clientGc < 2 * MaxAge
      BY DEF ServerInv, AgesInv, ClientsAge
    <3> QED
      BY <2>1, <3>1, <3>2
  <2>3. \A id \in Kept : player[id].idle < 3 * MaxAge
    <3> TAKE id \in Kept
    <3>1. player[id].idle \in Nat /\ playerGc \in Nat
      BY Positions, SMTT(30) DEF ServerInv, AgesInv, PlayersAge, TypeOK, Kept, Players
    <3>2. player[id].idle + playerGc < 3 * MaxAge
      BY DEF ServerInv, AgesInv, PlayersAge
    <3> QED
      BY <2>1, <3>1, <3>2
  <2> QED
    BY <2>2, <2>3 DEF SilenceIsBounded
<1> QED
  BY <1>1, ServerIsSound, PTL

=============================================================================
