--------------------------- MODULE SessionProofs ---------------------------
(***************************************************************************)
(* Proofs about Session for every number of pages, sockets, players, data  *)
(* and messages, and every size of the write buffer.                       *)
(***************************************************************************)
EXTENDS Session, EnumerationProofs, SequenceTheorems

(* What holds of a conversation, whoever looks at it.  Its departures and   *)
(* the player base speak of players who were added, nothing has happened to *)
(* a conversation that nobody has joined, and newcomers are only offered    *)
(* what pcx_conversation_add_player accepts.                                *)
Consistent(cv) ==
    /\ cv \in Conversations
    /\ cv.left \subseteq 0 .. cv.n - 1
    /\ cv.base \subseteq 0 .. cv.n - 1
    /\ cv.n = 0 => ~cv.started
    /\ cv.pending => /\ ~cv.started
                     /\ cv.n < MaxPlayers
                     /\ cv.left = {}
                     /\ cv.base = 0 .. cv.n - 1

(* What holds of a connection: its player was added, it is polled for       *)
(* writing whenever it has to be, and it has nothing before it is opened.   *)
Healthy(k, cv) ==
    /\ k \in Connections
    /\ k.player \in {None} \cup 0 .. cv.n - 1
    /\ k.state = "open" /\ ReadyToWrite(k, cv) => k.pollOut
    /\ k.state = "unused" => k.player = None /\ ~k.pong /\ k.buf = << >>

(* The inductive invariant.                                                 *)
Inv ==
    /\ Consistent(conv)
    /\ conn \in [Conns -> Connections]
    /\ \A c \in Conns : Healthy(conn[c], conv)
    /\ hello \in [Conns -> Hellos]
    /\ wire \in [Conns -> Seq(Frames)]
    /\ client \in [Clients -> Pages]
    /\ \A u \in Clients : client[u].sock \in {None} \cup 1 .. MaxSockets[u]

LEMMA InvImplies ==
    ASSUME Inv
    PROVE  TypeOK /\ NoLostWakeup /\ OfferedIsJoinable
BY DEF Inv, Consistent, Healthy, TypeOK, NoLostWakeup, OfferedIsJoinable, Open

-----------------------------------------------------------------------------
(* Poll flags.                                                              *)

LEMMA ReadyIsBoolean ==
    ASSUME NEW k \in Connections, NEW cv \in Conversations
    PROVE  ReadyToWrite(k, cv) \in BOOLEAN
BY DEF ReadyToWrite

LEMMA UpdateProperties ==
    ASSUME NEW k \in Connections, NEW cv \in Conversations
    PROVE  LET u == UpdatePollFlags(k, cv)
           IN  /\ u \in Connections
               /\ u.state = k.state
               /\ u.player = k.player
               /\ ReadyToWrite(u, cv) => u.pollOut
<1> DEFINE u == UpdatePollFlags(k, cv)
<1>1. /\ u \in Connections
      /\ u.state = k.state
      /\ u.player = k.player
      /\ u.pollOut = ReadyToWrite(k, cv)
  BY ReadyIsBoolean DEF UpdatePollFlags, Connections
<1>2. /\ u.buf = k.buf /\ u.pong = k.pong /\ u.detailed = k.detailed
      /\ u.named = k.named /\ u.dirty = k.dirty /\ u.cursor = k.cursor
  BY DEF UpdatePollFlags, Connections
<1>3. ReadyToWrite(u, cv) = ReadyToWrite(k, cv)
  BY <1>1, <1>2 DEF ReadyToWrite
<1> QED
  BY <1>1, <1>3

(* Without a player a connection does not look at the conversation.         *)
LEMMA ReadyWithoutPlayer ==
    ASSUME NEW k \in Connections, k.player = None, NEW cv, NEW cw
    PROVE  ReadyToWrite(k, cv) = ReadyToWrite(k, cw)
BY DEF ReadyToWrite

(* Only these parts of the conversation matter to a connection.             *)
LEMMA ReadyDependsOn ==
    ASSUME NEW k \in Connections, NEW cv, NEW cw,
           cv.n = cw.n, cv.left = cw.left, Len(cv.log) = Len(cw.log)
    PROVE  ReadyToWrite(k, cv) = ReadyToWrite(k, cw)
BY DEF ReadyToWrite

-----------------------------------------------------------------------------
(* The functions of the conversation.                                       *)

LEMMA QueueMessageType ==
    ASSUME NEW cv \in Conversations, NEW to \in Players \cup {None},
           NEW from \in Players \cup {None}, NEW size \in Nat
    PROVE  /\ QueueMessage(cv, to, from, size) \in Conversations
           /\ QueueMessage(cv, to, from, size)
                = [cv EXCEPT !.log = QueueMessage(cv, to, from, size).log]
<1> DEFINE e == [to |-> to, from |-> from, size |-> size, joined |-> cv.n]
<1>1. cv.n \in Nat
  BY PlayerAssumption DEF Conversations
<1>2. e \in LogEntries
  BY <1>1 DEF LogEntries
<1>3. Append(cv.log, e) \in Seq(LogEntries)
  BY <1>2, AppendProperties DEF Conversations
<1> QED
  BY <1>3 DEF QueueMessage, Conversations

(* The same for a message from the conversation to everyone.                *)
LEMMA AnnounceType ==
    ASSUME NEW cv \in Conversations
    PROVE  /\ QueueMessage(cv, None, None, 1) \in Conversations
           /\ QueueMessage(cv, None, None, 1)
                = [cv EXCEPT !.log = QueueMessage(cv, None, None, 1).log]
<1>1. None \in Players \cup {None} /\ 1 \in Nat
  OBVIOUS
<1>2. QueueMessage(cv, None, None, 1) \in Conversations
  BY <1>1, QueueMessageType
<1>3. QueueMessage(cv, None, None, 1)
        = [cv EXCEPT !.log = QueueMessage(cv, None, None, 1).log]
  BY <1>1, QueueMessageType
<1> QED
  BY <1>2, <1>3

LEMMA StartType ==
    ASSUME NEW cv \in Conversations
    PROVE  LET s == StartConversation(cv)
           IN  /\ s \in Conversations
               /\ s.n = cv.n /\ s.left = cv.left /\ s.log = cv.log
               /\ s.base = cv.base /\ s.side = cv.side
               /\ s.pending => s = cv
               /\ cv.n = 0 => s = cv
<1>1. cv.n = 0 => cv.n < MinPlayers
  BY PlayerAssumption DEF Conversations
<1> QED
  BY <1>1 DEF StartConversation, Conversations

LEMMA WelcomeProperties ==
    ASSUME NEW added \in Conversations, ~added.started,
           NEW welcomed, welcomed = QueueMessage(added, None, None, 1),
           NEW a, a = IF welcomed.n >= MaxPlayers
                      THEN StartConversation(welcomed) ELSE welcomed
    PROVE  /\ a \in Conversations
           /\ a.n = added.n /\ a.left = added.left /\ a.base = added.base
           /\ a.pending => ~a.started /\ a.n < MaxPlayers
<1>1. /\ welcomed \in Conversations
      /\ welcomed = [added EXCEPT !.log = welcomed.log]
  BY AnnounceType
<1>2. /\ welcomed.n = added.n /\ welcomed.left = added.left
      /\ welcomed.base = added.base
      /\ ~welcomed.started
  BY <1>1 DEF Conversations
<1>3. CASE welcomed.n >= MaxPlayers
  <2>1. ~ (welcomed.n < MinPlayers)
    BY <1>1, <1>3, PlayerAssumption DEF Conversations
  <2>2. ~ a.pending
    BY <2>1, <1>1, <1>2, <1>3 DEF StartConversation, Conversations
  <2> QED
    BY <2>2, <1>1, <1>2, <1>3, StartType
<1>4. CASE ~ (welcomed.n >= MaxPlayers)
  BY <1>1, <1>2, <1>4, PlayerAssumption DEF Conversations
<1> QED
  BY <1>3, <1>4

LEMMA AddPlayerProperties ==
    ASSUME NEW cv \in Conversations, cv.n < MaxPlayers, ~cv.started
    PROVE  LET a == AddPlayer(cv)
           IN  /\ a \in Conversations
               /\ a.n = cv.n + 1
               /\ a.left = cv.left
               /\ a.base = cv.base \cup {cv.n}
               /\ a.pending => ~a.started /\ a.n < MaxPlayers
<1>1. /\ cv.n \in Players /\ cv.n + 1 \in 0 .. MaxPlayers
      /\ cv.base \cup {cv.n} \in SUBSET Players
  BY PlayerAssumption DEF Conversations, Players
<1>2. PICK added : added = [cv EXCEPT !.n = @ + 1, !.base = @ \cup {cv.n}]
  OBVIOUS
<1>3. /\ added \in Conversations
      /\ added.n = cv.n + 1 /\ added.left = cv.left
      /\ added.base = cv.base \cup {cv.n}
      /\ ~added.started
  BY <1>1, <1>2 DEF Conversations
<1>4. AddPlayer(cv) = LET welcomed == QueueMessage(added, None, None, 1)
                      IN  IF welcomed.n >= MaxPlayers
                          THEN StartConversation(welcomed) ELSE welcomed
  BY <1>2 DEF AddPlayer
<1> QED
  BY <1>3, <1>4, WelcomeProperties

LEMMA RemovePlayerProperties ==
    ASSUME NEW cv \in Conversations
    PROVE  LET r == RemovePlayer(cv)
           IN  /\ r \in Conversations
               /\ r.n = cv.n /\ r.left = cv.left /\ r.base = cv.base
               /\ r.started = cv.started
               /\ ~r.pending
<1> DEFINE q == QueueMessage(cv, None, None, 1)
<1>1. q \in Conversations /\ q = [cv EXCEPT !.log = q.log]
  BY AnnounceType
<1>2. RemovePlayer(cv) = [q EXCEPT !.pending = FALSE]
  BY DEF RemovePlayer
<1> HIDE DEF q
<1> QED
  BY <1>1, <1>2 DEF Conversations

-----------------------------------------------------------------------------
(* What a connection has to write.                                          *)

(* A function from an initial segment of the naturals is a sequence, also   *)
(* when the segment is empty.                                               *)
LEMMA SegmentIsSeq ==
    ASSUME NEW S, NEW n \in Int, NEW f, f = [i \in 1 .. n |-> f[i]],
           \A i \in 1 .. n : f[i] \in S
    PROVE  f \in Seq(S)
<1>1. CASE n >= 0
  BY <1>1
<1>2. CASE n < 0
  <2>1. 1 .. n = 1 .. 0
    BY <1>2
  <2>2. f = [i \in 1 .. 0 |-> f[i]]
    BY <2>1
  <2> QED
    BY <2>1, <2>2
<1> QED
  BY <1>1, <1>2

LEMMA DueProperties ==
    ASSUME NEW cv \in Conversations, NEW p, NEW lo \in Nat, NEW hi \in 0 .. Len(cv.log)
    PROVE  /\ Due(cv, p, lo, hi) \in Seq(1 .. Len(cv.log))
           /\ DOMAIN Due(cv, p, lo, hi) = 1 .. Len(Due(cv, p, lo, hi))
           /\ Len(Due(cv, p, lo, hi)) \in Nat
<1> DEFINE S == {i \in lo + 1 .. hi : Visible(cv, p, i)}
<1> DEFINE n == Len(cv.log)
<1>0. n \in Nat
  BY LenProperties DEF Conversations
<1> HIDE DEF n
<1>a. hi \in 0 .. n
  BY DEF n
<1>1. S \in SUBSET (1 .. n) /\ S \in SUBSET Nat
  BY <1>0, <1>a
<1>b. IsFiniteSet(1 .. n)
  BY <1>0, FS_Interval
<1>2. IsFiniteSet(S)
  BY <1>1, <1>b, FS_Subset
<1> HIDE DEF S
<1>3. /\ Increasing(S) \in [1 .. Cardinality(S) -> S]
      /\ Cardinality(S) \in Nat
  BY <1>1, <1>2, IncreasingProperties
<1>4. Increasing(S) \in [1 .. Cardinality(S) -> 1 .. n]
  BY <1>1, <1>3
<1> DEFINE f == Increasing(S)
           m == Cardinality(S)
<1> HIDE DEF f, m
<1>5. f \in Seq(1 .. n)
  <2>1. f \in [1 .. m -> 1 .. n] /\ m \in Nat
    BY <1>3, <1>4 DEF f, m
  <2> QED
    BY <2>1, SeqDef
<1> QED
  BY <1>5, LenProperties DEF Due, S, n, f

LEMMA FramesDueType ==
    ASSUME NEW k \in Connections, NEW cv \in Conversations
    PROVE  FramesDue(k, cv) \in Seq(Frames)
<1>1. NamesDue(k, cv) \in Seq(Frames)
  <2> DEFINE f == NamesDue(k, cv)
  <2>1. cv.n - k.named \in Int /\ k.named \in Nat
    BY PlayerAssumption DEF Connections, Conversations
  <2>2. \A i \in 1 .. cv.n - k.named : Name(k.named + i - 1) \in Frames
    BY <2>1 DEF Name, Frame, Frames, FrameKinds
  <2>3. /\ f = [i \in 1 .. cv.n - k.named |-> f[i]]
        /\ \A i \in 1 .. cv.n - k.named : f[i] \in Frames
    BY <2>2 DEF NamesDue
  <2> HIDE DEF f
  <2>4. f \in Seq(Frames)
    BY <2>1, <2>3, SegmentIsSeq
  <2> QED
    BY <2>4 DEF f
<1>2. SidebandDue(k, cv) \in Seq(Frames)
  <2> DEFINE dirty == Increasing(k.dirty)
             f == SidebandDue(k, cv)
  <2>1. k.dirty \in SUBSET Nat /\ k.dirty \in SUBSET Data
    BY DataAssumption DEF Connections
  <2>2. IsFiniteSet(k.dirty)
    BY <2>1, DataAssumption, FS_Subset
  <2>3. /\ dirty \in [1 .. Cardinality(k.dirty) -> k.dirty]
        /\ Cardinality(k.dirty) \in Nat
    BY <2>1, <2>2, IncreasingProperties
  <2> HIDE DEF dirty
  <2>4. \A d \in k.dirty : Sideband(d, cv.side[d]) \in Frames
    BY <2>1 DEF Sideband, Frame, Frames, FrameKinds, Conversations
  <2>5. f = [i \in DOMAIN dirty |-> Sideband(dirty[i], cv.side[dirty[i]])]
    BY DEF SidebandDue, dirty
  <2>6. f \in Seq(Frames)
    BY <2>3, <2>4, <2>5
  <2> QED
    BY <2>6 DEF f
<1>3. MessagesDue(k, cv) \in Seq(Frames)
  <2> DEFINE due == Due(cv, k.player, k.cursor, Len(cv.log))
             f == MessagesDue(k, cv)
  <2>1. k.cursor \in Nat /\ Len(cv.log) \in 0 .. Len(cv.log)
    BY LenProperties DEF Connections, Conversations
  <2>2. due \in Seq(1 .. Len(cv.log)) /\ DOMAIN due = 1 .. Len(due) /\ Len(due) \in Nat
    BY <2>1, DueProperties
  <2> HIDE DEF due
  <2>3. \A i \in 1 .. Len(cv.log) : cv.log[i] \in LogEntries
    BY ElementOfSeq DEF Conversations
  <2>4. \A i \in 1 .. Len(cv.log) : Message(cv, i) \in Frames
    BY <2>3, LenProperties DEF Message, Frame, Frames, FrameKinds, LogEntries
  <2>5. f = [i \in DOMAIN due |-> Message(cv, due[i])]
    BY DEF MessagesDue, due
  <2>6. \A i \in 1 .. Len(due) : due[i] \in 1 .. Len(cv.log)
    BY <2>2
  <2>7. f \in Seq(Frames)
    BY <2>2, <2>4, <2>5, <2>6
  <2> QED
    BY <2>7 DEF f
<1>4. << >> \in Seq(Frames)
  BY EmptySeq
<1>5. Pong \in Frames
  BY DEF Pong, Frame, Frames, FrameKinds
<1>6. k.player # None => Details(k.player) \in Frames
  BY PlayerAssumption DEF Details, Frame, Frames, FrameKinds, Connections, Players
<1> DEFINE a == IF k.pong THEN <<Pong>> ELSE << >>
           b == IF k.player # None /\ ~k.detailed THEN <<Details(k.player)>> ELSE << >>
           c == IF Streams(k, cv)
                THEN NamesDue(k, cv) \o SidebandDue(k, cv) \o MessagesDue(k, cv)
                ELSE << >>
<1>7. a \in Seq(Frames) /\ b \in Seq(Frames)
  BY <1>4, <1>5, <1>6
<1>8. c \in Seq(Frames)
  BY <1>1, <1>2, <1>3, <1>4, ConcatProperties
<1>9. FramesDue(k, cv) = a \o b \o c
  BY DEF FramesDue
<1> HIDE DEF a, b, c
<1> QED
  BY <1>7, <1>8, <1>9, ConcatProperties

(* SubSeq, Len and DOMAIN of what a connection has to write.                *)
LEMMA TakenType ==
    ASSUME NEW due \in Seq(Frames), NEW m \in 0 .. Len(due)
    PROVE  /\ SubSeq(due, 1, m) \in Seq(Frames)
           /\ \A kind : Count(kind, SubSeq(due, 1, m)) \in Nat
<1>1. Len(due) \in Nat
  BY LenProperties
<1>2. SubSeq(due, 1, m) \in Seq(Frames)
  BY <1>1, SubSeqProperties
<1>3. SUFFICES ASSUME NEW kind
               PROVE  Count(kind, SubSeq(due, 1, m)) \in Nat
  BY <1>2
<1> DEFINE t == SubSeq(due, 1, m)
           at == At(kind, t)
<1>4. Len(t) \in Nat /\ DOMAIN t = 1 .. Len(t)
  BY <1>2, LenProperties
<1>5. at \subseteq 1 .. Len(t)
  BY <1>4 DEF At
<1>6. IsFiniteSet(1 .. Len(t))
  BY <1>4, FS_Interval
<1>7. IsFiniteSet(at)
  BY <1>5, <1>6, FS_Subset
<1> QED
  BY <1>7, FS_CardinalityType DEF Count

LEMMA FillWriteBufType ==
    ASSUME NEW k \in Connections, NEW cv \in Conversations
    PROVE  LET f == FillWriteBuf(k, cv)
           IN  /\ f \in Connections
               /\ f.state = k.state
               /\ f.player = k.player
               /\ f.pollOut = k.pollOut
<1> DEFINE due == FramesDue(k, cv)
           fits == {m \in 0 .. Len(due) :
                       m = Len(due) \/ Used(SubSeq(due, 1, m + 1)) > Room(k.buf)}
           fit == Min(fits)
           taken == SubSeq(due, 1, fit)
           reach == IF fit < Len(due)
                    THEN IF due[fit + 1].kind = "message" THEN due[fit + 1].num - 1
                                                          ELSE k.cursor
                    ELSE IF Streams(k, cv) THEN Len(cv.log) ELSE k.cursor
           detailed == k.detailed \/ At("details", taken) # {}
           dirty == k.dirty \ {taken[i].num : i \in At("sideband", taken)}
           pong == k.pong /\ fit = 0
           buf == k.buf \o taken
           named == k.named + Count("name", taken)
<1>1. FillWriteBuf(k, cv) =
        [k EXCEPT !.buf = buf, !.pong = pong, !.detailed = detailed,
                  !.named = named, !.dirty = dirty, !.cursor = reach]
  BY DEF FillWriteBuf, Connections
<1>2. due \in Seq(Frames) /\ Len(due) \in Nat
  BY FramesDueType, LenProperties
<1> HIDE DEF due
<1>3. Len(due) \in fits /\ fits \in SUBSET Nat
  BY <1>2
<1>4. fit \in 0 .. Len(due)
  <2>1. Min(fits) \in fits
    BY <1>3, MinProperties
  <2> QED
    BY <2>1
<1> HIDE DEF fit
<1>5. taken \in Seq(Frames) /\ Count("name", taken) \in Nat
  BY <1>2, <1>4, TakenType
<1>6. reach \in Nat
  <2>1. k.cursor \in Nat /\ Len(cv.log) \in Nat
    BY LenProperties DEF Connections, Conversations
  <2>2. ASSUME fit < Len(due), due[fit + 1].kind = "message"
        PROVE  due[fit + 1].num - 1 \in Nat
    <3>1. fit + 1 \in 1 .. Len(due)
      BY <1>2, <1>4, <2>2
    <3>2. due[fit + 1] \in Frames
      BY <1>2, <3>1, ElementOfSeq
    <3>3. due[fit + 1].num \in Nat /\ due[fit + 1].num > 0
      BY <2>2, <3>2 DEF Frames
    <3> QED
      BY <3>3
  <2> QED
    BY <2>1, <2>2
<1> HIDE DEF taken, reach
<1>7. buf \in Seq(Frames)
  BY <1>5, ConcatProperties DEF Connections
<1>8. detailed \in BOOLEAN /\ pong \in BOOLEAN
  BY DEF Connections
<1>9. dirty \in SUBSET Data
  BY DEF Connections
<1>10. named \in Nat
  BY <1>5 DEF Connections
<1> HIDE DEF detailed, dirty, pong, buf, named
<1> DEFINE r == [k EXCEPT !.buf = buf, !.pong = pong, !.detailed = detailed,
                          !.named = named, !.dirty = dirty, !.cursor = reach]
<1>11. /\ r \in Connections
       /\ r.state = k.state /\ r.player = k.player /\ r.pollOut = k.pollOut
  BY <1>6, <1>7, <1>8, <1>9, <1>10 DEF Connections
<1> HIDE DEF r
<1>12. FillWriteBuf(k, cv) = r
  BY <1>1 DEF r
<1> QED
  BY <1>11, <1>12

LEMMA SkipToType ==
    ASSUME NEW cv \in Conversations, NEW p, NEW count
    PROVE  SkipTo(cv, p, count) \in Nat
<1> DEFINE enough == {h \in 0 .. Len(cv.log) : Len(Due(cv, p, 0, h)) >= count}
<1>1. Len(cv.log) \in Nat
  BY LenProperties DEF Conversations
<1>2. enough \cup {Len(cv.log)} \in SUBSET Nat
  BY <1>1
<1>3. Min(enough \cup {Len(cv.log)}) \in enough \cup {Len(cv.log)}
  BY <1>2, MinProperties
<1> QED
  BY <1>2, <1>3 DEF SkipTo

-----------------------------------------------------------------------------
(* What the handlers leave of the connections.                              *)

(* Every connection stays healthy when the conversation becomes cv, grown   *)
(* or not, and the connections that listen are told.                        *)
LEMMA NotifiedHealthy ==
    ASSUME Inv, NEW cv \in Conversations, conv.n =< cv.n
    PROVE  /\ Notified(cv) \in [Conns -> Connections]
           /\ \A c \in Conns : Healthy(Notified(cv)[c], cv)
<1>1. SUFFICES ASSUME NEW c \in Conns
               PROVE  Healthy(Notified(cv)[c], cv)
  BY DEF Notified, Healthy
<1>2. Notified(cv)[c] = IF Listening(c) THEN UpdatePollFlags(conn[c], cv) ELSE conn[c]
  BY DEF Notified
<1>3. conn[c] \in Connections /\ Healthy(conn[c], conv)
  BY DEF Inv
<1>4. conn[c].player \in {None} \cup 0 .. cv.n - 1
  BY <1>3 DEF Inv, Consistent, Conversations, Healthy
<1>5. CASE Listening(c)
  BY <1>2, <1>3, <1>4, <1>5, UpdateProperties DEF Healthy, Listening, Open
<1>6. CASE ~Listening(c)
  <2>1. Open(c) => ReadyToWrite(conn[c], cv) = ReadyToWrite(conn[c], conv)
    BY <1>3, <1>6, ReadyWithoutPlayer DEF Listening
  <2> QED
    BY <1>2, <1>3, <1>4, <1>6, <2>1 DEF Healthy, Open
<1> QED
  BY <1>5, <1>6

LEMMA NotifiedOfDataHealthy ==
    ASSUME Inv, NEW cv \in Conversations, conv.n = cv.n, NEW d \in Data
    PROVE  /\ NotifiedOfData(cv, d) \in [Conns -> Connections]
           /\ \A c \in Conns : Healthy(NotifiedOfData(cv, d)[c], cv)
<1>1. SUFFICES ASSUME NEW c \in Conns
               PROVE  Healthy(NotifiedOfData(cv, d)[c], cv)
  BY DEF NotifiedOfData, Healthy
<1> DEFINE k == [conn[c] EXCEPT !.dirty = @ \cup {d}]
<1>2. NotifiedOfData(cv, d)[c] =
          IF Listening(c) THEN UpdatePollFlags(k, cv) ELSE conn[c]
  BY DEF NotifiedOfData
<1>3. conn[c] \in Connections /\ Healthy(conn[c], conv)
  BY DEF Inv
<1>4. /\ k \in Connections /\ k.state = conn[c].state
      /\ k.player = conn[c].player
  BY <1>3 DEF Connections
<1> HIDE DEF k
<1>5. CASE Listening(c)
  BY <1>2, <1>3, <1>4, <1>5, UpdateProperties DEF Healthy, Listening, Open
<1>6. CASE ~Listening(c)
  <2>1. Open(c) => ReadyToWrite(conn[c], cv) = ReadyToWrite(conn[c], conv)
    BY <1>3, <1>6, ReadyWithoutPlayer DEF Listening
  <2> QED
    BY <1>2, <1>3, <1>6, <2>1 DEF Healthy, Open
<1> QED
  BY <1>5, <1>6

(* A change of the conversation that no connection depends on.              *)
LEMMA UntouchedHealthy ==
    ASSUME Inv, NEW cv, conv.n = cv.n, conv.left = cv.left,
           Len(conv.log) = Len(cv.log)
    PROVE  \A c \in Conns : Healthy(conn[c], cv)
BY ReadyDependsOn DEF Inv, Healthy

LEMMA UpdateHealthy ==
    ASSUME NEW k \in Connections, NEW cv \in Conversations,
           k.state = "open", k.player \in {None} \cup 0 .. cv.n - 1
    PROVE  Healthy(UpdatePollFlags(k, cv), cv)
BY UpdateProperties DEF Healthy

LEMMA SetPlayerHealthy ==
    ASSUME NEW k \in Connections, NEW cv \in Conversations, k.state = "open",
           NEW p \in 0 .. cv.n - 1, NEW count
    PROVE  Healthy(SetPlayer(k, cv, p, count), cv)
<1> DEFINE at == SkipTo(cv, p, count)
           data == AvailableData(cv)
           t == [k EXCEPT !.player = p, !.detailed = FALSE, !.cursor = at,
                          !.dirty = data]
<1>1. at \in Nat /\ data \in SUBSET Data
  BY SkipToType DEF AvailableData
<1>2. SetPlayer(k, cv, p, count) = UpdatePollFlags(t, cv)
  BY DEF SetPlayer
<1> HIDE DEF at, data
<1>3. p \in Players
  BY PlayerAssumption DEF Conversations, Players
<1>4. t \in Connections /\ t.player = p /\ t.state = "open"
  BY <1>1, <1>3 DEF Connections
<1> HIDE DEF t
<1> QED
  BY <1>2, <1>4, UpdateHealthy

LEMMA ClosedHealthy ==
    ASSUME NEW cv
    PROVE  Healthy([NewConnection EXCEPT !.state = "closed"], cv)
<1>1. << >> \in Seq(Frames)
  BY EmptySeq
<1> QED
  BY <1>1 DEF NewConnection, Connections, Healthy

-----------------------------------------------------------------------------
(* The invariant: initially, and across every step.                         *)

LEMMA InitInv == Init => Inv
<1> SUFFICES ASSUME Init PROVE Inv
  OBVIOUS
<1>1. \A S : << >> \in Seq(S)
  BY EmptySeq
<1>2. Consistent(conv)
  BY <1>1, PlayerAssumption
  DEF Init, NewConversation, Consistent, Conversations, Players
<1>3. NewConnection \in Connections
  BY <1>1 DEF NewConnection, Connections
<1>4. \A c \in Conns : Healthy(conn[c], conv)
  BY <1>3 DEF Init, Healthy, NewConnection
<1>5. NoHello \in Hellos /\ NewPage \in Pages /\ NewPage.sock = None
  BY <1>1 DEF NoHello, Hellos, NewPage, Pages
<1> QED
  BY <1>1, <1>2, <1>3, <1>4, <1>5 DEF Inv, Init

(* One connection has changed, and the conversation not for the others.     *)
LEMMA OneConnection ==
    ASSUME Inv, NEW c \in Conns, NEW k, Healthy(k, conv'),
           \A b \in Conns : Healthy(conn[b], conv'),
           conn' = [conn EXCEPT ![c] = k]
    PROVE  /\ conn' \in [Conns -> Connections]
           /\ \A b \in Conns : Healthy(conn'[b], conv')
BY DEF Inv, Healthy

LEMMA NoHelloType == NoHello \in Hellos
BY DEF NoHello, Hellos

LEMMA NewPlayerInv ==
    ASSUME Inv, NEW c \in Conns, HandleNewPlayer(c)
    PROVE  Inv'
<1>1. PICK was : was = [conv EXCEPT !.pending = TRUE]
  OBVIOUS
<1>2. PICK cv : cv = AddPlayer(was)
  OBVIOUS
<1>3. /\ conv' = cv
      /\ conn' = [Notified(cv) EXCEPT ![c] = SetPlayer(conn[c], cv, conv.n, 0)]
      /\ conn[c].state = "open"
      /\ conv.n = 0 \/ conv.pending
      /\ hello' = [hello EXCEPT ![c] = NoHello]
      /\ wire' = wire /\ client' = client
  BY <1>1, <1>2 DEF HandleNewPlayer, Open
<1>4. /\ conv \in Conversations
      /\ ~conv.started /\ conv.n < MaxPlayers
      /\ conv.left = {} /\ conv.base = 0 .. conv.n - 1
  <2>1. conv \in Conversations
    BY DEF Inv, Consistent
  <2>2. CASE conv.n = 0
    <3>1. 0 .. conv.n - 1 = {}
      BY <2>2
    <3>2. conv.left = {} /\ conv.base = {} /\ ~conv.started
      BY <3>1, <2>2 DEF Inv, Consistent
    <3>3. conv.n < MaxPlayers
      BY <2>2, PlayerAssumption
    <3> QED
      BY <2>1, <3>1, <3>2, <3>3
  <2>3. CASE conv.n # 0
    BY <2>1, <2>3, <1>3 DEF Inv, Consistent
  <2> QED
    BY <2>2, <2>3
<1>5. /\ was \in Conversations
      /\ was.n = conv.n /\ was.started = conv.started
      /\ was.left = conv.left /\ was.base = conv.base
  BY <1>1, <1>4 DEF Conversations
<1>6. /\ cv \in Conversations
      /\ cv.n = conv.n + 1
      /\ cv.left = conv.left
      /\ cv.base = conv.base \cup {conv.n}
      /\ cv.pending => ~cv.started /\ cv.n < MaxPlayers
  BY <1>2, <1>4, <1>5, AddPlayerProperties
<1>7. conv.n \in Nat
  BY <1>4 DEF Conversations
<1>8. cv.base = 0 .. cv.n - 1 /\ cv.n # 0
  BY <1>4, <1>6, <1>7
<1>9. Consistent(conv')
  BY <1>3, <1>4, <1>6, <1>7, <1>8 DEF Consistent
<1>10. /\ Notified(cv) \in [Conns -> Connections]
       /\ \A b \in Conns : Healthy(Notified(cv)[b], cv)
  BY <1>6, <1>7, NotifiedHealthy
<1>11. Healthy(SetPlayer(conn[c], cv, conv.n, 0), cv)
  <2>1. conn[c] \in Connections /\ conv.n \in 0 .. cv.n - 1
    BY <1>6, <1>7 DEF Inv
  <2> QED
    BY <2>1, <1>3, <1>6, SetPlayerHealthy
<1>12. /\ conn' \in [Conns -> Connections]
       /\ \A b \in Conns : Healthy(conn'[b], conv')
  BY <1>3, <1>10, <1>11 DEF Healthy
<1> QED
  BY <1>3, <1>9, <1>12, NoHelloType DEF Inv

LEMMA NotFoundInv ==
    ASSUME Inv, NEW c \in Conns, HandleNotFound(c)
    PROVE  Inv'
<1> DEFINE k == [conn[c] EXCEPT !.buf = Append(@, NotFound)]
<1>1. /\ conv' = conv /\ wire' = wire /\ client' = client
      /\ hello' = [hello EXCEPT ![c] = NoHello]
      /\ conn[c].state = "open"
      /\ \/ conn' = [conn EXCEPT ![c] = UpdatePollFlags(k, conv)]
         \/ conn' = [conn EXCEPT ![c] = [NewConnection EXCEPT !.state = "closed"]]
  BY DEF HandleNotFound, RemoveClient, Open
<1>2. conn[c] \in Connections /\ conv \in Conversations
  BY DEF Inv, Consistent
<1>3. NotFound \in Frames
  BY DEF NotFound, Frame, Frames, FrameKinds
<1>4. Append(conn[c].buf, NotFound) \in Seq(Frames)
  BY <1>2, <1>3, AppendProperties DEF Connections
<1>5. k \in Connections /\ k.state = "open" /\ k.player = conn[c].player
  BY <1>1, <1>2, <1>4 DEF Connections
<1> HIDE DEF k
<1>6. conn[c].player \in {None} \cup 0 .. conv.n - 1
  BY DEF Inv, Healthy
<1>7. /\ Healthy(UpdatePollFlags(k, conv), conv)
      /\ Healthy([NewConnection EXCEPT !.state = "closed"], conv)
  BY <1>2, <1>5, <1>6, UpdateHealthy, ClosedHealthy
<1>8. /\ conn' \in [Conns -> Connections]
      /\ \A b \in Conns : Healthy(conn'[b], conv)
  BY <1>1, <1>7, ZenonT(60) DEF Inv, Healthy
<1> QED
  BY <1>1, <1>8, NoHelloType DEF Inv

LEMMA ReconnectInv ==
    ASSUME Inv, NEW c \in Conns, HandleReconnect(c)
    PROVE  Inv'
<1> DEFINE k == SetPlayer(conn[c], conv, hello[c].id, hello[c].count)
<1>1. /\ conv' = conv /\ wire' = wire /\ client' = client
      /\ hello' = [hello EXCEPT ![c] = NoHello]
      /\ conn[c].state = "open"
      /\ \/ hello[c].id \in conv.base /\ conn' = [conn EXCEPT ![c] = k]
         \/ conn' = [conn EXCEPT ![c] = [NewConnection EXCEPT !.state = "closed"]]
  BY DEF HandleReconnect, RemoveClient, Open, Inv
<1>2. conn[c] \in Connections /\ conv \in Conversations
  BY DEF Inv, Consistent
<1>3. hello[c].id \in conv.base => Healthy(k, conv)
  BY <1>1, <1>2, SetPlayerHealthy DEF Inv, Consistent
<1> HIDE DEF k
<1>4. Healthy([NewConnection EXCEPT !.state = "closed"], conv)
  BY ClosedHealthy
<1>5. /\ conn' \in [Conns -> Connections]
      /\ \A b \in Conns : Healthy(conn'[b], conv)
  BY <1>1, <1>3, <1>4, ZenonT(60) DEF Inv, Healthy
<1> QED
  BY <1>1, <1>5, NoHelloType DEF Inv

(* The connection is closed and nothing else changes.                       *)
LEMMA RemoveClientInv ==
    ASSUME Inv, NEW c \in Conns, RemoveClient(c),
           UNCHANGED <<conv, hello, wire, client>>
    PROVE  Inv'
BY ClosedHealthy DEF RemoveClient, Inv, Healthy

(* Somebody speaks: a chat line or a message of the game.                   *)
LEMMA SpokenInv ==
    ASSUME Inv, NEW to \in Players \cup {None}, NEW from \in Players \cup {None},
           NEW size \in MsgSizes,
           NEW cv, cv = [QueueMessage(conv, to, from, size) EXCEPT !.said = @ + 1],
           conv' = cv, conn' = Notified(cv), UNCHANGED <<hello, wire, client>>
    PROVE  Inv'
<1>1. PICK q : q = QueueMessage(conv, to, from, size)
  OBVIOUS
<1>2. conv \in Conversations /\ size \in Nat
  BY BufferAssumption DEF Inv, Consistent
<1>3. q \in Conversations /\ q = [conv EXCEPT !.log = q.log]
  BY <1>1, <1>2, QueueMessageType
<1>4. /\ q.n = conv.n /\ q.left = conv.left /\ q.base = conv.base
      /\ q.started = conv.started /\ q.pending = conv.pending
  BY <1>2, <1>3 DEF Conversations
<1>5. q.said + 1 \in Nat
  BY <1>3 DEF Conversations
<1>6. /\ cv \in Conversations
      /\ cv.n = conv.n /\ cv.left = conv.left /\ cv.base = conv.base
      /\ cv.started = conv.started /\ cv.pending = conv.pending
  <2>1. cv = [q EXCEPT !.said = q.said + 1]
    BY <1>1, <1>3 DEF Conversations
  <2> QED
    BY <2>1, <1>3, <1>4, <1>5 DEF Conversations
<1>7. Consistent(cv)
  BY <1>6 DEF Inv, Consistent
<1>8. /\ Notified(cv) \in [Conns -> Connections]
      /\ \A b \in Conns : Healthy(Notified(cv)[b], cv)
  <2>1. conv.n =< cv.n
    BY <1>6 DEF Conversations
  <2> QED
    BY <1>6, <2>1, NotifiedHealthy
<1> QED
  BY <1>7, <1>8 DEF Inv

LEMMA ChatInv ==
    ASSUME Inv, NEW c \in Conns, NEW size \in MsgSizes, HandleChat(c, size)
    PROVE  Inv'
<1>1. conn[c].player \in Players \cup {None}
  BY DEF Inv, Connections
<1> QED
  BY <1>1, SpokenInv DEF HandleChat

LEMMA StartInv ==
    ASSUME Inv, NEW c \in Conns, HandleStart(c)
    PROVE  Inv'
<1>1. PICK cv : cv = StartConversation(conv)
  OBVIOUS
<1>2. /\ conv' = cv
      /\ conn' = conn /\ hello' = hello /\ wire' = wire /\ client' = client
  BY <1>1 DEF HandleStart
<1>3. conv \in Conversations
  BY DEF Inv, Consistent
<1>4. /\ cv \in Conversations
      /\ cv.n = conv.n /\ cv.left = conv.left /\ cv.log = conv.log
      /\ cv.base = conv.base
      /\ cv.pending => cv = conv
      /\ conv.n = 0 => cv = conv
  BY <1>1, <1>3, StartType
<1>5. Consistent(cv)
  BY <1>4 DEF Inv, Consistent
<1>6. \A b \in Conns : Healthy(conn[b], cv)
  BY <1>4, UntouchedHealthy
<1> QED
  BY <1>2, <1>5, <1>6 DEF Inv

LEMMA LeaveInv ==
    ASSUME Inv, NEW c \in Conns, HandleLeave(c)
    PROVE  Inv'
<1>1. PICK was : was = [conv EXCEPT !.left = @ \cup {conn[c].player}]
  OBVIOUS
<1>2. PICK cv : cv = RemovePlayer(was)
  OBVIOUS
<1>3. /\ conv' = cv /\ conn' = Notified(cv)
      /\ hello' = hello /\ wire' = wire /\ client' = client
      /\ conn[c].player # None
  BY <1>1, <1>2 DEF HandleLeave, MayAct
<1>4. /\ conv \in Conversations
      /\ conn[c].player \in 0 .. conv.n - 1
      /\ conn[c].player \in Players
  BY <1>3 DEF Inv, Consistent, Healthy, Connections
<1>5. /\ was \in Conversations
      /\ was.n = conv.n /\ was.started = conv.started
      /\ was.left = conv.left \cup {conn[c].player} /\ was.base = conv.base
  BY <1>1, <1>4 DEF Conversations
<1>6. /\ cv \in Conversations
      /\ cv.n = conv.n /\ cv.left = conv.left \cup {conn[c].player}
      /\ cv.base = conv.base /\ cv.started = conv.started
      /\ ~cv.pending
  BY <1>2, <1>5, RemovePlayerProperties
<1>7. Consistent(cv)
  BY <1>4, <1>6 DEF Inv, Consistent
<1>8. /\ Notified(cv) \in [Conns -> Connections]
      /\ \A b \in Conns : Healthy(Notified(cv)[b], cv)
  <2>1. conv.n =< cv.n
    BY <1>6 DEF Conversations
  <2> QED
    BY <1>6, <2>1, NotifiedHealthy
<1> QED
  BY <1>3, <1>7, <1>8 DEF Inv

LEMMA PingInv ==
    ASSUME Inv, NEW c \in Conns, HandlePing(c)
    PROVE  Inv'
<1> DEFINE k == [conn[c] EXCEPT !.pong = TRUE]
<1>1. /\ conn[c].state = "open"
      /\ conn' = [conn EXCEPT ![c] = UpdatePollFlags(k, conv)]
      /\ UNCHANGED <<conv, hello, wire, client>>
  BY DEF HandlePing, Open
<1>2. /\ conn[c] \in Connections /\ conv \in Conversations
      /\ conn[c].player \in {None} \cup 0 .. conv.n - 1
  BY DEF Inv, Consistent, Healthy
<1>3. k \in Connections /\ k.state = "open" /\ k.player = conn[c].player
  BY <1>1, <1>2 DEF Connections
<1> HIDE DEF k
<1>4. Healthy(UpdatePollFlags(k, conv), conv)
  BY <1>2, <1>3, UpdateHealthy
<1> QED
  BY <1>1, <1>4 DEF Inv, Healthy

LEMMA WriteInv ==
    ASSUME Inv, NEW c \in Conns, NEW m \in Nat, HandleWrite(c, m)
    PROVE  Inv'
<1>1. PICK k : k = FillWriteBuf(conn[c], conv)
  OBVIOUS
<1> DEFINE rest == [k EXCEPT !.buf = SubSeq(@, m + 1, Len(@))]
           sent == SubSeq(k.buf, 1, m)
<1>2. /\ conn[c].state = "open" /\ conn[c].pollOut
      /\ m =< Len(k.buf)
      /\ \/ conn' = [conn EXCEPT ![c] = k]
         \/ conn' = [conn EXCEPT ![c] = UpdatePollFlags(rest, conv)]
      /\ wire' = [wire EXCEPT ![c] = @ \o sent]
      /\ UNCHANGED <<conv, hello, client>>
  BY <1>1 DEF HandleWrite, Open, Inv
<1>3. /\ conn[c] \in Connections /\ conv \in Conversations
      /\ conn[c].player \in {None} \cup 0 .. conv.n - 1
  BY DEF Inv, Consistent, Healthy
<1>4. /\ k \in Connections
      /\ k.state = "open" /\ k.pollOut
      /\ k.player = conn[c].player
  BY <1>1, <1>2, <1>3, FillWriteBufType
<1>5. k.buf \in Seq(Frames) /\ Len(k.buf) \in Nat
  BY <1>4, LenProperties DEF Connections
<1>6. SubSeq(k.buf, m + 1, Len(k.buf)) \in Seq(Frames) /\ sent \in Seq(Frames)
  BY <1>2, <1>5, SubSeqProperties
<1>7. rest \in Connections /\ rest.state = "open" /\ rest.player = k.player
  BY <1>4, <1>6 DEF Connections
<1>8. wire[c] \o sent \in Seq(Frames)
  BY <1>6, ConcatProperties DEF Inv
<1> HIDE DEF rest, sent
<1>9. Healthy(k, conv)
  BY <1>3, <1>4 DEF Healthy
<1>10. Healthy(UpdatePollFlags(rest, conv), conv)
  BY <1>3, <1>4, <1>7, UpdateHealthy
<1>11. /\ conn' \in [Conns -> Connections]
       /\ \A b \in Conns : Healthy(conn'[b], conv)
  BY <1>2, <1>9, <1>10, ZenonT(60) DEF Inv, Healthy
<1>12. wire' \in [Conns -> Seq(Frames)]
  BY <1>2, <1>8 DEF Inv
<1> QED
  BY <1>2, <1>11, <1>12 DEF Inv

LEMMA SidebandInv ==
    ASSUME Inv, NEW d \in Data, NEW v \in Values, NEW force,
           GameSideband(d, v, force)
    PROVE  Inv'
<1>1. PICK side : side = [conv.side EXCEPT ![d] = v]
  OBVIOUS
<1>2. PICK cv : cv = [conv EXCEPT !.side[d] = v, !.changes = @ + 1]
  OBVIOUS
<1>3. /\ conv' = cv /\ conn' = NotifiedOfData(cv, d)
      /\ UNCHANGED <<hello, wire, client>>
  BY <1>2 DEF GameSideband
<1>4. conv \in Conversations
  BY DEF Inv, Consistent
<1>5. side \in [Data -> Values \cup {Unset}] /\ conv.changes + 1 \in Nat
  BY <1>1, <1>4 DEF Conversations
<1>6. cv = [conv EXCEPT !.side = side, !.changes = conv.changes + 1]
  BY <1>1, <1>2, <1>4 DEF Conversations
<1>7. /\ cv \in Conversations
      /\ cv.n = conv.n /\ cv.left = conv.left /\ cv.base = conv.base
      /\ cv.started = conv.started /\ cv.pending = conv.pending
  BY <1>4, <1>5, <1>6 DEF Conversations
<1>8. Consistent(cv)
  BY <1>7 DEF Inv, Consistent
<1>9. /\ NotifiedOfData(cv, d) \in [Conns -> Connections]
      /\ \A b \in Conns : Healthy(NotifiedOfData(cv, d)[b], cv)
  BY <1>7, NotifiedOfDataHealthy
<1> QED
  BY <1>3, <1>8, <1>9 DEF Inv

LEMMA GameOverInv ==
    ASSUME Inv, GameOver
    PROVE  Inv'
<1>1. PICK cv : cv = [conv EXCEPT !.game = FALSE]
  OBVIOUS
<1>2. conv \in Conversations
  BY DEF Inv, Consistent
<1>3. /\ cv \in Conversations
      /\ cv.n = conv.n /\ cv.left = conv.left /\ cv.base = conv.base
      /\ cv.started = conv.started /\ cv.pending = conv.pending
      /\ cv.log = conv.log
  BY <1>1, <1>2 DEF Conversations
<1>4. Consistent(cv)
  BY <1>3 DEF Inv, Consistent
<1>5. \A b \in Conns : Healthy(conn[b], cv)
  BY <1>3, UntouchedHealthy
<1> QED
  BY <1>1, <1>4, <1>5 DEF Inv, GameOver

LEMMA ExpireInv ==
    ASSUME Inv, NEW p \in Players, Expire(p)
    PROVE  Inv'
<1>1. PICK was : was = [conv EXCEPT !.base = @ \ {p}]
  OBVIOUS
<1>2. PICK cv : cv = IF p \in conv.left THEN was ELSE RemovePlayer(was)
  OBVIOUS
<1>3. /\ conv' = cv
      /\ conn' = IF p \in conv.left THEN conn ELSE Notified(cv)
      /\ UNCHANGED <<hello, wire, client>>
  <2>1. was.left = conv.left
    BY <1>1 DEF Inv, Consistent, Conversations
  <2> QED
    BY <1>1, <1>2, <2>1 DEF Expire
<1>4. conv \in Conversations
  BY DEF Inv, Consistent
<1>5. /\ was \in Conversations
      /\ was.n = conv.n /\ was.left = conv.left /\ was.base = conv.base \ {p}
      /\ was.started = conv.started /\ was.pending = conv.pending
      /\ was.log = conv.log
  BY <1>1, <1>4 DEF Conversations
<1>6. CASE p \in conv.left
  <2>1. cv = was /\ conv.left # {}
    BY <1>2, <1>6
  <2>2. Consistent(cv)
    BY <2>1, <1>5 DEF Inv, Consistent
  <2>3. \A b \in Conns : Healthy(conn[b], cv)
    BY <2>1, <1>5, UntouchedHealthy
  <2> QED
    BY <1>3, <1>6, <2>2, <2>3 DEF Inv
<1>7. CASE p \notin conv.left
  <2>1. /\ cv \in Conversations
        /\ cv.n = conv.n /\ cv.left = conv.left /\ cv.base = conv.base \ {p}
        /\ cv.started = conv.started
        /\ ~cv.pending
    BY <1>2, <1>5, <1>7, RemovePlayerProperties
  <2>2. Consistent(cv)
    BY <2>1 DEF Inv, Consistent
  <2>3. conv.n =< cv.n
    BY <2>1 DEF Conversations
  <2>4. /\ Notified(cv) \in [Conns -> Connections]
        /\ \A b \in Conns : Healthy(Notified(cv)[b], cv)
    BY <2>1, <2>3, NotifiedHealthy
  <2> QED
    BY <1>3, <1>7, <2>2, <2>4 DEF Inv
<1> QED
  BY <1>6, <1>7

LEMMA ConnsMember ==
    ASSUME NEW u \in Clients, NEW i \in 1 .. MaxSockets[u]
    PROVE  <<u, i>> \in Conns
BY DEF Conns

LEMMA ConnectInv ==
    ASSUME Inv, NEW u \in Clients, NEW i \in 1 .. MaxSockets[u], Connect(u, i)
    PROVE  Inv'
<1>1. PICK c : c = <<u, i>>
  OBVIOUS
<1>2. PICK page : page = client[u]
  OBVIOUS
<1>3. PICK first : first = IF page.id = None THEN NewHello
                           ELSE Reconnect(page.id, Len(page.got) % CountMod)
  OBVIOUS
<1> DEFINE k == [conn[c] EXCEPT !.state = "open"]
<1>4. /\ conn[c].state = "unused"
      /\ conn' = [conn EXCEPT ![c] = k]
      /\ hello' = [hello EXCEPT ![c] = first]
      /\ client' = [client EXCEPT ![u].sock = i]
      /\ UNCHANGED <<conv, wire>>
  <2>1. conn' = [conn EXCEPT ![c].state = "open"]
    BY <1>1 DEF Connect
  <2> QED
    BY <1>1, <1>2, <1>3, <2>1 DEF Connect
<1>5. c \in Conns
  BY <1>1, ConnsMember
<1>6. page \in Pages /\ Len(page.got) \in Nat
  BY <1>2, LenProperties DEF Inv, Pages
<1>7. first \in Hellos
  <2>1. CASE page.id = None
    BY <1>3, <2>1 DEF NewHello, Hellos
  <2>2. CASE page.id # None
    <3>1. \A n \in Nat : n % CountMod \in Nat
      BY BufferAssumption
    <3> QED
      BY <1>3, <1>6, <2>2, <3>1 DEF Reconnect, Hellos, Pages
  <2> QED
    BY <2>1, <2>2
<1>8. Healthy(k, conv)
  <2>1. conn[c] \in Connections /\ Healthy(conn[c], conv)
    BY <1>5 DEF Inv
  <2>2. /\ k \in Connections /\ k.state = "open" /\ k.player = conn[c].player
        /\ k.pong = conn[c].pong /\ k.buf = conn[c].buf
    BY <2>1 DEF Connections
  <2> HIDE DEF k
  <2>3. ~ ReadyToWrite(k, conv)
    BY <1>4, <2>1, <2>2 DEF Healthy, ReadyToWrite
  <2> QED
    BY <2>1, <2>2, <2>3 DEF Healthy
<1> HIDE DEF k
<1>9. /\ conn' \in [Conns -> Connections]
      /\ \A b \in Conns : Healthy(conn'[b], conv)
  BY <1>4, <1>5, <1>8 DEF Inv, Healthy
<1>10. client' \in [Clients -> Pages]
  <2>1. i \in Nat
    BY BoundAssumption
  <2>2. client' = [client EXCEPT ![u] = [page EXCEPT !.sock = i]]
    BY <1>2, <1>4
  <2>3. [page EXCEPT !.sock = i] \in Pages
    BY <1>6, <2>1 DEF Pages
  <2> QED
    BY <2>2, <2>3 DEF Inv
<1> QED
  BY <1>4, <1>7, <1>9, <1>10 DEF Inv

LEMMA HandledType ==
    ASSUME NEW page \in Pages, NEW f \in Frames
    PROVE  /\ Handled(page, f) \in Pages
           /\ Handled(page, f).sock \in {None, page.sock}
<1>1. /\ f.kind \in FrameKinds /\ f.num \in Nat
      /\ f.value \in Values \cup {Unset}
      /\ f.kind = "details" => f.num \in Players
  BY DEF Frames
<1>2. CASE f.kind = "details"
  <2>1. [d \in Data |-> Unset] \in [Data -> Values \cup {Unset}]
    OBVIOUS
  <2>2. Handled(page, f) = [page EXCEPT !.id = f.num, !.names = 0,
                                        !.view = [d \in Data |-> Unset]]
    BY <1>2 DEF Handled
  <2> QED
    <3> DEFINE empty == [d \in Data |-> Unset]
    <3>1. f.num \in Players \cup {None} /\ empty \in [Data -> Values \cup {Unset}]
      BY <1>1, <1>2, <2>1
    <3> HIDE DEF empty
    <3>2. Handled(page, f) = [page EXCEPT !.id = f.num, !.names = 0, !.view = empty]
      BY <2>2 DEF empty
    <3>3. [page EXCEPT !.id = f.num] \in Pages
      BY <3>1 DEF Pages
    <3>4. [page EXCEPT !.id = f.num, !.names = 0] \in Pages
      BY <3>3 DEF Pages
    <3> QED
      BY <3>1, <3>2, <3>4 DEF Pages
<1>3. CASE f.kind = "name"
  <2>1. Handled(page, f) = [page EXCEPT !.names = f.num + 1]
    BY <1>3 DEF Handled
  <2>2. f.num + 1 \in Nat
    BY <1>1
  <2> QED
    BY <2>1, <2>2 DEF Pages
<1>4. CASE f.kind = "sideband"
  <2>1. [page.view EXCEPT ![f.num] = f.value] \in [Data -> Values \cup {Unset}]
    BY <1>1 DEF Pages
  <2>2. Handled(page, f) = [page EXCEPT !.view = [page.view EXCEPT ![f.num] = f.value]]
    BY <1>4 DEF Handled
  <2> QED
    BY <2>1, <2>2 DEF Pages
<1>5. CASE f.kind = "message"
  <2>1. Append(page.got, f.num) \in Seq(Nat)
    BY <1>1, AppendProperties DEF Pages
  <2>2. Handled(page, f) = [page EXCEPT !.got = Append(page.got, f.num)]
    BY <1>5 DEF Handled
  <2> QED
    BY <2>1, <2>2 DEF Pages
<1>6. CASE f.kind = "notfound"
  BY <1>6 DEF Handled, Pages
<1>7. CASE f.kind = "pong"
  BY <1>7 DEF Handled
<1> QED
  BY <1>1, <1>2, <1>3, <1>4, <1>5, <1>6, <1>7 DEF FrameKinds

LEMMA ReceiveInv ==
    ASSUME Inv, NEW u \in Clients, Receive(u)
    PROVE  Inv'
<1>1. PICK c : c = <<u, client[u].sock>>
  OBVIOUS
<1>2. PICK w : w = wire[c]
  OBVIOUS
<1>3. /\ w # << >>
      /\ client' = [client EXCEPT ![u] = Handled(client[u], Head(w))]
      /\ wire' = [wire EXCEPT ![c] = IF Head(w).kind = "notfound"
                                    THEN << >> ELSE Tail(w)]
      /\ UNCHANGED <<conv, conn, hello>>
  BY <1>1, <1>2 DEF Receive, Inv
<1>4. c \in Conns
  BY <1>1, ConnsMember DEF Receive, Inv
<1>5. w \in Seq(Frames)
  BY <1>2, <1>4 DEF Inv
<1>6. Head(w) \in Frames /\ Tail(w) \in Seq(Frames) /\ << >> \in Seq(Frames)
  BY <1>3, <1>5, HeadTailProperties, EmptySeq
<1>7. /\ Handled(client[u], Head(w)) \in Pages
      /\ Handled(client[u], Head(w)).sock \in {None, client[u].sock}
  BY <1>6, HandledType DEF Inv
<1> QED
  BY <1>3, <1>6, <1>7 DEF Inv

(* The page no longer has its socket.                                       *)
LEMMA DisconnectedInv ==
    ASSUME Inv, NEW u \in Clients, NEW c,
           client' = Disconnected(u), wire' = Emptied(c),
           UNCHANGED <<conv, conn, hello>>
    PROVE  Inv'
<1>1. << >> \in Seq(Frames)
  BY EmptySeq
<1>2. wire' \in [Conns -> Seq(Frames)]
  BY <1>1 DEF Inv, Emptied
<1>3. [client[u] EXCEPT !.sock = None] \in Pages
  BY DEF Inv, Pages
<1>4. client' = [client EXCEPT ![u] = [client[u] EXCEPT !.sock = None]]
  BY DEF Disconnected
<1>5. /\ client' \in [Clients -> Pages]
      /\ \A v \in Clients : client'[v].sock \in {None} \cup 1 .. MaxSockets[v]
  BY <1>3, <1>4 DEF Inv, Pages
<1> QED
  BY <1>2, <1>5 DEF Inv

LEMMA NextInv == Inv /\ [Next]_vars => Inv'
<1> SUFFICES ASSUME Inv, [Next]_vars PROVE Inv'
  OBVIOUS
<1>1. ASSUME NEW c \in Conns, Server(c) PROVE Inv'
  <2>1. CASE HandleNewPlayer(c)
    BY <2>1, NewPlayerInv
  <2>2. CASE HandleNotFound(c)
    BY <2>2, NotFoundInv
  <2>3. CASE HandleReconnect(c)
    BY <2>3, ReconnectInv
  <2>4. CASE HandleRefused(c)
    BY <2>4, RemoveClientInv DEF HandleRefused
  <2>5. CASE HandleStart(c)
    BY <2>5, StartInv
  <2>6. CASE HandleLeave(c)
    BY <2>6, LeaveInv
  <2>7. CASE HandlePing(c)
    BY <2>7, PingInv
  <2>8. ASSUME NEW size \in MsgSizes, HandleChat(c, size) PROVE Inv'
    BY <2>8, ChatInv
  <2>9. ASSUME NEW m \in 0 .. BufSize, HandleWrite(c, m) PROVE Inv'
    <3>1. m \in Nat
      BY BufferAssumption
    <3> QED
      BY <2>9, <3>1, WriteInv
  <2>10. CASE Lose(c)
    BY <2>10, RemoveClientInv DEF Lose
  <2> QED
    BY <1>1, <2>1, <2>2, <2>3, <2>4, <2>5, <2>6, <2>7, <2>8, <2>9, <2>10
    DEF Server
<1>2. CASE Game
  <2>1. ASSUME NEW to \in Players \cup {None}, NEW size \in MsgSizes,
               GameMessage(to, size)
        PROVE  Inv'
    BY <2>1, SpokenInv DEF GameMessage
  <2>2. ASSUME NEW d \in Data, NEW v \in Values, NEW force \in BOOLEAN,
               GameSideband(d, v, force)
        PROVE  Inv'
    BY <2>2, SidebandInv
  <2>3. CASE GameOver
    BY <2>3, GameOverInv
  <2>4. ASSUME NEW p \in Players, Expire(p) PROVE Inv'
    BY <2>4, ExpireInv
  <2> QED
    BY <1>2, <2>1, <2>2, <2>3, <2>4 DEF Game
<1>3. ASSUME NEW u \in Clients, Page(u) PROVE Inv'
  <2>1. ASSUME NEW i \in 1 .. MaxSockets[u], Connect(u, i) PROVE Inv'
    BY <2>1, ConnectInv
  <2>2. CASE Receive(u)
    BY <2>2, ReceiveInv
  <2>3. CASE Drop(u)
    BY <2>3, DisconnectedInv DEF Drop
  <2>4. CASE Notice(u)
    BY <2>4, DisconnectedInv DEF Notice
  <2> QED
    BY <1>3, <2>1, <2>2, <2>3, <2>4 DEF Page
<1>4. CASE UNCHANGED vars
  BY <1>4 DEF vars, Inv
<1> QED
  BY <1>1, <1>2, <1>3, <1>4 DEF Next

LEMMA Invariance == Spec => []Inv
BY InitInv, NextInv, PTL DEF Spec

-----------------------------------------------------------------------------
(* What is on its way to the page of an attached socket, in order.  From    *)
(* here on a socket is described by its page, the frames on their way to    *)
(* it, the connection at its other end and the request that waits there.    *)

Queue(c) == wire[c] \o conn[c].buf
SocketOf(u) == <<u, client[u].sock>>

Fresh(q) == At("details", q) # {}
OnlyPongs(q) == \A i \in DOMAIN q : q[i].kind = "pong"
Bare(q) == \A i \in DOMAIN q : q[i].kind \in {"pong", "notfound"}

(* The player p is the one of the page, of the connection, or of the        *)
(* details that the page has not read yet.                                  *)
Means(page, q, k, p) ==
    /\ p # None
    /\ \/ page.id = p
       \/ k.player = p
       \/ \E i \in At("details", q) : q[i].num = p

(* The last message that the page has.                                      *)
Latest(page) == IF page.got = << >> THEN 0 ELSE page.got[Len(page.got)]

(* A page has the messages of its player, without a gap, from the first.    *)
PageSound(page, cv) ==
    /\ page.id = None => page.got = << >>
    /\ page.id # None =>
           /\ page.id < cv.n
           /\ Latest(page) \in 0 .. Len(cv.log)
           /\ Latest(page) # 0 => Visible(cv, page.id, Latest(page))
           /\ page.got = Due(cv, page.id, 0, Latest(page))

(* A page shows only data that the game has set.                            *)
ViewSound(page, cv) == \A d \in Data : cv.side[d] = Unset => page.view[d] = Unset

(* Nothing has been written before the first request was read.              *)
FirstRequest(page, q, k, h) ==
    h.kind # "none" /\ k.state = "open" =>
        /\ k.player = None /\ ~k.pong /\ k.named = 0 /\ q = << >>
        /\ h.kind = "new" => page.id = None
        /\ h.kind = "reconnect" =>
               /\ h.id = page.id /\ h.id # None
               /\ h.count = Len(page.got) % CountMod

(* One player, and its details before anything that is about it.            *)
Introduced(page, q, k, cv) ==
    /\ k.state # "unused"
    /\ k.player # None => k.state = "open"
    /\ \A p : Means(page, q, k, p) => p \in 0 .. cv.n - 1
    /\ \A p, r : Means(page, q, k, p) /\ Means(page, q, k, r) => p = r
    /\ k.state = "open" /\ k.player = None => Bare(q)
    /\ k.player # None /\ ~k.detailed => OnlyPongs(q) /\ k.named = 0
    /\ k.player # None /\ k.detailed /\ page.id = None => Fresh(q)
    /\ page.id = None /\ ~Fresh(q) => Bare(q)
    /\ \A i \in At("details", q) : \A j \in DOMAIN q : j < i => q[j].kind = "pong"
    /\ \A i \in At("message", q) : q[i].num \in 1 .. Len(cv.log)
    /\ k.cursor =< Len(cv.log)

(* The messages on their way follow on what the page has, up to the cursor. *)
Follows(page, q, k, cv, p) ==
    /\ \A i, j \in At("message", q) : i < j => q[i].num < q[j].num
    /\ \A i \in At("message", q) :
           /\ q[i].num > Latest(page)
           /\ Visible(cv, p, q[i].num)
           /\ \A x \in Latest(page) + 1 .. q[i].num - 1 :
                  Visible(cv, p, x) => \E j \in At("message", q) : q[j].num = x
    /\ k.player = p =>
           /\ Latest(page) =< k.cursor
           /\ \A i \in At("message", q) : q[i].num =< k.cursor
           /\ \A x \in Latest(page) + 1 .. k.cursor :
                  Visible(cv, p, x) => \E j \in At("message", q) : q[j].num = x
Continued(page, q, k, cv) ==
    \A p : Means(page, q, k, p) => Follows(page, q, k, cv, p)

(* The names on their way follow on those the page has, up to the last that *)
(* the connection has written, and before the messages that need them.      *)
Base(page, q) == IF Fresh(q) THEN 0 ELSE page.names
Named(page, q, k, cv) ==
    k.player # None /\ k.detailed =>
        /\ Base(page, q) =< k.named
        /\ \A i, j \in At("name", q) : i < j => q[i].num < q[j].num
        /\ \A i \in At("name", q) : q[i].num \in Base(page, q) .. k.named - 1
        /\ \A x \in Base(page, q) .. k.named - 1 : \E i \in At("name", q) : q[i].num = x
        /\ \A j \in At("message", q) :
               \A x \in Base(page, q) .. cv.log[q[j].num].joined - 1 :
                   \E i \in At("name", q) : i < j /\ q[i].num = x

Hits(q, d) == {i \in At("sideband", q) : q[i].num = d}

(* A datum is dirty, or its value is the last on its way, or the page shows *)
(* it; a page that starts anew is told of everything.                       *)
Shown(page, q, k, cv) ==
    /\ \A d \in Data : cv.side[d] = Unset => Hits(q, d) = {}
    /\ k.player # None =>
        \A d \in Data :
           /\ d \in k.dirty => cv.side[d] # Unset
           /\ (~k.detailed \/ Fresh(q)) /\ cv.side[d] # Unset
                  => d \in k.dirty \/ Hits(q, d) # {}
           /\ \A i \in Hits(q, d) :
                  d \notin k.dirty /\ (\A j \in Hits(q, d) : j =< i)
                      => q[i].value = cv.side[d]
           /\ d \notin k.dirty /\ Hits(q, d) = {} /\ k.detailed /\ ~Fresh(q)
                  => page.view[d] = cv.side[d]

(* Unused sockets are as new, and nobody joined after a message was queued  *)
(* whom the message counts.                                                 *)
Untouched(k, w) == k.state = "unused" => k = NewConnection /\ w = << >>
Recorded(cv) == \A i \in 1 .. Len(cv.log) : cv.log[i].joined =< cv.n

(* A page, what is on its way to it, the connection at the other end and    *)
(* the request that waits there.                                            *)
Piped(page, q, k, h, cv) ==
    /\ FirstRequest(page, q, k, h)
    /\ Introduced(page, q, k, cv)
    /\ Named(page, q, k, cv)
    /\ Shown(page, q, k, cv)

Known(page, cv) ==
    /\ ViewSound(page, cv)
    /\ page.id # None => page.id < cv.n

Attends(u) == client[u].sock # None
PipedTo(u) ==
    LET c == SocketOf(u)
    IN  Piped(client[u], Queue(c), conn[c], hello[c], conv)
ContinuedTo(u) ==
    LET c == SocketOf(u)
    IN  Continued(client[u], Queue(c), conn[c], conv)

Is(u, p) ==
    \/ p # None /\ client[u].id = p
    \/ Attends(u) /\ Means(client[u], Queue(SocketOf(u)), conn[SocketOf(u)], p)

(* The inductive invariant of the links between pages and conversation.     *)
Linked ==
    /\ Recorded(conv)
    /\ \A c \in Conns : Untouched(conn[c], wire[c])
    /\ \A u \in Clients : Known(client[u], conv)
    /\ \A u \in Clients : Attends(u) => PipedTo(u)
    /\ \A u, v \in Clients : \A p : Is(u, p) /\ Is(v, p) => u = v

(* The same for the messages, which count on a count that does not wrap.    *)
Delivered ==
    Len(conv.log) < CountMod =>
        /\ \A u \in Clients : PageSound(client[u], conv)
        /\ \A u \in Clients : Attends(u) => ContinuedTo(u)

-----------------------------------------------------------------------------
(* The messages of a player, as a list.                                     *)

VisibleFrom(cv, p, lo, hi) == {i \in lo + 1 .. hi : Visible(cv, p, i)}

LEMMA VisibleFinite ==
    ASSUME NEW cv, NEW p, NEW lo \in Nat, NEW hi \in Nat
    PROVE  /\ VisibleFrom(cv, p, lo, hi) \in SUBSET Nat
           /\ IsFiniteSet(VisibleFrom(cv, p, lo, hi))
<1>1. VisibleFrom(cv, p, lo, hi) \subseteq lo + 1 .. hi
  BY DEF VisibleFrom
<1>2. IsFiniteSet(lo + 1 .. hi)
  BY FS_Interval
<1> QED
  BY <1>1, <1>2, FS_Subset

(* What Due returns: these messages, in order, and all of them.             *)
LEMMA DueHas ==
    ASSUME NEW cv, NEW p, NEW lo \in Nat, NEW hi \in Nat,
           NEW D, D = Due(cv, p, lo, hi)
    PROVE  /\ D \in Seq(Nat)
           /\ Len(D) = Cardinality(VisibleFrom(cv, p, lo, hi))
           /\ \A i \in 1 .. Len(D) : D[i] \in lo + 1 .. hi /\ Visible(cv, p, D[i])
           /\ \A i, j \in 1 .. Len(D) : i < j => D[i] < D[j]
<1>1. PICK S : S = VisibleFrom(cv, p, lo, hi)
  OBVIOUS
<1>2. D = Increasing(S) /\ S \in SUBSET Nat /\ IsFiniteSet(S)
  BY <1>1, VisibleFinite DEF Due, VisibleFrom
<1>3. PICK m : m = Cardinality(S)
  OBVIOUS
<1>4. /\ D \in [1 .. m -> S] /\ m \in Nat
      /\ \A i \in S : D[Rank(S, i)] = i /\ Rank(S, i) \in 1 .. m
  BY <1>2, <1>3, IncreasingProperties, RankType
<1>5. D \in Seq(Nat) /\ Len(D) = m
  <2>1. D \in [1 .. m -> Nat]
    BY <1>2, <1>4
  <2> QED
    BY <2>1, <1>4, SeqDef
<1>6. \A i, j \in 1 .. m : i < j => D[i] < D[j]
  BY <1>2, <1>3, IncreasingIncreases
<1>7. \A i \in 1 .. m : D[i] \in S
  BY <1>4
<1> QED
  BY <1>1, <1>3, <1>4, <1>5, <1>6, <1>7 DEF VisibleFrom

LEMMA DueCovers ==
    ASSUME NEW cv, NEW p, NEW lo \in Nat, NEW hi \in Nat,
           NEW x \in VisibleFrom(cv, p, lo, hi)
    PROVE  \E i \in 1 .. Len(Due(cv, p, lo, hi)) : Due(cv, p, lo, hi)[i] = x
<1>1. PICK S : S = VisibleFrom(cv, p, lo, hi)
  OBVIOUS
<1>2. PICK D : D = Due(cv, p, lo, hi)
  OBVIOUS
<1>3. D = Increasing(S) /\ S \in SUBSET Nat /\ IsFiniteSet(S)
  BY <1>1, <1>2, VisibleFinite DEF Due, VisibleFrom
<1>4. D[Rank(S, x)] = x /\ Rank(S, x) \in 1 .. Cardinality(S)
  BY <1>1, <1>3, IncreasingProperties, RankType
<1>5. Len(D) = Cardinality(S)
  BY <1>1, <1>2, DueHas
<1> QED
  BY <1>2, <1>4, <1>5

(* Nothing else is such a list.                                             *)
Lists(D, cv, p, lo, hi) ==
    /\ \A i \in 1 .. Len(D) : D[i] \in lo + 1 .. hi /\ Visible(cv, p, D[i])
    /\ \A i, j \in 1 .. Len(D) : i < j => D[i] < D[j]
    /\ \A x \in lo + 1 .. hi : Visible(cv, p, x) => \E i \in 1 .. Len(D) : D[i] = x

LEMMA DueIs ==
    ASSUME NEW cv, NEW p, NEW lo \in Nat, NEW hi \in Nat, NEW D \in Seq(Nat),
           Lists(D, cv, p, lo, hi)
    PROVE  D = Due(cv, p, lo, hi)
<1>1. PICK S : S = VisibleFrom(cv, p, lo, hi)
  OBVIOUS
<1>2. S \in SUBSET Nat
  BY <1>1, VisibleFinite
<1>3. PICK m : m = Len(D)
  OBVIOUS
<1>4. m \in Nat /\ D \in [1 .. m -> Nat]
  BY <1>3, LenProperties
<1>5. D \in [1 .. m -> S]
  BY <1>1, <1>3, <1>4 DEF VisibleFrom, Lists
<1>6. /\ \A x \in S : \E i \in 1 .. m : D[i] = x
      /\ \A i, j \in 1 .. m : i < j => D[i] < D[j]
  BY <1>1, <1>3 DEF VisibleFrom, Lists
<1>7. D = Increasing(S)
  BY <1>2, <1>4, <1>5, <1>6, OneIncreasingList
<1> QED
  BY <1>1, <1>7 DEF Due, VisibleFrom

LEMMA DueNothing == \A cv, p : Due(cv, p, 0, 0) = << >>
<1>1. SUFFICES ASSUME NEW cv, NEW p
               PROVE  << >> = Due(cv, p, 0, 0)
  OBVIOUS
<1>2. << >> \in Seq(Nat) /\ Len(<< >>) = 0
  BY EmptySeq
<1>3. 1 .. Len(<< >>) = {} /\ 0 + 1 .. 0 = {}
  BY <1>2
<1>4. Lists(<< >>, cv, p, 0, 0)
  BY <1>3 DEF Lists
<1> QED
  BY <1>2, <1>4, DueIs

(* The next message after the last one.                                     *)
LEMMA DueNext ==
    ASSUME NEW cv, NEW p, NEW lo \in Nat, NEW x \in Nat, lo < x,
           Visible(cv, p, x), \A y \in lo + 1 .. x - 1 : ~Visible(cv, p, y)
    PROVE  Append(Due(cv, p, 0, lo), x) = Due(cv, p, 0, x)
<1>1. PICK D : D = Due(cv, p, 0, lo)
  OBVIOUS
<1>2. /\ D \in Seq(Nat)
      /\ \A i \in 1 .. Len(D) : D[i] \in 0 + 1 .. lo /\ Visible(cv, p, D[i])
      /\ \A i, j \in 1 .. Len(D) : i < j => D[i] < D[j]
      /\ \A y \in 0 + 1 .. lo : Visible(cv, p, y) => \E i \in 1 .. Len(D) : D[i] = y
  <2>1. 0 \in Nat
    OBVIOUS
  <2>2. \A y \in 0 + 1 .. lo : Visible(cv, p, y) => \E i \in 1 .. Len(D) : D[i] = y
    BY <2>1, <1>1, DueCovers DEF VisibleFrom
  <2> QED
    BY <2>1, <2>2, <1>1, DueHas
<1>3. PICK A : A = Append(D, x)
  OBVIOUS
<1>4. PICK n : n = Len(D)
  OBVIOUS
<1>5. /\ n \in Nat
      /\ A \in Seq(Nat) /\ Len(A) = n + 1
      /\ \A i \in 1 .. n : A[i] = D[i]
      /\ A[n + 1] = x
  <2>1. D \in Seq(Nat) /\ x \in Nat
    BY <1>2
  <2>2. Len(D) \in Nat
    BY <2>1, LenProperties
  <2> QED
    BY <2>1, <2>2, <1>3, <1>4, AppendProperties
<1>6. \A i \in 1 .. n + 1 : A[i] \in 0 + 1 .. x /\ Visible(cv, p, A[i])
  <2>1. SUFFICES ASSUME NEW i \in 1 .. n + 1
                 PROVE  A[i] \in 0 + 1 .. x /\ Visible(cv, p, A[i])
    OBVIOUS
  <2>2. CASE i = n + 1
    BY <2>2, <1>5
  <2>3. CASE i # n + 1
    <3>1. i \in 1 .. n
      BY <2>3, <1>5
    <3>2. A[i] = D[i] /\ D[i] \in 0 + 1 .. lo /\ Visible(cv, p, D[i])
      BY <3>1, <1>2, <1>4, <1>5
    <3> QED
      BY <3>2
  <2> QED
    BY <2>2, <2>3
<1>7. \A i, j \in 1 .. n + 1 : i < j => A[i] < A[j]
  <2>1. SUFFICES ASSUME NEW i \in 1 .. n + 1, NEW j \in 1 .. n + 1, i < j
                 PROVE  A[i] < A[j]
    OBVIOUS
  <2>2. CASE j = n + 1
    <3>1. i \in 1 .. n
      BY <2>1, <2>2, <1>5
    <3>2. A[i] = D[i] /\ D[i] \in 0 + 1 .. lo /\ A[j] = x
      BY <3>1, <2>2, <1>2, <1>4, <1>5
    <3> QED
      BY <3>2
  <2>3. CASE j # n + 1
    <3>1. i \in 1 .. n /\ j \in 1 .. n
      BY <2>1, <2>3, <1>5
    <3> QED
      BY <3>1, <2>1, <1>2, <1>4, <1>5
  <2> QED
    BY <2>2, <2>3
<1>8. ASSUME NEW y \in 0 + 1 .. x, Visible(cv, p, y)
      PROVE  \E i \in 1 .. n + 1 : A[i] = y
  <2>1. y = x \/ y \in 1 .. lo
    BY <1>8
  <2>2. CASE y = x
    BY <2>2, <1>5
  <2>3. CASE y \in 1 .. lo
    <3>1. PICK i \in 1 .. n : D[i] = y
      BY <2>3, <1>2, <1>4, <1>8
    <3>2. i \in 1 .. n + 1 /\ A[i] = y
      BY <3>1, <1>5
    <3> QED
      BY <3>2
  <2> QED
    BY <2>1, <2>2, <2>3
<1>9. A = Due(cv, p, 0, x)
  <2>1. Lists(A, cv, p, 0, x)
    BY <1>5, <1>6, <1>7, <1>8 DEF Lists
  <2>2. 0 \in Nat /\ A \in Seq(Nat)
    BY <1>5
  <2> QED
    BY <2>1, <2>2, DueIs
<1> QED
  BY <1>1, <1>3, <1>9

(* The cursor skips exactly the messages that are counted, when the count   *)
(* ends with a message of the player.                                       *)
LEMMA SkipsWhatIsCounted ==
    ASSUME NEW cv \in Conversations, NEW p, NEW l \in 0 .. Len(cv.log),
           l # 0 => Visible(cv, p, l)
    PROVE  SkipTo(cv, p, Len(Due(cv, p, 0, l))) = l
<1>1. PICK n : n = Len(cv.log)
  OBVIOUS
<1>2. n \in Nat /\ l \in 0 .. n /\ l \in Nat
  BY <1>1, LenProperties DEF Conversations
<1>3. PICK count : count = Len(Due(cv, p, 0, l))
  OBVIOUS
<1>4. \A h \in 0 .. n : /\ Len(Due(cv, p, 0, h)) = Cardinality(VisibleFrom(cv, p, 0, h))
                        /\ Len(Due(cv, p, 0, h)) \in Nat
  <2>1. SUFFICES ASSUME NEW h \in 0 .. n, NEW D, D = Due(cv, p, 0, h)
                 PROVE  Len(D) = Cardinality(VisibleFrom(cv, p, 0, h)) /\ Len(D) \in Nat
    OBVIOUS
  <2>2. h \in Nat /\ 0 \in Nat
    BY <1>2
  <2>3. D \in Seq(Nat) /\ Len(D) = Cardinality(VisibleFrom(cv, p, 0, h))
    BY <2>1, <2>2, DueHas
  <2> QED
    BY <2>3, LenProperties
<1>5. ASSUME NEW h \in 0 .. l - 1
      PROVE  Len(Due(cv, p, 0, h)) < count
  <2>1. h \in 0 .. n /\ l # 0
    BY <1>2, <1>5
  <2>2. PICK A : A = VisibleFrom(cv, p, 0, h)
    OBVIOUS
  <2>3. PICK B : B = VisibleFrom(cv, p, 0, l)
    OBVIOUS
  <2>4. A \subseteq B
    BY <2>2, <2>3, <1>2 DEF VisibleFrom
  <2>5. l \in B /\ l \notin A
    BY <2>1, <2>2, <2>3, <1>2 DEF VisibleFrom
  <2>6. IsFiniteSet(B)
    BY <2>3, <1>2, VisibleFinite
  <2>7. Cardinality(A) =< Cardinality(B) /\ Cardinality(A) # Cardinality(B)
    BY <2>4, <2>5, <2>6, FS_Subset
  <2>8. /\ Len(Due(cv, p, 0, h)) = Cardinality(A) /\ Cardinality(A) \in Nat
        /\ count = Cardinality(B) /\ Cardinality(B) \in Nat
    BY <2>1, <2>2, <2>3, <1>2, <1>3, <1>4
  <2> QED
    BY <2>7, <2>8
<1> DEFINE H == {h \in 0 .. n : Len(Due(cv, p, 0, h)) >= count} \cup {n}
<1>6. H \in SUBSET Nat /\ l \in H
  BY <1>2, <1>3, <1>4
<1>7. \A h \in H : l =< h
  <2>1. SUFFICES ASSUME NEW h \in H, ~ (l =< h)
                 PROVE  FALSE
    OBVIOUS
  <2>2. h \in 0 .. l - 1 /\ h # n /\ h \in 0 .. n
    BY <2>1, <1>2, <1>6
  <2>3. Len(Due(cv, p, 0, h)) >= count
    BY <2>1, <2>2
  <2>4. Len(Due(cv, p, 0, h)) < count
    BY <2>2, <1>5
  <2>5. Len(Due(cv, p, 0, h)) \in Nat /\ count \in Nat
    BY <2>2, <1>2, <1>3, <1>4
  <2> QED
    BY <2>3, <2>4, <2>5
<1> HIDE DEF H
<1>8. Min(H) = l
  <2>1. Min(H) \in H /\ \A y \in H : Min(H) =< y
    BY <1>6, MinProperties
  <2>2. Min(H) \in Nat
    BY <2>1, <1>6
  <2> QED
    BY <2>1, <2>2, <1>2, <1>6, <1>7
<1> QED
  BY <1>1, <1>3, <1>8 DEF SkipTo, H

(* The conversation cv has become cw: more players, more messages.          *)
Grows(cv, cw) ==
    /\ cv.n =< cw.n
    /\ Len(cv.log) =< Len(cw.log)
    /\ \A i \in 1 .. Len(cv.log) : cw.log[i] = cv.log[i]

LEMMA DueOfGrown ==
    ASSUME NEW cv \in Conversations, NEW cw \in Conversations, Grows(cv, cw),
           NEW p, NEW lo \in Nat, NEW hi \in 0 .. Len(cv.log)
    PROVE  Due(cw, p, lo, hi) = Due(cv, p, lo, hi)
<1>1. Len(cv.log) \in Nat
  BY LenProperties DEF Conversations
<1>2. \A i \in lo + 1 .. hi : Visible(cw, p, i) = Visible(cv, p, i)
  BY <1>1 DEF Grows, Visible
<1>3. {i \in lo + 1 .. hi : Visible(cw, p, i)} = {i \in lo + 1 .. hi : Visible(cv, p, i)}
  BY <1>2
<1> QED
  BY <1>3 DEF Due

-----------------------------------------------------------------------------
(* What fill_write_buf writes.                                              *)

(* The two parts of a concatenation.                                        *)
LEMMA TwoParts ==
    ASSUME NEW S, NEW a \in Seq(S), NEW b \in Seq(S), NEW m, m = Len(a),
           NEW n, n = Len(b), NEW all, all = a \o b
    PROVE  /\ all \in Seq(S) /\ Len(all) = m + n
           /\ m \in Nat /\ n \in Nat
           /\ \A i \in 1 .. m : all[i] = a[i]
           /\ \A i \in m + 1 .. m + n : all[i] = b[i - m]
<1>1. m \in Nat /\ n \in Nat
  BY LenProperties
<1>2. /\ all \in Seq(S) /\ Len(all) = m + n
      /\ \A i \in 1 .. m + n : all[i] = IF i =< m THEN a[i] ELSE b[i - m]
  BY ConcatProperties
<1>3. \A i \in 1 .. m : all[i] = a[i]
  BY <1>1, <1>2
<1>4. \A i \in m + 1 .. m + n : all[i] = b[i - m]
  BY <1>1, <1>2
<1> QED
  BY <1>1, <1>2, <1>3, <1>4

(* Five parts, and where they end.                                          *)
Parts(all, a, b, c, d, e, o1, o2, o3, o4, o5) ==
    /\ o1 = Len(a) /\ o2 = o1 + Len(b) /\ o3 = o2 + Len(c)
    /\ o4 = o3 + Len(d) /\ o5 = o4 + Len(e) /\ o5 = Len(all)
    /\ \A i \in 1 .. o1 : all[i] = a[i]
    /\ \A i \in o1 + 1 .. o2 : all[i] = b[i - o1]
    /\ \A i \in o2 + 1 .. o3 : all[i] = c[i - o2]
    /\ \A i \in o3 + 1 .. o4 : all[i] = d[i - o3]
    /\ \A i \in o4 + 1 .. o5 : all[i] = e[i - o4]

LEMMA FiveParts ==
    ASSUME NEW S, NEW a \in Seq(S), NEW b \in Seq(S), NEW c \in Seq(S),
           NEW d \in Seq(S), NEW e \in Seq(S), NEW all, all = a \o b \o (c \o d \o e)
    PROVE  \E o1, o2, o3, o4, o5 \in Nat : Parts(all, a, b, c, d, e, o1, o2, o3, o4, o5)
<1>1. PICK l1 \in Nat, l2 \in Nat, l3 \in Nat, l4 \in Nat, l5 \in Nat :
          l1 = Len(a) /\ l2 = Len(b) /\ l3 = Len(c) /\ l4 = Len(d) /\ l5 = Len(e)
  BY LenProperties
<1>2. PICK ab : ab = a \o b
  OBVIOUS
<1>3. PICK cd : cd = c \o d
  OBVIOUS
<1>4. PICK cde : cde = cd \o e
  OBVIOUS
<1>5. all = ab \o cde
  BY <1>2, <1>3, <1>4
<1>6. PICK o1 \in Nat, o2 \in Nat, o3 \in Nat, o4 \in Nat, o5 \in Nat :
          o1 = l1 /\ o2 = o1 + l2 /\ o3 = o2 + l3 /\ o4 = o3 + l4 /\ o5 = o4 + l5
  OBVIOUS
<1>7. /\ ab \in Seq(S) /\ Len(ab) = o2
      /\ \A i \in 1 .. o1 : ab[i] = a[i]
      /\ \A i \in o1 + 1 .. o2 : ab[i] = b[i - o1]
  BY <1>1, <1>2, <1>6, TwoParts
<1>8. /\ cd \in Seq(S) /\ Len(cd) = l3 + l4
      /\ \A i \in 1 .. l3 : cd[i] = c[i]
      /\ \A i \in l3 + 1 .. l3 + l4 : cd[i] = d[i - l3]
  BY <1>1, <1>3, TwoParts
<1>9. PICK l34 \in Nat : l34 = l3 + l4
  OBVIOUS
<1>10. /\ cde \in Seq(S) /\ Len(cde) = l34 + l5
       /\ \A i \in 1 .. l34 : cde[i] = cd[i]
       /\ \A i \in l34 + 1 .. l34 + l5 : cde[i] = e[i - l34]
  <2>1. cd \in Seq(S) /\ l34 = Len(cd)
    BY <1>8, <1>9
  <2> QED
    BY ONLY <2>1, <1>1, <1>4, TwoParts, e \in Seq(S)
<1>11. PICK l345 \in Nat : l345 = l34 + l5
  OBVIOUS
<1>12. /\ Len(all) = o2 + l345
       /\ \A i \in 1 .. o2 : all[i] = ab[i]
       /\ \A i \in o2 + 1 .. o2 + l345 : all[i] = cde[i - o2]
  <2>1. ab \in Seq(S) /\ o2 = Len(ab) /\ cde \in Seq(S) /\ l345 = Len(cde)
    BY <1>7, <1>10, <1>11
  <2> QED
    BY ONLY <2>1, <1>5, TwoParts
<1>13. o4 = o2 + l34 /\ o5 = o2 + l345 /\ o4 - o2 = l34 /\ o3 - o2 = l3
  BY <1>6, <1>9, <1>11
<1>14. \A i \in 1 .. o1 : all[i] = a[i]
  <2>1. \A i \in 1 .. o1 : i \in 1 .. o2
    BY <1>6
  <2> QED
    BY <2>1, <1>7, <1>12
<1>15. \A i \in o1 + 1 .. o2 : all[i] = b[i - o1]
  <2>1. \A i \in o1 + 1 .. o2 : i \in 1 .. o2
    BY <1>6
  <2> QED
    BY <2>1, <1>7, <1>12
<1>16. \A i \in o2 + 1 .. o3 : all[i] = c[i - o2]
  <2>1. SUFFICES ASSUME NEW i \in o2 + 1 .. o3
                 PROVE  all[i] = c[i - o2]
    OBVIOUS
  <2>2. PICK j \in 1 .. l3 : j = i - o2
    BY <1>13
  <2>3. j \in 1 .. l34 /\ i \in o2 + 1 .. o2 + l345
    BY <2>2, <1>6, <1>9, <1>11
  <2> QED
    BY <2>2, <2>3, <1>8, <1>10, <1>12
<1>17. \A i \in o3 + 1 .. o4 : all[i] = d[i - o3]
  <2>1. SUFFICES ASSUME NEW i \in o3 + 1 .. o4
                 PROVE  all[i] = d[i - o3]
    OBVIOUS
  <2>2. PICK j \in l3 + 1 .. l3 + l4 : j = i - o2
    BY <1>6, <1>9, <1>13
  <2>3. j \in 1 .. l34 /\ i \in o2 + 1 .. o2 + l345 /\ j - l3 = i - o3
    BY <2>2, <1>6, <1>9, <1>11
  <2> QED
    BY <2>2, <2>3, <1>8, <1>10, <1>12, ZenonT(60)
<1>18. \A i \in o4 + 1 .. o5 : all[i] = e[i - o4]
  <2>1. SUFFICES ASSUME NEW i \in o4 + 1 .. o5
                 PROVE  all[i] = e[i - o4]
    OBVIOUS
  <2>2. PICK j \in l34 + 1 .. l34 + l5 : j = i - o2
    BY <1>6, <1>9, <1>13
  <2>3. i \in o2 + 1 .. o2 + l345 /\ j - l34 = i - o4
    BY <2>2, <1>6, <1>9, <1>11
  <2> QED
    BY <2>2, <2>3, <1>10, <1>12
<1>19. /\ o1 = Len(a) /\ o2 = o1 + Len(b) /\ o3 = o2 + Len(c)
       /\ o4 = o3 + Len(d) /\ o5 = o4 + Len(e) /\ o5 = Len(all)
  BY <1>1, <1>6, <1>12, <1>13
<1>20. Parts(all, a, b, c, d, e, o1, o2, o3, o4, o5)
  BY <1>14, <1>15, <1>16, <1>17, <1>18, <1>19 DEF Parts
<1> QED
  BY <1>20

(* The frames due, in their order: up to o1 pongs, up to o2 the details, up *)
(* to o3 the names, up to o4 the data, and then the messages.               *)
Layout(k, cv, due, o1, o2, o3, o4, o5) ==
    /\ o5 = Len(due)
    /\ o1 =< o2 /\ o2 =< o3 /\ o3 =< o4 /\ o4 =< o5
    /\ o2 =< o1 + 1
    /\ \A i \in 1 .. o1 : due[i].kind = "pong"
    /\ ~k.pong => o1 = 0
    /\ o1 < o2 <=> (k.player # None /\ ~k.detailed)
    /\ \A i \in o1 + 1 .. o2 : due[i].kind = "details" /\ due[i].num = k.player
    /\ \A i \in o2 + 1 .. o3 :
           due[i].kind = "name" /\ due[i].num = k.named + (i - o2) - 1
    /\ \A i \in o3 + 1 .. o4 :
           /\ due[i].kind = "sideband" /\ due[i].num \in k.dirty
           /\ due[i].value = cv.side[due[i].num]
    /\ \A i \in o4 + 1 .. o5 :
           /\ due[i].kind = "message"
           /\ due[i].num = Due(cv, k.player, k.cursor, Len(cv.log))[i - o4]
    /\ ~Streams(k, cv) => o5 = o2
    /\ Streams(k, cv) =>
           /\ k.named =< cv.n => k.named + (o3 - o2) = cv.n
           /\ k.named > cv.n => o3 = o2
           /\ \A d \in k.dirty : \E i \in o3 + 1 .. o4 : due[i].num = d
           /\ o5 = o4 + Len(Due(cv, k.player, k.cursor, Len(cv.log)))

LEMMA NamesDueAre ==
    ASSUME NEW k \in Connections, NEW cv \in Conversations
    PROVE  /\ NamesDue(k, cv) \in Seq(Frames)
           /\ \A i \in 1 .. Len(NamesDue(k, cv)) :
                  /\ NamesDue(k, cv)[i].kind = "name"
                  /\ NamesDue(k, cv)[i].num = k.named + i - 1
           /\ k.named =< cv.n => k.named + Len(NamesDue(k, cv)) = cv.n
           /\ k.named > cv.n => Len(NamesDue(k, cv)) = 0
<1> DEFINE f == NamesDue(k, cv)
<1>1. cv.n - k.named \in Int /\ k.named \in Nat /\ cv.n \in Nat
  BY PlayerAssumption DEF Connections, Conversations
<1>2. \A i \in 1 .. cv.n - k.named : Name(k.named + i - 1) \in Frames
  BY <1>1 DEF Name, Frame, Frames, FrameKinds
<1>3. /\ f = [i \in 1 .. cv.n - k.named |-> f[i]]
      /\ \A i \in 1 .. cv.n - k.named : f[i] = Name(k.named + i - 1)
  BY DEF NamesDue
<1> HIDE DEF f
<1>4. f \in Seq(Frames)
  BY <1>1, <1>2, <1>3, SegmentIsSeq
<1>5. DOMAIN f = 1 .. Len(f) /\ DOMAIN f = 1 .. cv.n - k.named /\ Len(f) \in Nat
  BY <1>3, <1>4, LenProperties
<1>6. PICK m \in Int : m = cv.n - k.named
  BY <1>1
<1>7. PICK l \in Nat : l = Len(f)
  BY <1>5, ZenonT(60)
<1>a. 1 .. l = 1 .. m
  BY <1>5, <1>6, <1>7
<1>b. m >= 1 => m \in 1 .. l
  BY <1>a
<1>c. l >= 1 => l \in 1 .. m
  BY <1>a
<1>d. k.named =< cv.n => l = m
  BY <1>1, <1>6, <1>b, <1>c
<1>e. k.named > cv.n => Len(f) = 0
  BY <1>1, <1>6, <1>7, <1>c
<1>8. \A i \in 1 .. Len(f) : f[i].kind = "name" /\ f[i].num = k.named + i - 1
  <2>1. SUFFICES ASSUME NEW i \in 1 .. Len(f)
                 PROVE  f[i].kind = "name" /\ f[i].num = k.named + i - 1
    OBVIOUS
  <2>2. f[i] = Name(k.named + i - 1)
    BY <2>1, <1>3, <1>6, <1>7, <1>a
  <2> QED
    BY <2>2 DEF Name, Frame
<1>9. k.named =< cv.n => k.named + Len(f) = cv.n
  BY <1>1, <1>6, <1>7, <1>d
<1> QED
  BY <1>4, <1>8, <1>9, <1>e DEF f

LEMMA SidebandDueAre ==
    ASSUME NEW k \in Connections, NEW cv \in Conversations
    PROVE  /\ SidebandDue(k, cv) \in Seq(Frames)
           /\ \A i \in 1 .. Len(SidebandDue(k, cv)) :
                  /\ SidebandDue(k, cv)[i].kind = "sideband"
                  /\ SidebandDue(k, cv)[i].num \in k.dirty
                  /\ SidebandDue(k, cv)[i].value = cv.side[SidebandDue(k, cv)[i].num]
           /\ \A d \in k.dirty :
                  \E i \in 1 .. Len(SidebandDue(k, cv)) : SidebandDue(k, cv)[i].num = d
<1> DEFINE dirty == Increasing(k.dirty)
           f == SidebandDue(k, cv)
<1>1. k.dirty \in SUBSET Nat /\ k.dirty \in SUBSET Data
  BY DataAssumption DEF Connections
<1>2. IsFiniteSet(k.dirty)
  BY <1>1, DataAssumption, FS_Subset
<1>3. PICK m : m = Cardinality(k.dirty)
  OBVIOUS
<1>4. /\ dirty \in [1 .. m -> k.dirty] /\ m \in Nat
      /\ \A d \in k.dirty : dirty[Rank(k.dirty, d)] = d /\ Rank(k.dirty, d) \in 1 .. m
  BY <1>1, <1>2, <1>3, IncreasingProperties, RankType
<1>5. f = [i \in DOMAIN dirty |-> Sideband(dirty[i], cv.side[dirty[i]])]
  BY DEF SidebandDue, dirty
<1> HIDE DEF dirty
<1>6. \A d \in k.dirty : /\ Sideband(d, cv.side[d]) \in Frames
                         /\ Sideband(d, cv.side[d]).kind = "sideband"
                         /\ Sideband(d, cv.side[d]).num = d
                         /\ Sideband(d, cv.side[d]).value = cv.side[d]
  BY <1>1 DEF Sideband, Frame, Frames, FrameKinds, Conversations
<1>7. f \in [1 .. m -> Frames] /\ DOMAIN f = 1 .. m
  BY <1>4, <1>5, <1>6
<1>8. \A i \in 1 .. m : /\ f[i].kind = "sideband" /\ f[i].num = dirty[i]
                        /\ f[i].num \in k.dirty
                        /\ f[i].value = cv.side[f[i].num]
  BY <1>4, <1>5, <1>6
<1>9. f \in Seq(Frames) /\ Len(f) = m
  BY <1>4, <1>7, SeqDef
<1>10. \A d \in k.dirty : \E i \in 1 .. m : f[i].num = d
  BY <1>4, <1>8
<1> HIDE DEF f
<1>11. /\ f \in Seq(Frames)
       /\ \A i \in 1 .. Len(f) : /\ f[i].kind = "sideband"
                                 /\ f[i].num \in k.dirty
                                 /\ f[i].value = cv.side[f[i].num]
       /\ \A d \in k.dirty : \E i \in 1 .. Len(f) : f[i].num = d
  BY <1>8, <1>9, <1>10
<1> QED
  BY <1>11 DEF f

LEMMA MessagesDueAre ==
    ASSUME NEW k \in Connections, NEW cv \in Conversations,
           NEW D, D = Due(cv, k.player, k.cursor, Len(cv.log))
    PROVE  /\ MessagesDue(k, cv) \in Seq(Frames)
           /\ Len(MessagesDue(k, cv)) = Len(D)
           /\ \A i \in 1 .. Len(D) : /\ MessagesDue(k, cv)[i].kind = "message"
                                     /\ MessagesDue(k, cv)[i].num = D[i]
<1> DEFINE f == MessagesDue(k, cv)
<1>1. k.cursor \in Nat /\ Len(cv.log) \in 0 .. Len(cv.log) /\ Len(cv.log) \in Nat
  BY LenProperties DEF Connections, Conversations
<1>2. D \in Seq(1 .. Len(cv.log)) /\ DOMAIN D = 1 .. Len(D) /\ Len(D) \in Nat
  BY <1>1, DueProperties
<1>3. \A i \in 1 .. Len(cv.log) : cv.log[i] \in LogEntries
  BY ElementOfSeq DEF Conversations
<1>4. \A i \in 1 .. Len(cv.log) : Message(cv, i) \in Frames
  BY <1>1, <1>3 DEF Message, Frame, Frames, FrameKinds, LogEntries
<1>5. f = [i \in DOMAIN D |-> Message(cv, D[i])]
  BY DEF MessagesDue
<1> HIDE DEF f
<1>6. \A i \in 1 .. Len(D) : D[i] \in 1 .. Len(cv.log)
  BY <1>2, ElementOfSeq
<1>7. f \in [1 .. Len(D) -> Frames]
  BY <1>2, <1>4, <1>5, <1>6
<1>8. f \in Seq(Frames) /\ Len(f) = Len(D)
  BY <1>2, <1>7, SeqDef
<1>9. \A i \in 1 .. Len(D) : f[i].kind = "message" /\ f[i].num = D[i]
  BY <1>2, <1>5 DEF Message, Frame
<1> QED
  BY <1>8, <1>9 DEF f

-----------------------------------------------------------------------------
(* Frames in a queue that has two parts.                                    *)

AtParts(all, q, t, m) ==
    /\ \A i \in DOMAIN q :
           i \in DOMAIN all /\ all[i] = q[i] /\ i \in Nat /\ 0 < i /\ i =< m
    /\ \A j \in DOMAIN t :
           m + j \in DOMAIN all /\ all[m + j] = t[j] /\ j \in Nat /\ 0 < j
    /\ \A i \in DOMAIN all :
           /\ i \in Nat /\ 0 < i
           /\ i =< m => i \in DOMAIN q /\ all[i] = q[i]
           /\ i > m => i - m \in DOMAIN t /\ all[i] = t[i - m]
    /\ \A kind : \A i \in At(kind, q) :
           i \in At(kind, all) /\ all[i] = q[i] /\ i \in Nat /\ 0 < i /\ i =< m
    /\ \A kind : \A j \in At(kind, t) :
           m + j \in At(kind, all) /\ all[m + j] = t[j] /\ j \in Nat /\ 0 < j
    /\ \A kind : \A i \in At(kind, all) :
           /\ i \in Nat /\ 0 < i
           /\ i =< m => i \in At(kind, q) /\ all[i] = q[i]
           /\ i > m => i - m \in At(kind, t) /\ all[i] = t[i - m]

LEMMA QueueParts ==
    ASSUME NEW q \in Seq(Frames), NEW t \in Seq(Frames), NEW all, all = q \o t
    PROVE  \E m \in Nat : m = Len(q) /\ AtParts(all, q, t, m)
<1>1. PICK m \in Nat, n \in Nat : m = Len(q) /\ n = Len(t)
  BY LenProperties
<1>2. /\ all \in Seq(Frames) /\ Len(all) = m + n
      /\ \A i \in 1 .. m : all[i] = q[i]
      /\ \A i \in m + 1 .. m + n : all[i] = t[i - m]
  BY <1>1, TwoParts
<1>3. DOMAIN q = 1 .. m /\ DOMAIN t = 1 .. n /\ DOMAIN all = 1 .. m + n
  BY <1>1, <1>2, LenProperties
<1>4. \A kind : \A i \in At(kind, q) :
          i \in At(kind, all) /\ all[i] = q[i] /\ i \in Nat /\ 0 < i /\ i =< m
  BY <1>2, <1>3 DEF At
<1>a. \A i \in DOMAIN q :
          i \in DOMAIN all /\ all[i] = q[i] /\ i \in Nat /\ 0 < i /\ i =< m
  BY <1>2, <1>3
<1>b. ASSUME NEW j \in DOMAIN t
      PROVE  m + j \in DOMAIN all /\ all[m + j] = t[j] /\ j \in Nat /\ 0 < j
  <2>1. j \in 1 .. n
    BY <1>3
  <2>2. m + j \in m + 1 .. m + n /\ m + j \in 1 .. m + n /\ (m + j) - m = j
    BY <2>1
  <2>3. all[m + j] = t[j]
    BY <2>2, <1>2
  <2> QED
    BY <2>1, <2>2, <2>3, <1>3
<1>c. ASSUME NEW i \in DOMAIN all
      PROVE  /\ i \in Nat /\ 0 < i
             /\ i =< m => i \in DOMAIN q /\ all[i] = q[i]
             /\ i > m => i - m \in DOMAIN t /\ all[i] = t[i - m]
  <2>1. i \in 1 .. m + n
    BY <1>3
  <2>2. i =< m => i \in 1 .. m
    BY <2>1
  <2>3. i > m => i \in m + 1 .. m + n /\ i - m \in 1 .. n
    BY <2>1
  <2> QED
    BY <2>1, <2>2, <2>3, <1>2, <1>3
<1>5. ASSUME NEW kind, NEW j \in At(kind, t)
      PROVE  m + j \in At(kind, all) /\ all[m + j] = t[j] /\ j \in Nat /\ 0 < j
  <2>1. j \in 1 .. n /\ t[j].kind = kind
    BY <1>3 DEF At
  <2>2. m + j \in m + 1 .. m + n /\ m + j \in 1 .. m + n /\ (m + j) - m = j
    BY <2>1
  <2>3. all[m + j] = t[j]
    BY <2>2, <1>2
  <2> QED
    BY <2>1, <2>2, <2>3, <1>3 DEF At
<1>6. ASSUME NEW kind, NEW i \in At(kind, all)
      PROVE  /\ i \in Nat /\ 0 < i
             /\ i =< m => i \in At(kind, q) /\ all[i] = q[i]
             /\ i > m => i - m \in At(kind, t) /\ all[i] = t[i - m]
  <2>1. i \in 1 .. m + n /\ all[i].kind = kind
    BY <1>3 DEF At
  <2>2. i =< m => i \in 1 .. m
    BY <2>1
  <2>3. i > m => i \in m + 1 .. m + n /\ i - m \in 1 .. n
    BY <2>1
  <2> QED
    BY <2>1, <2>2, <2>3, <1>2, <1>3 DEF At
<1> QED
  BY <1>1, <1>4, <1>5, <1>6, <1>a, <1>b, <1>c DEF AtParts

(* What kind of frame there is in a queue.                                  *)
LEMMA KindsInQueue ==
    ASSUME NEW q \in Seq(Frames)
    PROVE  /\ \A kind : \A i \in At(kind, q) : i \in DOMAIN q /\ q[i].kind = kind
           /\ \A i \in DOMAIN q : i \in Nat /\ 0 < i /\ i \in At(q[i].kind, q)
           /\ \A i \in DOMAIN q : q[i] \in Frames
           /\ \A i \in DOMAIN q : \A j \in 1 .. i : j \in DOMAIN q
BY ElementOfSeq, LenProperties DEF At

LEMMA FramesAreLaidOut ==
    ASSUME NEW k \in Connections, NEW cv \in Conversations,
           NEW due, due = FramesDue(k, cv)
    PROVE  /\ due \in Seq(Frames)
           /\ \E o1, o2, o3, o4, o5 \in Nat : Layout(k, cv, due, o1, o2, o3, o4, o5)
<1> DEFINE aa == IF k.pong THEN <<Pong>> ELSE << >>
           bb == IF k.player # None /\ ~k.detailed THEN <<Details(k.player)>> ELSE << >>
           cc == IF Streams(k, cv) THEN NamesDue(k, cv) ELSE << >>
           dd == IF Streams(k, cv) THEN SidebandDue(k, cv) ELSE << >>
           ee == IF Streams(k, cv) THEN MessagesDue(k, cv) ELSE << >>
<1>1. << >> \in Seq(Frames) /\ Len(<< >>) = 0
  BY EmptySeq
<1>2. /\ aa \in Seq(Frames) /\ Len(aa) \in Nat
      /\ ~k.pong => Len(aa) = 0
      /\ \A i \in 1 .. Len(aa) : aa[i].kind = "pong"
  <2>1. Pong \in Frames /\ Pong.kind = "pong"
    BY DEF Pong, Frame, Frames, FrameKinds
  <2> QED
    BY <2>1, <1>1
<1>3. /\ bb \in Seq(Frames) /\ Len(bb) \in Nat /\ Len(bb) =< 1
      /\ 0 < Len(bb) <=> (k.player # None /\ ~k.detailed)
      /\ \A i \in 1 .. Len(bb) : bb[i].kind = "details" /\ bb[i].num = k.player
  <2>1. k.player # None => /\ Details(k.player) \in Frames
                           /\ Details(k.player).kind = "details"
                           /\ Details(k.player).num = k.player
    BY PlayerAssumption DEF Details, Frame, Frames, FrameKinds, Connections, Players
  <2> QED
    BY <2>1, <1>1
<1>4. /\ cc \in Seq(Frames) /\ Len(cc) \in Nat
      /\ \A i \in 1 .. Len(cc) : cc[i].kind = "name" /\ cc[i].num = k.named + i - 1
      /\ Streams(k, cv) => /\ k.named =< cv.n => k.named + Len(cc) = cv.n
                           /\ k.named > cv.n => Len(cc) = 0
      /\ ~Streams(k, cv) => Len(cc) = 0
  BY <1>1, NamesDueAre, LenProperties
<1>5. /\ dd \in Seq(Frames) /\ Len(dd) \in Nat
      /\ \A i \in 1 .. Len(dd) : /\ dd[i].kind = "sideband" /\ dd[i].num \in k.dirty
                                 /\ dd[i].value = cv.side[dd[i].num]
      /\ Streams(k, cv) => \A d \in k.dirty : \E i \in 1 .. Len(dd) : dd[i].num = d
      /\ ~Streams(k, cv) => Len(dd) = 0
  BY <1>1, SidebandDueAre, LenProperties
<1> DEFINE D == Due(cv, k.player, k.cursor, Len(cv.log))
<1>6. /\ ee \in Seq(Frames) /\ Len(ee) \in Nat
      /\ \A i \in 1 .. Len(ee) : ee[i].kind = "message" /\ ee[i].num = D[i]
      /\ Streams(k, cv) => Len(ee) = Len(D)
      /\ ~Streams(k, cv) => Len(ee) = 0
  BY <1>1, MessagesDueAre, LenProperties
<1>7. due = aa \o bb \o (cc \o dd \o ee)
  <2>1. CASE Streams(k, cv)
    BY <2>1 DEF FramesDue
  <2>2. CASE ~Streams(k, cv)
    <3>1. << >> \o << >> \o << >> = << >>
      BY <1>1, ConcatEmptySeq
    <3> QED
      BY <2>2, <3>1 DEF FramesDue
  <2> QED
    BY <2>1, <2>2
<1>8. due \in Seq(Frames)
  BY FramesDueType
<1> HIDE DEF aa, bb, cc, dd, ee, D
<1>9. PICK o1 \in Nat, o2 \in Nat, o3 \in Nat, o4 \in Nat, o5 \in Nat :
          Parts(due, aa, bb, cc, dd, ee, o1, o2, o3, o4, o5)
  BY <1>2, <1>3, <1>4, <1>5, <1>6, <1>7, FiveParts
<1>10. /\ o1 = Len(aa) /\ o2 = o1 + Len(bb) /\ o3 = o2 + Len(cc)
       /\ o4 = o3 + Len(dd) /\ o5 = o4 + Len(ee) /\ o5 = Len(due)
  BY <1>9 DEF Parts
<1>11. /\ o1 =< o2 /\ o2 =< o3 /\ o3 =< o4 /\ o4 =< o5
       /\ o2 - o1 = Len(bb) /\ o3 - o2 = Len(cc) /\ o4 - o3 = Len(dd) /\ o5 - o4 = Len(ee)
  <2>1. /\ Len(aa) \in Nat /\ Len(bb) \in Nat /\ Len(cc) \in Nat
        /\ Len(dd) \in Nat /\ Len(ee) \in Nat
    BY <1>2, <1>3, <1>4, <1>5, <1>6
  <2>2. o1 \in Nat /\ o2 \in Nat /\ o3 \in Nat /\ o4 \in Nat /\ o5 \in Nat
    OBVIOUS
  <2> QED
    BY ONLY <2>1, <2>2, <1>10
<1>b. o2 =< o1 + 1
  BY <1>3, <1>10
<1>c. ~k.pong => o1 = 0
  BY <1>2, <1>10
<1>12. \A i \in 1 .. o1 : due[i].kind = "pong"
  BY <1>2, <1>9, <1>10 DEF Parts
<1>13. \A i \in o1 + 1 .. o2 : due[i].kind = "details" /\ due[i].num = k.player
  <2>1. SUFFICES ASSUME NEW i \in o1 + 1 .. o2
                 PROVE  due[i].kind = "details" /\ due[i].num = k.player
    OBVIOUS
  <2>2. i - o1 \in 1 .. Len(bb)
    BY <1>11
  <2> QED
    BY <2>2, <1>3, <1>9, SMTT(30) DEF Parts
<1>14. \A i \in o2 + 1 .. o3 :
           due[i].kind = "name" /\ due[i].num = k.named + (i - o2) - 1
  <2>1. SUFFICES ASSUME NEW i \in o2 + 1 .. o3
                 PROVE  due[i].kind = "name" /\ due[i].num = k.named + (i - o2) - 1
    OBVIOUS
  <2>2. i - o2 \in 1 .. Len(cc)
    BY <1>11
  <2> QED
    BY <2>2, <1>4, <1>9, ZenonT(60) DEF Parts
<1>15. \A i \in o3 + 1 .. o4 :
           /\ due[i].kind = "sideband" /\ due[i].num \in k.dirty
           /\ due[i].value = cv.side[due[i].num]
  <2>1. SUFFICES ASSUME NEW i \in o3 + 1 .. o4
                 PROVE  /\ due[i].kind = "sideband" /\ due[i].num \in k.dirty
                        /\ due[i].value = cv.side[due[i].num]
    OBVIOUS
  <2>a. i - o3 \in 1 .. Len(dd)
    BY <1>11
  <2>2. PICK j \in 1 .. Len(dd) : j = i - o3
    BY <2>a
  <2>3. due[i] = dd[j]
    BY <2>1, <2>2, <1>9 DEF Parts
  <2> QED
    BY <2>3, <1>5
<1>16. \A i \in o4 + 1 .. o5 : due[i].kind = "message" /\ due[i].num = D[i - o4]
  <2>1. SUFFICES ASSUME NEW i \in o4 + 1 .. o5
                 PROVE  due[i].kind = "message" /\ due[i].num = D[i - o4]
    OBVIOUS
  <2>2. i - o4 \in 1 .. Len(ee)
    BY <1>11
  <2>3. PICK j \in 1 .. Len(ee) : j = i - o4
    BY <2>2
  <2>4. due[i] = ee[j]
    BY <2>1, <2>3, <1>9 DEF Parts
  <2> QED
    BY <2>3, <2>4, <1>6
<1>17. ASSUME Streams(k, cv), NEW d \in k.dirty
       PROVE  \E i \in o3 + 1 .. o4 : due[i].num = d
  <2>1. PICK j \in 1 .. Len(dd) : dd[j].num = d
    BY <1>5, <1>17
  <2>2. PICK i \in o3 + 1 .. o4 : i - o3 = j
    <3>1. o3 + j \in o3 + 1 .. o4 /\ (o3 + j) - o3 = j
      BY <1>5, <1>11, SMTT(30)
    <3> QED
      BY <3>1
  <2>3. due[i] = dd[j]
    BY <2>2, <1>9 DEF Parts
  <2> QED
    BY <2>1, <2>3
<1>18. o1 < o2 <=> (k.player # None /\ ~k.detailed)
  BY <1>3, <1>11
<1>19. ~Streams(k, cv) => o5 = o2
  BY <1>4, <1>5, <1>6, <1>11
<1>20. Streams(k, cv) => /\ k.named =< cv.n => k.named + (o3 - o2) = cv.n
                         /\ k.named > cv.n => o3 = o2
  BY <1>4, <1>11
<1>21. Streams(k, cv) => o5 = o4 + Len(D)
  BY <1>6, <1>10
<1>22. Layout(k, cv, due, o1, o2, o3, o4, o5)
  BY <1>10, <1>11, <1>b, <1>c, <1>12, <1>13, <1>14, <1>15, <1>16, <1>17, <1>18, <1>19, <1>20, <1>21
  DEF Layout, D
<1> QED
  BY <1>8, <1>22

(* What fill_write_buf does to a connection k that becomes f when it writes *)
(* the frames t into its buffer.                                            *)
FillsKinds(k, cv, t, f) ==
    /\ \A i \in DOMAIN t :
           /\ t[i].kind \in {"pong", "details", "name", "sideband", "message"}
           /\ t[i].kind = "details" =>
                  t[i].num = k.player /\ k.player # None /\ ~k.detailed
           /\ t[i].kind \in {"name", "sideband", "message"} =>
                  f.detailed /\ Streams(k, cv)
    /\ f.detailed <=> k.detailed \/ At("details", t) # {}
    /\ \A i \in At("details", t) : \A j \in DOMAIN t : j < i => t[j].kind = "pong"
    /\ f.pong => k.pong
    /\ ~k.pong => At("pong", t) = {}

FillsNames(k, cv, t, f) ==
    /\ k.named =< f.named
    /\ \A i, j \in At("name", t) : i < j => t[i].num < t[j].num
    /\ \A i \in At("name", t) : t[i].num \in k.named .. f.named - 1
    /\ \A x \in k.named .. f.named - 1 : \E i \in At("name", t) : t[i].num = x
    /\ \A j \in At("message", t) :
           cv.n =< f.named /\ \A i \in At("name", t) : i < j

FillsData(k, cv, t, f) ==
    /\ f.dirty \subseteq k.dirty
    /\ \A i \in At("sideband", t) :
           /\ t[i].num \in k.dirty /\ t[i].num \notin f.dirty
           /\ t[i].value = cv.side[t[i].num]
    /\ \A d \in k.dirty : d \notin f.dirty => \E i \in At("sideband", t) : t[i].num = d

FillsMessages(k, cv, t, f) ==
    /\ k.cursor =< f.cursor
    /\ k.cursor =< Len(cv.log) => f.cursor =< Len(cv.log)
    /\ \A i, j \in At("message", t) : i < j => t[i].num < t[j].num
    /\ \A i \in At("message", t) :
           t[i].num \in k.cursor + 1 .. f.cursor /\ Visible(cv, k.player, t[i].num)
    /\ Streams(k, cv) => \A x \in k.cursor + 1 .. f.cursor :
           Visible(cv, k.player, x) => \E i \in At("message", t) : t[i].num = x
    /\ ~Streams(k, cv) => f.cursor = k.cursor

Fills(k, cv, t, f) ==
    /\ t \in Seq(Frames)
    /\ f \in Connections
    /\ f.state = k.state /\ f.player = k.player
    /\ f.buf = k.buf \o t
    /\ FillsKinds(k, cv, t, f)
    /\ FillsNames(k, cv, t, f)
    /\ FillsData(k, cv, t, f)
    /\ FillsMessages(k, cv, t, f)

(* What is written is a prefix of what is due: fit frames of it.            *)
Cut(k, cv, t, fit, o1, o2, o3, o4, o5) ==
    /\ o1 =< o2 /\ o2 =< o3 /\ o3 =< o4 /\ o4 =< o5 /\ o2 =< o1 + 1
    /\ DOMAIN t = 1 .. fit
    /\ \A i : i \in At("pong", t) <=> i \in 1 .. fit /\ i \in 1 .. o1
    /\ \A i : i \in At("details", t) <=> i \in 1 .. fit /\ i \in o1 + 1 .. o2
    /\ \A i : i \in At("name", t) <=> i \in 1 .. fit /\ i \in o2 + 1 .. o3
    /\ \A i : i \in At("sideband", t) <=> i \in 1 .. fit /\ i \in o3 + 1 .. o4
    /\ \A i : i \in At("message", t) <=> i \in 1 .. fit /\ i \in o4 + 1 .. o5
    /\ \A i \in 1 .. fit :
           t[i].kind \in {"pong", "details", "name", "sideband", "message"}
    /\ \A i \in At("details", t) : t[i].num = k.player
    /\ \A i \in At("name", t) : t[i].num = k.named + (i - o2) - 1
    /\ \A i \in At("sideband", t) :
           t[i].num \in k.dirty /\ t[i].value = cv.side[t[i].num]
    /\ \A i \in At("message", t) :
           t[i].num = Due(cv, k.player, k.cursor, Len(cv.log))[i - o4]

LEMMA PrefixIsCut ==
    ASSUME NEW k \in Connections, NEW cv \in Conversations,
           NEW due \in Seq(Frames),
           NEW o1 \in Nat, NEW o2 \in Nat, NEW o3 \in Nat, NEW o4 \in Nat, NEW o5 \in Nat,
           Layout(k, cv, due, o1, o2, o3, o4, o5),
           NEW fit \in 0 .. o5, NEW t, t = SubSeq(due, 1, fit)
    PROVE  /\ t \in Seq(Frames)
           /\ Cut(k, cv, t, fit, o1, o2, o3, o4, o5)
<1>1. /\ o5 = Len(due)
      /\ o1 =< o2 /\ o2 =< o3 /\ o3 =< o4 /\ o4 =< o5 /\ o2 =< o1 + 1
  BY DEF Layout
<1>2. /\ t \in Seq(Frames) /\ Len(t) = fit /\ DOMAIN t = 1 .. fit
      /\ \A i \in 1 .. fit : t[i] = due[i] /\ i \in 1 .. o5
  <2>1. \A i \in 1 .. fit : due[i] \in Frames
    BY <1>1, ElementOfSeq
  <2>2. /\ t \in Seq(Frames) /\ Len(t) = IF 1 =< fit THEN fit - 1 + 1 ELSE 0
        /\ \A i \in 1 .. fit - 1 + 1 : t[i] = due[1 + i - 1]
    BY <2>1, SubSeqProperties
  <2>3. Len(t) = fit
    BY <2>2
  <2>4. \A i \in 1 .. fit : t[i] = due[i]
    BY <2>2
  <2> QED
    BY <2>2, <2>3, <2>4, LenProperties
<1>3. /\ \A i \in 1 .. o1 : due[i].kind = "pong"
      /\ \A i \in o1 + 1 .. o2 : due[i].kind = "details" /\ due[i].num = k.player
      /\ \A i \in o2 + 1 .. o3 :
             due[i].kind = "name" /\ due[i].num = k.named + (i - o2) - 1
      /\ \A i \in o3 + 1 .. o4 :
             /\ due[i].kind = "sideband" /\ due[i].num \in k.dirty
             /\ due[i].value = cv.side[due[i].num]
      /\ \A i \in o4 + 1 .. o5 : due[i].kind = "message"
  BY DEF Layout
<1>4. \A i \in 1 .. o5 : \/ i \in 1 .. o1 \/ i \in o1 + 1 .. o2 \/ i \in o2 + 1 .. o3
                         \/ i \in o3 + 1 .. o4 \/ i \in o4 + 1 .. o5
  BY <1>1
(* The frames of each kind are the ones of its part.                        *)
<1>5. \A i \in 1 .. fit :
          /\ t[i].kind = "pong" <=> i \in 1 .. o1
          /\ t[i].kind = "details" <=> i \in o1 + 1 .. o2
          /\ t[i].kind = "name" <=> i \in o2 + 1 .. o3
          /\ t[i].kind = "sideband" <=> i \in o3 + 1 .. o4
          /\ t[i].kind = "message" <=> i \in o4 + 1 .. o5
  <2>1. SUFFICES ASSUME NEW i \in 1 .. fit
                 PROVE  /\ t[i].kind = "pong" <=> i \in 1 .. o1
                        /\ t[i].kind = "details" <=> i \in o1 + 1 .. o2
                        /\ t[i].kind = "name" <=> i \in o2 + 1 .. o3
                        /\ t[i].kind = "sideband" <=> i \in o3 + 1 .. o4
                        /\ t[i].kind = "message" <=> i \in o4 + 1 .. o5
    OBVIOUS
  <2>2. t[i] = due[i] /\ i \in 1 .. o5
    BY <1>2
  <2> QED
    BY <2>2, <1>1, <1>3, <1>4
<1>6. \A i \in 1 .. fit :
          t[i].kind \in {"pong", "details", "name", "sideband", "message"}
  BY <1>2, <1>4, <1>5
<1>7. /\ \A i : i \in At("pong", t) <=> i \in 1 .. fit /\ i \in 1 .. o1
      /\ \A i : i \in At("details", t) <=> i \in 1 .. fit /\ i \in o1 + 1 .. o2
      /\ \A i : i \in At("name", t) <=> i \in 1 .. fit /\ i \in o2 + 1 .. o3
      /\ \A i : i \in At("sideband", t) <=> i \in 1 .. fit /\ i \in o3 + 1 .. o4
      /\ \A i : i \in At("message", t) <=> i \in 1 .. fit /\ i \in o4 + 1 .. o5
  BY <1>2, <1>5 DEF At
<1>8. /\ \A i \in At("details", t) : t[i].num = k.player
      /\ \A i \in At("name", t) : t[i].num = k.named + (i - o2) - 1
      /\ \A i \in At("sideband", t) :
             t[i].num \in k.dirty /\ t[i].value = cv.side[t[i].num]
  <2>1. ASSUME NEW i \in At("details", t) PROVE t[i].num = k.player
    <3>1. t[i] = due[i] /\ i \in o1 + 1 .. o2
      BY <1>2, <1>7
    <3> QED
      BY <3>1, <1>3
  <2>2. ASSUME NEW i \in At("name", t) PROVE t[i].num = k.named + (i - o2) - 1
    <3>1. t[i] = due[i] /\ i \in o2 + 1 .. o3
      BY <1>2, <1>7
    <3> QED
      BY <3>1, <1>3
  <2>3. ASSUME NEW i \in At("sideband", t)
        PROVE  t[i].num \in k.dirty /\ t[i].value = cv.side[t[i].num]
    <3>1. t[i] = due[i] /\ i \in o3 + 1 .. o4
      BY <1>2, <1>7
    <3> QED
      BY <3>1, <1>3
  <2> QED
    BY <2>1, <2>2, <2>3
<1>9. \A i \in o4 + 1 .. o5 :
          due[i].num = Due(cv, k.player, k.cursor, Len(cv.log))[i - o4]
  BY DEF Layout
<1>10. \A i \in At("message", t) :
           t[i].num = Due(cv, k.player, k.cursor, Len(cv.log))[i - o4]
  BY <1>2, <1>7, <1>9
<1>11. DOMAIN t = 1 .. fit
  BY <1>2
<1>12. Cut(k, cv, t, fit, o1, o2, o3, o4, o5)
  BY <1>1, <1>6, <1>7, <1>8, <1>10, <1>11 DEF Cut
<1> QED
  BY <1>2, <1>12

LEMMA CutFillsKinds ==
    ASSUME NEW k \in Connections, NEW cv \in Conversations, NEW t, NEW f \in Connections,
           NEW o1 \in Nat, NEW o2 \in Nat, NEW o3 \in Nat, NEW o4 \in Nat, NEW o5 \in Nat,
           NEW fit \in 0 .. o5, Cut(k, cv, t, fit, o1, o2, o3, o4, o5),
           o1 < o2 <=> (k.player # None /\ ~k.detailed), ~Streams(k, cv) => o5 = o2,
           f.detailed <=> k.detailed \/ At("details", t) # {},
           f.pong => k.pong, ~k.pong => o1 = 0
    PROVE  FillsKinds(k, cv, t, f)
<1>1. /\ o1 =< o2 /\ o2 =< o3 /\ o3 =< o4 /\ o4 =< o5 /\ o2 =< o1 + 1
      /\ DOMAIN t = 1 .. fit
  BY DEF Cut
<1>2. \A i \in 1 .. fit : i > o2 => k.player # None /\ Streams(k, cv) /\ f.detailed
  <2>1. SUFFICES ASSUME NEW i \in 1 .. fit, i > o2
                 PROVE  k.player # None /\ Streams(k, cv) /\ f.detailed
    OBVIOUS
  <2>2. Streams(k, cv)
    BY <2>1, <1>1
  <2>3. k.player # None
    BY <2>2 DEF Streams
  <2>4. CASE k.detailed
    BY <2>2, <2>3, <2>4
  <2>5. CASE ~k.detailed
    <3>1. o1 + 1 \in 1 .. fit /\ o1 + 1 \in o1 + 1 .. o2
      BY <2>1, <2>3, <2>5
    <3>2. o1 + 1 \in At("details", t)
      BY <3>1 DEF Cut
    <3> QED
      BY <2>2, <2>3, <3>2
  <2> QED
    BY <2>4, <2>5
<1>3. ASSUME NEW i \in DOMAIN t, t[i].kind = "details"
      PROVE  t[i].num = k.player /\ k.player # None /\ ~k.detailed
  <2>1. i \in At("details", t)
    BY <1>3 DEF At
  <2>2. i \in o1 + 1 .. o2 /\ t[i].num = k.player
    BY <2>1 DEF Cut
  <2> QED
    BY <2>2
<1>4. ASSUME NEW i \in DOMAIN t, t[i].kind \in {"name", "sideband", "message"}
      PROVE  f.detailed /\ Streams(k, cv)
  <2>1. i \in At("name", t) \/ i \in At("sideband", t) \/ i \in At("message", t)
    BY <1>4 DEF At
  <2>2. i \in 1 .. fit
    BY <1>1
  <2>3. \/ i \in o2 + 1 .. o3 \/ i \in o3 + 1 .. o4 \/ i \in o4 + 1 .. o5
    BY <2>1 DEF Cut
  <2>4. i > o2
    BY <2>3, <1>1
  <2> QED
    BY <2>2, <2>4, <1>2
<1>5. ASSUME NEW i \in At("details", t), NEW j \in DOMAIN t, j < i
      PROVE  t[j].kind = "pong"
  <2>1. i \in 1 .. fit /\ i \in o1 + 1 .. o2
    BY DEF Cut
  <2>2. j \in 1 .. fit /\ j \in 1 .. o1
    BY <2>1, <1>1, <1>5
  <2>3. j \in At("pong", t)
    BY <2>2 DEF Cut
  <2> QED
    BY <2>3 DEF At
<1>6. \A i \in DOMAIN t : t[i].kind \in {"pong", "details", "name", "sideband", "message"}
  BY <1>1 DEF Cut
<1>7. ASSUME ~k.pong PROVE At("pong", t) = {}
  <2>1. \A i : i \in At("pong", t) => i \in 1 .. o1
    BY DEF Cut
  <2> QED
    BY <1>7, <2>1
<1> QED
  BY <1>3, <1>4, <1>5, <1>6, <1>7 DEF FillsKinds

LEMMA CutFillsData ==
    ASSUME NEW k \in Connections, NEW cv \in Conversations, NEW t, NEW f \in Connections,
           NEW o1 \in Nat, NEW o2 \in Nat, NEW o3 \in Nat, NEW o4 \in Nat, NEW o5 \in Nat,
           NEW fit \in 0 .. o5, Cut(k, cv, t, fit, o1, o2, o3, o4, o5),
           f.dirty = k.dirty \ {t[i].num : i \in At("sideband", t)}
    PROVE  FillsData(k, cv, t, f)
<1>1. \A i \in At("sideband", t) :
          t[i].num \in k.dirty /\ t[i].value = cv.side[t[i].num]
  BY DEF Cut
<1> QED
  BY <1>1 DEF FillsData

LEMMA CutFillsNames ==
    ASSUME NEW k \in Connections, NEW cv \in Conversations, NEW t, NEW f \in Connections,
           NEW o1 \in Nat, NEW o2 \in Nat, NEW o3 \in Nat, NEW o4 \in Nat, NEW o5 \in Nat,
           NEW fit \in 0 .. o5, Cut(k, cv, t, fit, o1, o2, o3, o4, o5),
           ~Streams(k, cv) => o5 = o2,
           Streams(k, cv) /\ k.named =< cv.n => k.named + (o3 - o2) = cv.n,
           f.named = k.named + Count("name", t)
    PROVE  FillsNames(k, cv, t, f)
<1>1. /\ o1 =< o2 /\ o2 =< o3 /\ o3 =< o4 /\ o4 =< o5
      /\ DOMAIN t = 1 .. fit
  BY DEF Cut
<1>2. k.named \in Nat /\ f.named \in Nat /\ cv.n \in Nat
  BY PlayerAssumption DEF Connections, Conversations
<1>3. PICK m \in Nat : /\ o2 =< m /\ m =< o3
                       /\ fit =< o2 => m = o2
                       /\ o2 =< fit /\ fit =< o3 => m = fit
                       /\ o3 =< fit => m = o3
  <2>1. CASE fit =< o2
    BY <2>1, <1>1
  <2>2. CASE o2 =< fit /\ fit =< o3
    BY <2>2, <1>1
  <2>3. CASE o3 =< fit
    BY <2>3, <1>1
  <2> QED
    BY <2>1, <2>2, <2>3, <1>1
<1>4. At("name", t) = o2 + 1 .. m
  <2>1. \A i : i \in At("name", t) <=> i \in 1 .. fit /\ i \in o2 + 1 .. o3
    BY DEF Cut
  <2>2. \A i \in o2 + 1 .. m : i \in 1 .. fit /\ i \in o2 + 1 .. o3
    BY <1>1, <1>3
  <2>3. \A i \in 1 .. fit : i \in o2 + 1 .. o3 => i \in o2 + 1 .. m
    BY <1>1, <1>3
  <2> QED
    BY <2>1, <2>2, <2>3
<1>5. Count("name", t) = m - o2
  <2>1. Cardinality(o2 + 1 .. m) = IF o2 + 1 > m THEN 0 ELSE m - (o2 + 1) + 1
    BY FS_Interval
  <2> QED
    BY <2>1, <1>3, <1>4 DEF Count
<1>6. f.named = k.named + (m - o2)
  BY <1>5
<1>7. \A i \in o2 + 1 .. m : t[i].num = k.named + (i - o2) - 1
  BY <1>4 DEF Cut
<1>8. k.named =< f.named
  BY <1>2, <1>3, <1>6
<1>9. ASSUME NEW i \in At("name", t), NEW j \in At("name", t), i < j
      PROVE  t[i].num < t[j].num
  <2>1. i \in o2 + 1 .. m /\ j \in o2 + 1 .. m
    BY <1>4
  <2>2. t[i].num = k.named + (i - o2) - 1 /\ t[j].num = k.named + (j - o2) - 1
    BY <2>1, <1>7
  <2> QED
    BY <2>1, <2>2, <1>2, <1>9
<1>10. ASSUME NEW i \in At("name", t) PROVE t[i].num \in k.named .. f.named - 1
  <2>1. i \in o2 + 1 .. m
    BY <1>4
  <2>2. t[i].num = k.named + (i - o2) - 1
    BY <2>1, <1>7
  <2> QED
    BY <2>1, <2>2, <1>2, <1>3, <1>6
<1>11. ASSUME NEW x \in k.named .. f.named - 1
       PROVE  \E i \in At("name", t) : t[i].num = x
  <2>1. PICK i \in Nat : i = o2 + 1 + (x - k.named)
    BY <1>2
  <2>2. i \in o2 + 1 .. m
    BY <2>1, <1>2, <1>3, <1>6
  <2>3. t[i].num = x
    BY <2>1, <2>2, <1>2, <1>7
  <2> QED
    BY <2>2, <2>3, <1>4
<1>12. ASSUME NEW j \in At("message", t)
       PROVE  cv.n =< f.named /\ \A i \in At("name", t) : i < j
  <2>1. j \in 1 .. fit /\ j \in o4 + 1 .. o5
    BY DEF Cut
  <2>2. fit > o3 /\ m = o3
    BY <2>1, <1>1, <1>3
  <2>3. Streams(k, cv)
    BY <2>1, <1>1
  <2>4. cv.n =< f.named
    BY <2>2, <2>3, <1>2, <1>3, <1>6
  <2>5. \A i \in o2 + 1 .. m : i < j
    BY <2>1, <2>2, <1>1
  <2> QED
    BY <2>4, <2>5, <1>4
<1> QED
  BY <1>8, <1>9, <1>10, <1>11, <1>12 DEF FillsNames

LEMMA CutFillsMessages ==
    ASSUME NEW k \in Connections, NEW cv \in Conversations, k.cursor =< Len(cv.log),
           NEW due \in Seq(Frames), NEW t, NEW f \in Connections,
           NEW o1 \in Nat, NEW o2 \in Nat, NEW o3 \in Nat, NEW o4 \in Nat, NEW o5 \in Nat,
           NEW fit \in 0 .. o5, Cut(k, cv, t, fit, o1, o2, o3, o4, o5),
           Layout(k, cv, due, o1, o2, o3, o4, o5),
           f.cursor = IF fit < o5
                      THEN IF due[fit + 1].kind = "message" THEN due[fit + 1].num - 1
                                                            ELSE k.cursor
                      ELSE IF Streams(k, cv) THEN Len(cv.log) ELSE k.cursor
    PROVE  FillsMessages(k, cv, t, f)
<1>a. k.cursor \in Nat /\ Len(cv.log) \in Nat
  BY LenProperties DEF Connections, Conversations
<1>c. PICK p : p = k.player
  OBVIOUS
<1>d. PICK lo \in Nat, hi \in Nat : lo = k.cursor /\ hi = Len(cv.log)
  BY <1>a
<1>b. lo = k.cursor /\ hi = Len(cv.log) /\ p = k.player
  BY <1>c, <1>d
<1>1. /\ o1 =< o2 /\ o2 =< o3 /\ o3 =< o4 /\ o4 =< o5
      /\ \A i : i \in At("message", t) <=> i \in 1 .. fit /\ i \in o4 + 1 .. o5
  BY DEF Cut
<1>2. lo \in Nat /\ hi \in Nat /\ lo =< hi /\ f.cursor \in Nat
  BY <1>b DEF Connections
<1>3. PICK D : D = Due(cv, p, lo, hi)
  OBVIOUS
<1>4. PICK l \in Nat : l = Len(D)
  BY <1>2, <1>3, DueHas, LenProperties
<1>5. /\ \A i \in 1 .. l : D[i] \in lo + 1 .. hi /\ Visible(cv, p, D[i])
      /\ \A i, j \in 1 .. l : i < j => D[i] < D[j]
      /\ \A i \in 1 .. l : D[i] \in Nat
  <2>1. /\ \A i \in 1 .. Len(D) : D[i] \in lo + 1 .. hi /\ Visible(cv, p, D[i])
        /\ \A i, j \in 1 .. Len(D) : i < j => D[i] < D[j]
    BY ONLY <1>3, DueHas, lo \in Nat, hi \in Nat
  <2>2. \A x \in lo + 1 .. hi : x \in Nat
    OBVIOUS
  <2> QED
    BY ONLY <2>1, <2>2, <1>4
<1>6. ASSUME NEW x \in lo + 1 .. hi, Visible(cv, p, x)
      PROVE  \E i \in 1 .. l : D[i] = x
  <2>1. x \in VisibleFrom(cv, p, lo, hi)
    BY <1>6 DEF VisibleFrom
  <2> QED
    BY <2>1, <1>3, <1>4, DueCovers
<1>7. \A i \in o4 + 1 .. o5 : due[i].kind = "message" /\ due[i].num = D[i - o4]
  BY <1>3, <1>b DEF Layout
<1>8. \A i \in At("message", t) : t[i].num = D[i - o4]
  BY <1>3, <1>b DEF Cut
<1>9. Streams(k, cv) => o5 = o4 + l
  BY <1>3, <1>4, <1>b DEF Layout
<1>10. ~Streams(k, cv) => o5 = o2
  BY DEF Layout
<1>11. \A i \in 1 .. o5 : due[i].kind = "message" => i > o4
  <2>1. \A i \in 1 .. o5 : \/ i \in 1 .. o1 \/ i \in o1 + 1 .. o2 \/ i \in o2 + 1 .. o3
                           \/ i \in o3 + 1 .. o4 \/ i \in o4 + 1 .. o5
    BY <1>1
  <2>2. /\ \A i \in 1 .. o1 : due[i].kind = "pong"
        /\ \A i \in o1 + 1 .. o2 : due[i].kind = "details"
        /\ \A i \in o2 + 1 .. o3 : due[i].kind = "name"
        /\ \A i \in o3 + 1 .. o4 : due[i].kind = "sideband"
    BY DEF Layout
  <2>3. \A i \in o4 + 1 .. o5 : i > o4
    OBVIOUS
  <2> QED
    BY <2>1, <2>2, <2>3
(* n messages are written, and the cursor is just before the next.          *)
<1>12. PICK n \in 0 .. l : /\ \A i : i \in At("message", t) <=> i \in o4 + 1 .. o4 + n
                           /\ Streams(k, cv) /\ n < l => f.cursor = D[n + 1] - 1 \/ (n = 0 /\ f.cursor = lo)
                           /\ Streams(k, cv) /\ n = l => f.cursor = hi \/ (n = 0 /\ f.cursor = lo)
                           /\ ~Streams(k, cv) => n = 0 /\ f.cursor = lo
  <2>1. CASE ~Streams(k, cv)
    <3>1. o4 = o5
      BY <2>1, <1>1, <1>10
    <3>2. \A i : i \in At("message", t) <=> i \in o4 + 1 .. o4 + 0
      BY <3>1, <1>1
    <3>3. f.cursor = lo
      <4>1. CASE fit < o5
        <5>1. fit + 1 \in 1 .. o5 /\ ~(fit + 1 > o4)
          BY <4>1, <3>1
        <5>2. due[fit + 1].kind # "message"
          BY <5>1, <1>11
        <5> QED
          BY <4>1, <5>2, <1>b
      <4>2. CASE ~(fit < o5)
        BY <4>2, <2>1, <1>b
      <4> QED
        BY <4>1, <4>2
    <3>4. 0 \in 0 .. l
      OBVIOUS
    <3> QED
      BY <2>1, <3>2, <3>3, <3>4
  <2>2. CASE Streams(k, cv) /\ fit < o4
    <3>1. \A i : i \in At("message", t) <=> i \in o4 + 1 .. o4 + 0
      BY <2>2, <1>1
    <3>2. fit + 1 \in 1 .. o5 /\ ~(fit + 1 > o4) /\ fit < o5
      BY <2>2, <1>1
    <3>3. due[fit + 1].kind # "message"
      BY <3>2, <1>11
    <3>4. f.cursor = lo
      BY <3>2, <3>3, <1>b
    <3>5. 0 \in 0 .. l
      OBVIOUS
    <3> QED
      BY <2>2, <3>1, <3>4, <3>5
  <2>3. CASE Streams(k, cv) /\ ~(fit < o4)
    <3>1. PICK n \in 0 .. l : fit = o4 + n
      <4>1. fit - o4 \in 0 .. l /\ fit = o4 + (fit - o4)
        BY <2>3, <1>9
      <4> QED
        BY <4>1
    <3>2. \A i : i \in At("message", t) <=> i \in o4 + 1 .. o4 + n
      BY <2>3, <3>1, <1>1, <1>9
    <3>3. CASE n < l
      <4>1. fit < o5 /\ fit + 1 \in o4 + 1 .. o5 /\ (fit + 1) - o4 = n + 1
        BY <2>3, <3>1, <3>3, <1>9
      <4>2. due[fit + 1].kind = "message" /\ due[fit + 1].num = D[n + 1]
        BY <4>1, <1>7
      <4>3. f.cursor = D[n + 1] - 1
        BY <4>1, <4>2
      <4> QED
        BY <2>3, <3>2, <3>3, <4>3
    <3>4. CASE n = l
      <4>1. ~(fit < o5)
        BY <2>3, <3>1, <3>4, <1>9
      <4>2. f.cursor = hi
        BY <2>3, <4>1, <1>b
      <4> QED
        BY <2>3, <3>2, <3>4, <4>2, ~(n < l)
    <3> QED
      BY <3>3, <3>4
  <2> QED
    BY <2>1, <2>2, <2>3
<1>13. /\ lo =< f.cursor /\ f.cursor =< hi
       /\ \A i \in 1 .. n : D[i] =< f.cursor
       /\ \A i \in 1 .. l : i > n => ~(D[i] =< f.cursor)
  <2>a. PICK fc \in Nat : fc = f.cursor
    BY <1>2
  <2>b. \A i \in 1 .. l : lo < D[i] /\ D[i] =< hi /\ ~(D[i] =< lo)
    <3>1. SUFFICES ASSUME NEW i \in 1 .. l
                   PROVE  lo < D[i] /\ D[i] =< hi /\ ~(D[i] =< lo)
      OBVIOUS
    <3>2. PICK y \in lo + 1 .. hi : y = D[i]
      BY <1>5
    <3> QED
      BY <3>2, SMTT(30)
  <2>1. CASE ~Streams(k, cv)
    <3>1. n = 0 /\ f.cursor = lo
      BY <2>1, <1>12
    <3> QED
      BY <3>1, <1>2, <2>b, SMTT(30)
  <2>2. CASE Streams(k, cv) /\ n < l /\ f.cursor = D[n + 1] - 1
    <3>1. n + 1 \in 1 .. l /\ D[n + 1] \in lo + 1 .. hi
      BY <2>2, <1>5
    <3>2. PICK z \in Nat : z = D[n + 1] /\ lo < z /\ z =< hi
      BY <3>1
    <3>3. fc = z - 1
      BY <2>a, <2>2, <3>2
    <3>4. ASSUME NEW i \in 1 .. n PROVE D[i] =< fc
      <4>1. i \in 1 .. l /\ i < n + 1
        OBVIOUS
      <4>2. D[i] < z /\ D[i] \in Nat
        BY <4>1, <3>1, <3>2, <1>5
      <4> QED
        BY <4>2, <3>3, SMTT(30)
    <3>5. ASSUME NEW i \in 1 .. l, i > n PROVE ~(D[i] =< fc)
      <4>1. i = n + 1 \/ n + 1 < i
        BY <3>5, SMTT(30)
      <4>2. i = n + 1 => D[i] = z
        BY <3>2
      <4>3. n + 1 < i => z < D[i]
        BY <3>1, <3>2, <1>5
      <4>4. PICK y \in Nat : y = D[i]
        BY <1>5
      <4> QED
        <5>1. z =< y
          BY <4>1, <4>2, <4>3, <4>4
        <5>2. ~(y =< fc)
          BY <5>1, <3>3
        <5> QED
          BY <5>2, <4>4, Zenon
    <3>6. lo =< fc /\ fc =< hi
      <4>1. lo < z /\ z =< hi
        BY <3>2
      <4>2. lo \in Nat /\ hi \in Nat /\ z \in Nat /\ fc \in Nat
        OBVIOUS
      <4> QED
        BY ONLY <4>1, <4>2, <3>3
    <3> QED
      BY ONLY <2>a, <3>4, <3>5, <3>6
  <2>3. CASE Streams(k, cv) /\ n = l /\ f.cursor = hi
    <3>1. \A i \in 1 .. l : ~(i > n)
      BY <2>3
    <3>2. lo =< hi /\ hi =< hi
      BY <1>2
    <3> QED
      BY ONLY <2>3, <2>b, <3>1, <3>2
  <2>4. CASE n = 0 /\ f.cursor = lo
    BY <2>4, <1>2, <2>b, SMTT(30)
  <2>5. n = l \/ n < l
    OBVIOUS
  <2> QED
    BY <2>1, <2>2, <2>3, <2>4, <2>5, <1>12
<1>14. \A i \in At("message", t) : i - o4 \in 1 .. n /\ i - o4 \in 1 .. l /\ i \in Nat
  BY <1>12, SMTT(30)
<1>15. ASSUME NEW i \in At("message", t), NEW j \in At("message", t), i < j
       PROVE  t[i].num < t[j].num
  <2>1. PICK a \in 1 .. l, b \in 1 .. l : a = i - o4 /\ b = j - o4
    BY <1>14
  <2>2. a < b
    BY <2>1, <1>14, <1>15, SMTT(30)
  <2>3. t[i].num = D[a] /\ t[j].num = D[b]
    BY <2>1, <1>8
  <2> QED
    BY <2>2, <2>3, <1>5
<1>16. ASSUME NEW i \in At("message", t)
       PROVE  t[i].num \in lo + 1 .. f.cursor /\ Visible(cv, p, t[i].num)
  <2>1. PICK j \in 1 .. l : j = i - o4 /\ j \in 1 .. n
    BY <1>14
  <2>2. t[i].num = D[j]
    BY <2>1, <1>8
  <2> QED
    BY <2>1, <2>2, <1>2, <1>5, <1>13
<1>17. ASSUME Streams(k, cv), NEW x \in lo + 1 .. f.cursor, Visible(cv, p, x)
       PROVE  \E i \in At("message", t) : t[i].num = x
  <2>1. x \in lo + 1 .. hi
    BY <1>2, <1>13, SMTT(30)
  <2>2. PICK j \in 1 .. l : D[j] = x
    BY <2>1, <1>6, <1>17
  <2>3. j \in 1 .. n
    BY <2>2, <1>2, <1>13
  <2>4. PICK i \in o4 + 1 .. o4 + n : j = i - o4
    <3>1. o4 + j \in o4 + 1 .. o4 + n /\ j = (o4 + j) - o4
      BY <2>3
    <3> QED
      BY <3>1
  <2>5. i \in At("message", t)
    BY <2>4, <1>12
  <2> QED
    BY <2>2, <2>4, <2>5, <1>8
<1> QED
  BY <1>b, <1>12, <1>13, <1>15, <1>16, <1>17 DEF FillsMessages

LEMMA FillWriteBufFills ==
    ASSUME NEW k \in Connections, NEW cv \in Conversations, k.cursor =< Len(cv.log)
    PROVE  \E t : Fills(k, cv, t, FillWriteBuf(k, cv))
<1> DEFINE fits(all) == {m \in 0 .. Len(all) :
                             m = Len(all) \/ Used(SubSeq(all, 1, m + 1)) > Room(k.buf)}
           reach(due, fit) ==
               IF fit < Len(due)
               THEN IF due[fit + 1].kind = "message" THEN due[fit + 1].num - 1
                                                     ELSE k.cursor
               ELSE IF Streams(k, cv) THEN Len(cv.log) ELSE k.cursor
<1>1. PICK f : f = FillWriteBuf(k, cv)
  OBVIOUS
<1>2. f \in Connections /\ f.state = k.state /\ f.player = k.player
  BY <1>1, FillWriteBufType
<1>3. PICK due : due = FramesDue(k, cv)
  OBVIOUS
<1>4. PICK fit : fit = Min(fits(due))
  OBVIOUS
<1>5. PICK t : t = SubSeq(due, 1, fit)
  OBVIOUS
<1>6. f = [k EXCEPT !.buf = @ \o t,
                    !.pong = @ /\ fit = 0,
                    !.detailed = @ \/ At("details", t) # {},
                    !.named = @ + Count("name", t),
                    !.dirty = @ \ {t[i].num : i \in At("sideband", t)},
                    !.cursor = reach(due, fit)]
  BY <1>1, <1>3, <1>4, <1>5 DEF FillWriteBuf
<1>7. due \in Seq(Frames)
  BY <1>3, FramesDueType
<1>8. PICK o1 \in Nat, o2 \in Nat, o3 \in Nat, o4 \in Nat, o5 \in Nat :
          Layout(k, cv, due, o1, o2, o3, o4, o5)
  BY <1>3, FramesAreLaidOut
<1>9. o5 = Len(due)
  BY <1>8 DEF Layout
<1>10. fit \in 0 .. o5
  <2>1. Len(due) \in fits(due) /\ fits(due) \in SUBSET Nat
    BY <1>9
  <2>2. Min(fits(due)) \in fits(due)
    BY <2>1, MinProperties
  <2> QED
    BY <2>2, <1>4, <1>9
<1>11. PICK r : r = reach(due, fit)
  OBVIOUS
<1>12. /\ f.buf = k.buf \o t
       /\ f.pong = (k.pong /\ fit = 0)
       /\ f.detailed = (k.detailed \/ At("details", t) # {})
       /\ f.named = k.named + Count("name", t)
       /\ f.dirty = k.dirty \ {t[i].num : i \in At("sideband", t)}
       /\ f.cursor = r
  <2> HIDE DEF reach
  <2> QED
    BY <1>6, <1>11 DEF Connections
<1>13. f.cursor = IF fit < o5
                  THEN IF due[fit + 1].kind = "message" THEN due[fit + 1].num - 1
                                                        ELSE k.cursor
                  ELSE IF Streams(k, cv) THEN Len(cv.log) ELSE k.cursor
  BY <1>9, <1>11, <1>12
<1> HIDE DEF fits, reach
<1>14. t \in Seq(Frames) /\ Cut(k, cv, t, fit, o1, o2, o3, o4, o5)
  BY <1>5, <1>7, <1>8, <1>10, PrefixIsCut
<1>15. /\ o1 < o2 <=> (k.player # None /\ ~k.detailed)
       /\ ~Streams(k, cv) => o5 = o2
       /\ ~k.pong => o1 = 0
       /\ Streams(k, cv) /\ k.named =< cv.n => k.named + (o3 - o2) = cv.n
  BY <1>8 DEF Layout
<1>16. f.detailed <=> k.detailed \/ At("details", t) # {}
  BY <1>12 DEF Connections
<1>a. f.pong => k.pong
  BY <1>12
<1>17. FillsKinds(k, cv, t, f)
  BY <1>a, <1>2, <1>10, <1>14, <1>15, <1>16, CutFillsKinds
<1>18. FillsNames(k, cv, t, f)
  BY <1>2, <1>10, <1>12, <1>14, <1>15, CutFillsNames
<1>19. FillsData(k, cv, t, f)
  BY <1>2, <1>10, <1>12, <1>14, CutFillsData
<1>20. FillsMessages(k, cv, t, f)
  BY <1>2, <1>7, <1>8, <1>10, <1>13, <1>14, CutFillsMessages
<1>21. Fills(k, cv, t, f)
  BY <1>2, <1>12, <1>14, <1>17, <1>18, <1>19, <1>20 DEF Fills
<1> QED
  BY <1>1, <1>21

-----------------------------------------------------------------------------
(* A connection writes the frames t.                                        *)

LEMMA TakeIntroduced ==
    ASSUME NEW page \in Pages, NEW q \in Seq(Frames), NEW t \in Seq(Frames),
           NEW all \in Seq(Frames), NEW m \in Nat, AtParts(all, q, t, m),
           NEW k \in Connections, NEW f \in Connections, NEW cv \in Conversations,
           f.state = k.state, f.player = k.player,
           FillsKinds(k, cv, t, f), FillsNames(k, cv, t, f), FillsMessages(k, cv, t, f),
           Introduced(page, q, k, cv)
    PROVE  /\ Introduced(page, all, f, cv)
           /\ \A p : Means(page, all, f, p) => Means(page, q, k, p)
           /\ k.detailed => (Fresh(all) <=> Fresh(q))
           /\ Fresh(all) => Fresh(q) \/ ~k.detailed
<1>1. \A i \in At("details", t) : t[i].num = k.player /\ k.player # None /\ ~k.detailed
  BY KindsInQueue DEF FillsKinds
<1>2. \A p : Means(page, all, f, p) => Means(page, q, k, p)
  BY <1>1 DEF Means, AtParts
<1>3. k.detailed => (Fresh(all) <=> Fresh(q))
  BY <1>1 DEF Fresh, AtParts
<1>4. Fresh(all) => Fresh(q) \/ ~k.detailed
  BY <1>1 DEF Fresh, AtParts
<1>5. Fresh(all) <=> Fresh(q) \/ At("details", t) # {}
  BY SMTT(30) DEF Fresh, AtParts
<1>6. k.player = None => \A i \in DOMAIN t : t[i].kind = "pong"
  BY DEF FillsKinds, Streams
<1>7. ~f.detailed => \A i \in DOMAIN t : t[i].kind = "pong"
  <2>1. ~f.detailed => \A i \in DOMAIN t : t[i].kind # "details"
    BY KindsInQueue DEF FillsKinds
  <2> QED
    BY <2>1 DEF FillsKinds
<1>8. k.player = None => ~Fresh(all) \/ Fresh(q)
  BY <1>1, <1>5
<1>9. /\ k.state # "unused"
      /\ f.player # None => f.state = "open"
      /\ \A p : Means(page, all, f, p) => p \in 0 .. cv.n - 1
      /\ \A p, r : Means(page, all, f, p) /\ Means(page, all, f, r) => p = r
  BY <1>2 DEF Introduced
<1>10. f.state = "open" /\ f.player = None => Bare(all)
  <2>1. SUFFICES ASSUME k.state = "open", k.player = None, NEW i \in DOMAIN all
                 PROVE  all[i].kind \in {"pong", "notfound"}
    BY DEF Bare
  <2>2. Bare(q)
    BY <2>1 DEF Introduced
  <2> QED
    BY <2>1, <2>2, <1>6 DEF Bare, AtParts
<1>11. f.player # None /\ ~f.detailed => OnlyPongs(all) /\ f.named = 0
  <2>1. SUFFICES ASSUME k.player # None, ~f.detailed
                 PROVE  OnlyPongs(all) /\ f.named = 0
    OBVIOUS
  <2>2. OnlyPongs(q) /\ k.named = 0
    BY <2>1 DEF Introduced, FillsKinds
  <2>3. OnlyPongs(all)
    <3>1. SUFFICES ASSUME NEW i \in DOMAIN all PROVE all[i].kind = "pong"
      BY DEF OnlyPongs
    <3>2. i \in Nat
      BY DEF AtParts
    <3>3. CASE i =< m
      BY <2>2, <3>3 DEF OnlyPongs, AtParts
    <3>4. CASE i > m
      BY <2>1, <3>4, <1>7 DEF AtParts
    <3> QED
      BY <3>2, <3>3, <3>4
  <2>4. At("name", t) = {}
    BY <2>1, <1>7, KindsInQueue
  <2>5. f.named = 0
    <3>1. f.named \in Nat /\ \A x \in 0 .. f.named - 1 : FALSE
      BY <2>2, <2>4 DEF FillsNames, Connections
    <3>2. f.named > 0 => 0 \in 0 .. f.named - 1
      BY <3>1
    <3> QED
      BY <3>1, <3>2
  <2> QED
    BY <2>3, <2>5
<1>12. f.player # None /\ f.detailed /\ page.id = None => Fresh(all)
  BY <1>5 DEF FillsKinds, Introduced
<1>13. page.id = None /\ ~Fresh(all) => Bare(all)
  <2>1. SUFFICES ASSUME page.id = None, ~Fresh(all), NEW i \in DOMAIN all
                 PROVE  all[i].kind \in {"pong", "notfound"}
    BY DEF Bare
  <2>2. Bare(q)
    BY <2>1, <1>5 DEF Introduced
  <2>3. \A j \in DOMAIN t : t[j].kind = "pong"
    BY <2>1, <1>6, <1>7, <1>12
  <2>4. i \in Nat
    BY DEF AtParts
  <2>5. CASE i =< m
    BY <2>2, <2>5 DEF Bare, AtParts
  <2>6. CASE i > m
    BY <2>3, <2>6 DEF AtParts
  <2> QED
    BY <2>4, <2>5, <2>6
<1>14. ASSUME NEW i \in At("details", all), NEW j \in DOMAIN all, j < i
       PROVE  all[j].kind = "pong"
  <2>1. i \in Nat /\ j \in Nat
    BY DEF AtParts
  <2>2. CASE i =< m
    <3>1. i \in At("details", q) /\ j \in DOMAIN q /\ all[j] = q[j]
      BY <2>1, <2>2, <1>14 DEF AtParts
    <3> QED
      BY <3>1, <1>14 DEF Introduced
  <2>3. CASE i > m
    <3>1. i - m \in At("details", t)
      BY <2>3 DEF AtParts
    <3>2. OnlyPongs(q)
      BY <3>1, <1>1 DEF Introduced
    <3>3. CASE j =< m
      BY <3>2, <3>3 DEF OnlyPongs, AtParts
    <3>4. CASE j > m
      <4>1. j - m \in DOMAIN t /\ all[j] = t[j - m] /\ j - m < i - m
        BY <2>1, <3>4, <1>14 DEF AtParts
      <4> QED
        BY <3>1, <4>1 DEF FillsKinds
    <3> QED
      BY <2>1, <3>3, <3>4
  <2> QED
    BY <2>1, <2>2, <2>3
<1>15. f.cursor =< Len(cv.log) /\ k.cursor \in Nat /\ f.cursor \in Nat /\ Len(cv.log) \in Nat
  BY LenProperties DEF Introduced, FillsMessages, Connections, Conversations
<1>16. ASSUME NEW i \in At("message", all)
       PROVE  all[i].num \in 1 .. Len(cv.log)
  <2>1. CASE i =< m
    BY <2>1 DEF Introduced, AtParts
  <2>2. CASE i > m
    <3>1. PICK j \in At("message", t) : all[i] = t[j]
      BY <2>2 DEF AtParts
    <3>2. t[j].num \in k.cursor + 1 .. f.cursor
      BY DEF FillsMessages
    <3> QED
      BY <3>1, <3>2, <1>15, SMTT(30)
  <2>3. i \in Nat
    BY DEF AtParts
  <2> QED
    BY <2>1, <2>2, <2>3
<1>17. Introduced(page, all, f, cv)
  BY <1>9, <1>10, <1>11, <1>12, <1>13, <1>14, <1>15, <1>16 DEF Introduced
<1> QED
  BY <1>2, <1>3, <1>4, <1>17

LEMMA TakeNamed ==
    ASSUME NEW page \in Pages, NEW q \in Seq(Frames), NEW t \in Seq(Frames),
           NEW all \in Seq(Frames), NEW m \in Nat, AtParts(all, q, t, m),
           NEW k \in Connections, NEW f \in Connections, NEW cv \in Conversations,
           f.player = k.player, Recorded(cv),
           FillsKinds(k, cv, t, f), FillsNames(k, cv, t, f), FillsMessages(k, cv, t, f),
           Introduced(page, q, k, cv), Introduced(page, all, f, cv),
           k.detailed => (Fresh(all) <=> Fresh(q)),
           Named(page, q, k, cv)
    PROVE  Named(page, all, f, cv)
<1>1. SUFFICES ASSUME k.player # None, f.detailed
               PROVE  Named(page, all, f, cv)
  BY DEF Named
<1>2. PICK b \in Nat : b = Base(page, all)
  BY DEF Base, Pages
<1>3. k.named \in Nat /\ f.named \in Nat /\ k.named =< f.named /\ cv.n \in Nat
  BY PlayerAssumption DEF Connections, FillsNames, Conversations
(* What held before, also when nothing was written yet.                     *)
<1>4. /\ b =< k.named
      /\ \A i, j \in At("name", q) : i < j => q[i].num < q[j].num
      /\ \A i \in At("name", q) : q[i].num \in b .. k.named - 1
      /\ \A x \in b .. k.named - 1 : \E i \in At("name", q) : q[i].num = x
      /\ \A j \in At("message", q) :
             \A x \in b .. cv.log[q[j].num].joined - 1 :
                 \E i \in At("name", q) : i < j /\ q[i].num = x
  <2>1. CASE k.detailed
    <3>1. b = Base(page, q)
      BY <1>2, <2>1 DEF Base
    <3> QED
      BY <1>1, <2>1, <3>1 DEF Named
  <2>2. CASE ~k.detailed
    <3>1. OnlyPongs(q) /\ k.named = 0
      BY <1>1, <2>2 DEF Introduced
    <3>2. At("name", q) = {} /\ At("message", q) = {}
      BY <3>1, KindsInQueue, SMTT(30) DEF OnlyPongs
    <3>3. At("details", t) # {}
      BY <1>1, <2>2 DEF FillsKinds
    <3>4. Fresh(all)
      BY <3>3 DEF Fresh, AtParts
    <3>5. b = 0
      BY <1>2, <3>4 DEF Base
    <3> QED
      BY <3>1, <3>2, <3>5
  <2> QED
    BY <2>1, <2>2
<1>5. b =< f.named
  BY <1>3, <1>4
<1>6. \A i \in At("name", all) : i \in Nat
  BY DEF AtParts
<1>7. \A i \in At("name", all) : i =< m => i \in At("name", q) /\ all[i] = q[i]
  BY DEF AtParts
<1>8. \A i \in At("name", all) : i > m => i - m \in At("name", t) /\ all[i] = t[i - m]
  BY DEF AtParts
<1>9. \A i \in At("name", t) : t[i].num \in k.named .. f.named - 1
  BY DEF FillsNames
<1>10. ASSUME NEW i \in At("name", all), NEW j \in At("name", all), i < j
       PROVE  all[i].num < all[j].num
  <2>1. i \in Nat /\ j \in Nat
    BY <1>6
  <2>2. CASE j =< m
    <3>1. i \in At("name", q) /\ all[i] = q[i] /\ j \in At("name", q) /\ all[j] = q[j]
      BY <2>1, <2>2, <1>7, <1>10
    <3> QED
      BY <3>1, <1>4, <1>10
  <2>3. CASE i =< m /\ j > m
    <3>1. all[i].num \in b .. k.named - 1 /\ all[j].num \in k.named .. f.named - 1
      BY <2>3, <1>4, <1>7, <1>8, <1>9
    <3> QED
      BY <3>1, <1>3, SMTT(30)
  <2>4. CASE i > m
    <3>1. /\ i - m \in At("name", t) /\ all[i] = t[i - m]
          /\ j - m \in At("name", t) /\ all[j] = t[j - m]
          /\ i - m < j - m
      BY <2>1, <2>4, <1>8, <1>10
    <3> QED
      BY <3>1 DEF FillsNames
  <2> QED
    BY <2>1, <2>2, <2>3, <2>4
<1>11. ASSUME NEW i \in At("name", all)
       PROVE  all[i].num \in b .. f.named - 1
  <2>1. CASE i =< m
    <3>1. all[i].num \in b .. k.named - 1
      BY <2>1, <1>4, <1>7
    <3> QED
      BY <3>1, <1>3
  <2>2. CASE i > m
    <3>1. all[i].num \in k.named .. f.named - 1
      BY <2>2, <1>8, <1>9
    <3> QED
      BY <3>1, <1>3, <1>4
  <2> QED
    BY <1>6, <2>1, <2>2
<1>12. ASSUME NEW x \in b .. f.named - 1
       PROVE  \E i \in At("name", all) : all[i].num = x
  <2>1. CASE x < k.named
    <3>1. x \in b .. k.named - 1
      BY <1>3, <2>1
    <3>2. PICK i \in At("name", q) : q[i].num = x
      BY <3>1, <1>4
    <3> QED
      BY <3>2 DEF AtParts
  <2>2. CASE ~(x < k.named)
    <3>1. x \in k.named .. f.named - 1
      BY <1>3, <2>2
    <3>2. PICK i \in At("name", t) : t[i].num = x
      BY <3>1 DEF FillsNames
    <3>3. m + i \in At("name", all) /\ all[m + i] = t[i]
      BY DEF AtParts
    <3> QED
      BY <3>2, <3>3
  <2> QED
    BY <2>1, <2>2
<1>13. ASSUME NEW j \in At("message", all),
              NEW x \in b .. cv.log[all[j].num].joined - 1
       PROVE  \E i \in At("name", all) : i < j /\ all[i].num = x
  <2>1. CASE j =< m
    <3>1. j \in At("message", q) /\ all[j] = q[j]
      BY <2>1 DEF AtParts
    <3>2. PICK i \in At("name", q) : i < j /\ q[i].num = x
      BY <3>1, <1>4, <1>13
    <3> QED
      BY <3>2 DEF AtParts
  <2>2. CASE j > m
    <3>1. j - m \in At("message", t) /\ j \in Nat
      BY <2>2 DEF AtParts
    <3>2. all[j].num \in 1 .. Len(cv.log)
      BY DEF Introduced
    <3>3. PICK e \in LogEntries : e = cv.log[all[j].num]
      BY <3>2, ElementOfSeq DEF Conversations
    <3>4. e.joined \in Nat /\ e.joined =< cv.n
      BY <3>2, <3>3 DEF Recorded, LogEntries
    <3>5. x \in b .. e.joined - 1
      BY <3>3, <1>13
    <3>6. cv.n =< f.named /\ \A i \in At("name", t) : i < j - m
      BY <3>1 DEF FillsNames
    <3>7. x \in b .. f.named - 1
      BY <3>4, <3>5, <3>6, <1>3, SMTT(30)
    <3>8. PICK i \in At("name", all) : all[i].num = x
      BY <3>7, <1>12
    <3>9. i < j
      <4>1. CASE i =< m
        BY <4>1, <2>2, <3>1, <1>6
      <4>2. CASE i > m
        <5>1. i - m < j - m
          BY <4>2, <3>6, <1>8
        <5> QED
          BY <5>1, <3>1, <1>6
      <4> QED
        BY <1>6, <4>1, <4>2
    <3> QED
      BY <3>8, <3>9
  <2>3. j \in Nat
    BY DEF AtParts
  <2> QED
    BY <2>1, <2>2, <2>3
<1> QED
  BY <1>2, <1>5, <1>10, <1>11, <1>12, <1>13 DEF Named

LEMMA TakeShown ==
    ASSUME NEW page \in Pages, NEW q \in Seq(Frames), NEW t \in Seq(Frames),
           NEW all \in Seq(Frames), NEW m \in Nat, AtParts(all, q, t, m),
           NEW k \in Connections, NEW f \in Connections, NEW cv \in Conversations,
           f.player = k.player,
           FillsKinds(k, cv, t, f), FillsData(k, cv, t, f),
           Fresh(all) => Fresh(q) \/ ~k.detailed,
           k.detailed => (Fresh(all) <=> Fresh(q)),
           Shown(page, q, k, cv)
    PROVE  Shown(page, all, f, cv)
<1>1. \A d, i : i \in Hits(q, d) => i \in Hits(all, d) /\ all[i] = q[i]
  BY DEF Hits, AtParts
<1>2. \A d, i : i \in Hits(t, d) => m + i \in Hits(all, d) /\ all[m + i] = t[i]
  BY DEF Hits, AtParts
<1>3. \A d, i : i \in Hits(all, d) /\ i =< m => i \in Hits(q, d) /\ all[i] = q[i]
  BY DEF Hits, AtParts
<1>4. \A d, i : i \in Hits(all, d) /\ i > m => i - m \in Hits(t, d) /\ all[i] = t[i - m]
  BY DEF Hits, AtParts
<1>5. \A d, i : i \in Hits(all, d) => i \in Nat
  BY DEF Hits, AtParts
<1>6. \A d, i : i \in Hits(t, d) => /\ d \in k.dirty /\ d \notin f.dirty
                                    /\ t[i].value = cv.side[d]
                                    /\ k.player # None
  BY KindsInQueue DEF Hits, FillsData, FillsKinds, Streams
<1>7. \A d \in k.dirty : d \notin f.dirty => Hits(t, d) # {}
  BY DEF FillsData, Hits
<1>8. f.dirty \subseteq k.dirty /\ k.dirty \subseteq Data
  BY DEF FillsData, Connections
<1>9. k.player # None => \A d \in k.dirty : cv.side[d] # Unset
  BY <1>8 DEF Shown
<1>10. ASSUME NEW d \in Data, cv.side[d] = Unset
       PROVE  Hits(all, d) = {}
  <2>1. Hits(q, d) = {}
    BY <1>10 DEF Shown
  <2>2. Hits(t, d) = {}
    BY <1>6, <1>9, <1>10
  <2>3. SUFFICES ASSUME NEW i \in Hits(all, d) PROVE FALSE
    OBVIOUS
  <2>4. i \in Nat
    BY <1>5
  <2> QED
    BY <2>1, <2>2, <2>4, <1>3, <1>4
<1>11. ASSUME k.player # None, NEW d \in Data, ~f.detailed \/ Fresh(all), cv.side[d] # Unset
       PROVE  d \in f.dirty \/ Hits(all, d) # {}
  <2>1. ~k.detailed \/ Fresh(q)
    BY <1>11 DEF FillsKinds
  <2>2. d \in k.dirty \/ Hits(q, d) # {}
    BY <2>1, <1>11 DEF Shown
  <2>3. CASE d \in k.dirty
    BY <2>3, <1>2, <1>7
  <2>4. CASE Hits(q, d) # {}
    BY <2>4, <1>1
  <2> QED
    BY <2>2, <2>3, <2>4
<1>12. ASSUME k.player # None, NEW d \in Data, NEW i \in Hits(all, d),
              d \notin f.dirty, \A j \in Hits(all, d) : j =< i
       PROVE  all[i].value = cv.side[d]
  <2>1. i \in Nat
    BY <1>5
  <2>2. CASE i > m
    BY <2>2, <1>4, <1>6
  <2>3. CASE i =< m
    <3>1. \A j \in Hits(t, d) : FALSE
      <4>1. SUFFICES ASSUME NEW j \in Hits(t, d) PROVE FALSE
        OBVIOUS
      <4>2. m + j =< i /\ j \in Nat /\ 0 < j
        BY <1>2, <1>12 DEF Hits, AtParts
      <4> QED
        BY <4>2, <2>1, <2>3
    <3>2. d \notin k.dirty
      BY <3>1, <1>7, <1>12
    <3>3. i \in Hits(q, d) /\ all[i] = q[i]
      BY <2>3, <1>3
    <3>4. \A j \in Hits(q, d) : j =< i
      BY <1>1, <1>12
    <3> QED
      BY <3>2, <3>3, <3>4, <1>12 DEF Shown
  <2> QED
    BY <2>1, <2>2, <2>3
<1>13. ASSUME k.player # None, NEW d \in Data, d \notin f.dirty, Hits(all, d) = {},
              f.detailed, ~Fresh(all)
       PROVE  page.view[d] = cv.side[d]
  <2>1. At("details", t) = {}
    BY <1>13 DEF Fresh, AtParts
  <2>2. k.detailed
    BY <2>1, <1>13 DEF FillsKinds
  <2>3. ~Fresh(q)
    BY <2>2, <1>13
  <2>4. Hits(q, d) = {} /\ Hits(t, d) = {}
    BY <1>1, <1>2, <1>13
  <2>5. d \notin k.dirty
    BY <2>4, <1>7, <1>13
  <2> QED
    BY <2>2, <2>3, <2>4, <2>5, <1>13 DEF Shown
<1> QED
  BY <1>8, <1>9, <1>10, <1>11, <1>12, <1>13 DEF Shown

LEMMA LatestType ==
    ASSUME NEW page \in Pages
    PROVE  Latest(page) \in Nat
BY EmptySeq, LenProperties, ElementOfSeq DEF Latest, Pages

LEMMA TakeContinued ==
    ASSUME NEW page \in Pages, NEW q \in Seq(Frames), NEW t \in Seq(Frames),
           NEW all \in Seq(Frames), NEW m \in Nat, AtParts(all, q, t, m),
           NEW k \in Connections, NEW f \in Connections, NEW cv \in Conversations,
           f.player = k.player,
           FillsKinds(k, cv, t, f), FillsMessages(k, cv, t, f),
           \A p : Means(page, all, f, p) => Means(page, q, k, p),
           Introduced(page, q, k, cv), PageSound(page, cv),
           Continued(page, q, k, cv)
    PROVE  Continued(page, all, f, cv)
<1>1. SUFFICES ASSUME NEW p, Means(page, all, f, p)
               PROVE  Follows(page, all, f, cv, p)
  BY DEF Continued
<1>2. Means(page, q, k, p) /\ Follows(page, q, k, cv, p)
  BY <1>1 DEF Continued
<1>3. PICK l \in Nat : l = Latest(page)
  BY LatestType
<1>4. PICK kc \in Nat, fc \in Nat : kc = k.cursor /\ fc = f.cursor /\ kc =< fc
  BY DEF Connections, FillsMessages
<1>5. ASSUME NEW i \in At("message", t)
      PROVE  k.player = p /\ Streams(k, cv)
  <2>1. Streams(k, cv)
    BY KindsInQueue DEF FillsKinds
  <2>2. k.player # None
    BY <2>1 DEF Streams
  <2>3. Means(page, q, k, k.player)
    BY <2>2 DEF Means
  <2> QED
    BY <2>1, <2>3, <1>2 DEF Introduced
<1>6. \A i \in At("message", q) : i \in At("message", all) /\ all[i] = q[i]
  BY DEF AtParts
<1>7. \A i \in At("message", t) : m + i \in At("message", all) /\ all[m + i] = t[i]
  BY DEF AtParts
<1>8. \A i \in At("message", all) : i \in Nat
  BY DEF AtParts
<1>9. \A i \in At("message", all) : i =< m => i \in At("message", q) /\ all[i] = q[i]
  BY DEF AtParts
<1>10. \A i \in At("message", all) : i > m => i - m \in At("message", t) /\ all[i] = t[i - m]
  BY DEF AtParts
<1>11. \A i \in At("message", t) : t[i].num \in kc + 1 .. fc /\ Visible(cv, p, t[i].num)
  BY <1>4, <1>5 DEF FillsMessages
<1>12. \A i \in At("message", q) : q[i].num \in Nat
  BY KindsInQueue DEF Frames
<1>13. ASSUME k.player = p
       PROVE  /\ l =< kc
              /\ \A i \in At("message", q) : q[i].num =< kc
              /\ \A x \in l + 1 .. kc :
                     Visible(cv, p, x) => \E j \in At("message", q) : q[j].num = x
  BY <1>2, <1>3, <1>4, <1>13 DEF Follows
<1>14. ASSUME k.player = p, NEW x \in l + 1 .. fc, Visible(cv, p, x)
       PROVE  \E j \in At("message", all) : all[j].num = x
  <2>1. CASE x =< kc
    <3>1. x \in l + 1 .. kc
      BY <2>1
    <3>2. PICK j \in At("message", q) : q[j].num = x
      BY <3>1, <1>13, <1>14
    <3> QED
      BY <3>2, <1>6
  <2>2. CASE x > kc
    <3>1. x \in kc + 1 .. fc
      BY <2>2
    <3>2. Streams(k, cv)
      BY <3>1, <1>4 DEF FillsMessages
    <3>3. PICK j \in At("message", t) : t[j].num = x
      BY <3>1, <3>2, <1>4, <1>14 DEF FillsMessages
    <3> QED
      BY <3>3, <1>7
  <2> QED
    BY <2>1, <2>2
<1>15. ASSUME NEW i \in At("message", all), NEW j \in At("message", all), i < j
       PROVE  all[i].num < all[j].num
  <2>1. i \in Nat /\ j \in Nat
    BY <1>8
  <2>2. CASE j =< m
    <3>1. i \in At("message", q) /\ all[i] = q[i] /\ j \in At("message", q) /\ all[j] = q[j]
      BY <2>1, <2>2, <1>9, <1>15
    <3> QED
      BY <3>1, <1>2, <1>15 DEF Follows
  <2>3. CASE i =< m /\ j > m
    <3>1. i \in At("message", q) /\ all[i] = q[i]
      BY <2>3, <1>9
    <3>2. j - m \in At("message", t) /\ all[j] = t[j - m]
      BY <2>3, <1>10
    <3>3. q[i].num =< kc /\ q[i].num \in Nat
      BY <3>1, <3>2, <1>5, <1>12, <1>13
    <3>4. t[j - m].num \in kc + 1 .. fc
      BY <3>2, <1>11
    <3> QED
      BY <3>1, <3>2, <3>3, <3>4, SMTT(30)
  <2>4. CASE i > m
    <3>1. /\ i - m \in At("message", t) /\ all[i] = t[i - m]
          /\ j - m \in At("message", t) /\ all[j] = t[j - m]
          /\ i - m < j - m
      BY <2>1, <2>4, <1>10, <1>15
    <3> QED
      BY <3>1 DEF FillsMessages
  <2> QED
    BY <2>1, <2>2, <2>3, <2>4
<1>16. ASSUME NEW i \in At("message", all)
       PROVE  /\ all[i].num > l
              /\ Visible(cv, p, all[i].num)
              /\ \A x \in l + 1 .. all[i].num - 1 :
                     Visible(cv, p, x) => \E j \in At("message", all) : all[j].num = x
  <2>1. CASE i =< m
    <3>1. i \in At("message", q) /\ all[i] = q[i]
      BY <2>1, <1>9
    <3> QED
      BY <3>1, <1>2, <1>3, <1>6 DEF Follows
  <2>2. CASE i > m
    <3>1. PICK j \in At("message", t) : all[i] = t[j]
      BY <2>2, <1>10
    <3>2. PICK y \in Nat : y = all[i].num /\ y \in kc + 1 .. fc /\ Visible(cv, p, y)
      BY <3>1, <1>11
    <3>3. k.player = p /\ l =< kc
      BY <1>5, <1>13
    <3>4. ASSUME NEW x \in l + 1 .. y - 1, Visible(cv, p, x)
          PROVE  \E h \in At("message", all) : all[h].num = x
      <4>1. x \in l + 1 .. fc
        BY <3>2, SMTT(30)
      <4> QED
        BY <4>1, <3>3, <3>4, <1>14
    <3>5. y > l
      BY <3>2, <3>3
    <3> QED
      BY <3>2, <3>4, <3>5
  <2> QED
    BY <1>8, <2>1, <2>2
<1>17. ASSUME k.player = p
       PROVE  l =< fc /\ \A i \in At("message", all) : all[i].num =< fc
  <2>1. l =< fc
    BY <1>4, <1>13, <1>17
  <2>2. SUFFICES ASSUME NEW i \in At("message", all) PROVE all[i].num =< fc
    BY <2>1
  <2>3. CASE i =< m
    <3>1. i \in At("message", q) /\ all[i] = q[i]
      BY <2>3, <1>9
    <3>2. q[i].num =< kc /\ q[i].num \in Nat
      BY <3>1, <1>12, <1>13, <1>17
    <3> QED
      BY <3>1, <3>2, <1>4
  <2>4. CASE i > m
    <3>1. PICK j \in At("message", t) : all[i] = t[j]
      BY <2>4, <1>10
    <3>2. t[j].num \in kc + 1 .. fc
      BY <1>11
    <3> QED
      BY <3>1, <3>2
  <2> QED
    BY <1>8, <2>3, <2>4
<1> QED
  BY <1>3, <1>4, <1>14, <1>15, <1>16, <1>17 DEF Follows

LEMMA TakePiped ==
    ASSUME NEW page \in Pages, NEW q \in Seq(Frames), NEW t, NEW all, all = q \o t,
           NEW k \in Connections, NEW f, NEW cv \in Conversations, NEW h,
           Fills(k, cv, t, f), Recorded(cv), Piped(page, q, k, h, cv)
    PROVE  /\ Piped(page, all, f, h, cv)
           /\ \A p : Means(page, all, f, p) => Means(page, q, k, p)
           /\ PageSound(page, cv) /\ Continued(page, q, k, cv)
                  => Continued(page, all, f, cv)
<1>1. /\ t \in Seq(Frames) /\ f \in Connections
      /\ f.state = k.state /\ f.player = k.player
      /\ FillsKinds(k, cv, t, f) /\ FillsNames(k, cv, t, f)
      /\ FillsData(k, cv, t, f) /\ FillsMessages(k, cv, t, f)
  BY DEF Fills
<1>2. PICK m \in Nat : m = Len(q) /\ AtParts(all, q, t, m)
  BY <1>1, QueueParts
<1>3. all \in Seq(Frames)
  BY <1>1, ConcatProperties
<1>4. /\ FirstRequest(page, q, k, h) /\ Introduced(page, q, k, cv)
      /\ Named(page, q, k, cv) /\ Shown(page, q, k, cv)
  BY DEF Piped
<1>5. /\ Introduced(page, all, f, cv)
      /\ \A p : Means(page, all, f, p) => Means(page, q, k, p)
      /\ k.detailed => (Fresh(all) <=> Fresh(q))
      /\ Fresh(all) => Fresh(q) \/ ~k.detailed
  BY <1>1, <1>2, <1>3, <1>4, TakeIntroduced
<1>6. Named(page, all, f, cv)
  BY <1>1, <1>2, <1>3, <1>4, <1>5, TakeNamed
<1>7. Shown(page, all, f, cv)
  BY <1>1, <1>2, <1>3, <1>4, <1>5, TakeShown
<1>8. FirstRequest(page, all, f, h)
  <2>1. SUFFICES ASSUME h.kind # "none", k.state = "open"
                 PROVE  FirstRequest(page, all, f, h)
    BY <1>1 DEF FirstRequest
  <2>2. k.player = None /\ ~k.pong /\ k.named = 0 /\ q = << >>
    BY <2>1, <1>4 DEF FirstRequest
  <2>3. DOMAIN t = {}
    <3>1. \A i \in DOMAIN t : t[i].kind = "pong"
      BY <2>2 DEF FillsKinds, Streams, Fills
    <3>2. \A i \in DOMAIN t : i \in At("pong", t)
      BY <3>1 DEF At
    <3> QED
      BY <3>2, <2>2, <1>1 DEF FillsKinds
  <2>4. t = << >>
    BY <2>3, <1>1, EmptySeq
  <2>5. all = << >>
    BY <2>2, <2>4, <1>1, ConcatEmptySeq
  <2>6. f.named = 0
    <3>1. At("name", t) = {}
      BY <2>3 DEF At
    <3>2. f.named \in Nat /\ \A x \in 0 .. f.named - 1 : FALSE
      BY <1>1, <2>2, <3>1 DEF FillsNames, Connections
    <3>3. f.named > 0 => 0 \in 0 .. f.named - 1
      BY <3>2
    <3> QED
      BY <3>2, <3>3
  <2>7. ~f.pong
    BY <1>1, <2>2 DEF FillsKinds
  <2> QED
    BY <2>1, <2>2, <2>5, <2>6, <2>7, <1>1, <1>4 DEF FirstRequest
<1>9. PageSound(page, cv) /\ Continued(page, q, k, cv) => Continued(page, all, f, cv)
  BY <1>1, <1>2, <1>3, <1>4, <1>5, TakeContinued
<1> QED
  BY <1>5, <1>6, <1>7, <1>8, <1>9 DEF Piped

-----------------------------------------------------------------------------
(* What an event of the conversation leaves as it is.                       *)

Alike(k, l) ==
    /\ l.state = k.state /\ l.player = k.player /\ l.cursor = k.cursor
    /\ l.detailed = k.detailed /\ l.named = k.named

LEMMA UpdateAlike ==
    ASSUME NEW k \in Connections, NEW cv \in Conversations
    PROVE  /\ Alike(k, UpdatePollFlags(k, cv))
           /\ UpdatePollFlags(k, cv).buf = k.buf
           /\ UpdatePollFlags(k, cv).dirty = k.dirty
           /\ UpdatePollFlags(k, cv).pong = k.pong
<1>1. PICK ready \in BOOLEAN : ready = ReadyToWrite(k, cv)
  BY ReadyIsBoolean
<1>2. UpdatePollFlags(k, cv) = [k EXCEPT !.pollOut = ready]
  BY <1>1 DEF UpdatePollFlags
<1> QED
  BY <1>2 DEF Connections, Alike

LEMMA MeansAlike ==
    ASSUME NEW page, NEW q, NEW k, NEW l, Alike(k, l), NEW p
    PROVE  Means(page, q, l, p) <=> Means(page, q, k, p)
BY DEF Alike, Means

LEMMA AlikeShown ==
    ASSUME NEW page, NEW q, NEW k, NEW l, Alike(k, l), l.dirty = k.dirty,
           NEW cv, NEW cw, cw.side = cv.side, Shown(page, q, k, cv)
    PROVE  Shown(page, q, l, cw)
BY DEF Alike, Shown

(* A datum changes, and the connection is told.                             *)
LEMMA ChangedShown ==
    ASSUME NEW page, NEW q, NEW k \in Connections, NEW l, Alike(k, l),
           NEW d \in Data, NEW v \in Values,
           NEW cv \in Conversations, NEW cw, cw.side = [cv.side EXCEPT ![d] = v],
           k.player # None => l.dirty = k.dirty \cup {d},
           Shown(page, q, k, cv)
    PROVE  Shown(page, q, l, cw)
<1>1. cw.side[d] = v /\ v # Unset
  BY DataAssumption DEF Conversations
<1>2. \A e \in Data : e # d => cw.side[e] = cv.side[e]
  BY DEF Conversations
<1>3. \A e \in Data : cw.side[e] = Unset => Hits(q, e) = {}
  BY <1>1, <1>2 DEF Shown
<1>4. SUFFICES ASSUME k.player # None
               PROVE  Shown(page, q, l, cw)
  BY <1>3 DEF Shown, Alike
<1>5. d \in l.dirty /\ \A e \in Data : e # d => (e \in l.dirty <=> e \in k.dirty)
  BY <1>4
<1>6. ASSUME NEW e \in Data
      PROVE  /\ e \in l.dirty => cw.side[e] # Unset
             /\ (~l.detailed \/ Fresh(q)) /\ cw.side[e] # Unset
                    => e \in l.dirty \/ Hits(q, e) # {}
             /\ \A i \in Hits(q, e) :
                    e \notin l.dirty /\ (\A j \in Hits(q, e) : j =< i)
                        => q[i].value = cw.side[e]
             /\ e \notin l.dirty /\ Hits(q, e) = {} /\ l.detailed /\ ~Fresh(q)
                    => page.view[e] = cw.side[e]
  <2>1. CASE e = d
    BY <2>1, <1>1, <1>5
  <2>2. CASE e # d
    BY <2>2, <1>2, <1>4, <1>5 DEF Shown, Alike
  <2> QED
    BY <2>1, <2>2
<1> QED
  BY <1>3, <1>6 DEF Shown

LEMMA GrownPiped ==
    ASSUME NEW page \in Pages, NEW q \in Seq(Frames), NEW k \in Connections,
           NEW l \in Connections, Alike(k, l), NEW h, NEW i,
           i.kind = "none" \/ (i = h /\ l.pong = k.pong),
           NEW cv \in Conversations, NEW cw \in Conversations, Grows(cv, cw),
           Piped(page, q, k, h, cv), Shown(page, q, l, cw)
    PROVE  Piped(page, q, l, i, cw)
<1>1. /\ FirstRequest(page, q, k, h) /\ Introduced(page, q, k, cv)
      /\ Named(page, q, k, cv) /\ Shown(page, q, k, cv)
  BY DEF Piped
<1>2. /\ l.state = k.state /\ l.player = k.player /\ l.cursor = k.cursor
      /\ l.detailed = k.detailed /\ l.named = k.named
  BY DEF Alike
<1>3. /\ cv.n \in Nat /\ cw.n \in Nat /\ Len(cv.log) \in Nat /\ Len(cw.log) \in Nat
      /\ cv.n =< cw.n /\ Len(cv.log) =< Len(cw.log)
      /\ \A j \in 1 .. Len(cv.log) : cw.log[j] = cv.log[j]
  BY PlayerAssumption, LenProperties DEF Grows, Conversations
<1>4. FirstRequest(page, q, l, i)
  BY <1>1, <1>2 DEF FirstRequest
<1>5. Introduced(page, q, l, cw)
  <2>1. \A p : Means(page, q, l, p) <=> Means(page, q, k, p)
    BY MeansAlike
  <2>2. \A p : Means(page, q, l, p) => p \in 0 .. cw.n - 1
    BY <2>1, <1>1, <1>3 DEF Introduced
  <2>3. \A j \in At("message", q) : q[j].num \in 1 .. Len(cw.log)
    BY <1>1, <1>3 DEF Introduced
  <2>4. l.cursor =< Len(cw.log) /\ l.cursor \in Nat
    BY <1>1, <1>2, <1>3 DEF Introduced, Connections
  <2> QED
    BY <2>1, <2>2, <2>3, <2>4, <1>1, <1>2 DEF Introduced
<1>6. \A j \in At("message", q) : cw.log[q[j].num] = cv.log[q[j].num]
  BY <1>1, <1>3 DEF Introduced
<1>7. Named(page, q, l, cw)
  BY <1>1, <1>2, <1>6 DEF Named
<1> QED
  BY <1>4, <1>5, <1>7 DEF Piped

LEMMA GrownSound ==
    ASSUME NEW page \in Pages, NEW cv \in Conversations, NEW cw \in Conversations,
           Grows(cv, cw), PageSound(page, cv)
    PROVE  PageSound(page, cw)
<1>1. /\ cv.n \in Nat /\ cw.n \in Nat /\ Len(cv.log) \in Nat /\ Len(cw.log) \in Nat
      /\ cv.n =< cw.n /\ Len(cv.log) =< Len(cw.log)
      /\ \A j \in 1 .. Len(cv.log) : cw.log[j] = cv.log[j]
  BY PlayerAssumption, LenProperties DEF Grows, Conversations
<1>2. \A p : \A x \in 1 .. Len(cv.log) : Visible(cw, p, x) <=> Visible(cv, p, x)
  BY <1>1 DEF Visible
<1>3. CASE page.id = None
  BY <1>3 DEF PageSound
<1>4. CASE page.id # None
  <2>1. PICK l \in 0 .. Len(cv.log) : l = Latest(page)
    BY <1>4 DEF PageSound
  <2>2. /\ page.id < cv.n /\ page.id \in Int
        /\ l # 0 => Visible(cv, page.id, l)
        /\ page.got = Due(cv, page.id, 0, l)
    BY <1>4, <2>1, PlayerAssumption DEF PageSound, Pages, Players
  <2>3. Due(cw, page.id, 0, l) = Due(cv, page.id, 0, l)
    BY DueOfGrown
  <2>4. l \in 0 .. Len(cw.log) /\ page.id < cw.n
    BY <2>2, <1>1
  <2>5. l # 0 => Visible(cw, page.id, l)
    BY <2>2, <1>1, <1>2
  <2> QED
    BY <1>4, <2>1, <2>2, <2>3, <2>4, <2>5 DEF PageSound
<1> QED
  BY <1>3, <1>4

LEMMA GrownContinued ==
    ASSUME NEW page \in Pages, NEW q \in Seq(Frames), NEW k \in Connections,
           NEW l \in Connections, Alike(k, l),
           NEW cv \in Conversations, NEW cw \in Conversations, Grows(cv, cw),
           Introduced(page, q, k, cv), PageSound(page, cv), Continued(page, q, k, cv)
    PROVE  /\ PageSound(page, cw)
           /\ Continued(page, q, l, cw)
<1>1. /\ l.player = k.player /\ l.cursor = k.cursor
  BY DEF Alike
<1>2. /\ cv.n \in Nat /\ cw.n \in Nat /\ Len(cv.log) \in Nat /\ Len(cw.log) \in Nat
      /\ cv.n =< cw.n /\ Len(cv.log) =< Len(cw.log)
      /\ \A j \in 1 .. Len(cv.log) : cw.log[j] = cv.log[j]
  BY PlayerAssumption, LenProperties DEF Grows, Conversations
<1>3. \A p : \A x \in 1 .. Len(cv.log) : Visible(cw, p, x) <=> Visible(cv, p, x)
  BY <1>2 DEF Visible
<1>4. PageSound(page, cw)
  BY GrownSound
<1>5. ASSUME NEW p, Means(page, q, l, p)
      PROVE  Follows(page, q, l, cw, p)
  <2>1. Means(page, q, k, p) /\ Follows(page, q, k, cv, p)
    BY <1>5, MeansAlike DEF Continued
  <2>2. PICK l0 \in Nat : l0 = Latest(page)
    BY LatestType
  <2>3. \A i \in At("message", q) : q[i].num \in 1 .. Len(cv.log)
    BY DEF Introduced
  <2>4. k.cursor =< Len(cv.log) /\ k.cursor \in Nat
    BY DEF Introduced, Connections
  <2>5. ASSUME NEW i \in At("message", q),
               NEW x \in l0 + 1 .. q[i].num - 1, Visible(cw, p, x)
        PROVE  \E j \in At("message", q) : q[j].num = x
    <3>1. x \in 1 .. Len(cv.log)
      BY <2>3
    <3>2. Visible(cv, p, x)
      BY <3>1, <2>5, <1>3
    <3> QED
      BY <3>2, <2>1, <2>2 DEF Follows
  <2>6. ASSUME k.player = p, NEW x \in l0 + 1 .. k.cursor, Visible(cw, p, x)
        PROVE  \E j \in At("message", q) : q[j].num = x
    <3>1. x \in 1 .. Len(cv.log)
      BY <2>4, <1>2
    <3>2. Visible(cv, p, x)
      BY <3>1, <2>6, <1>3
    <3> QED
      BY <3>2, <2>1, <2>2, <2>6 DEF Follows
  <2>7. \A i \in At("message", q) : Visible(cw, p, q[i].num)
    BY <2>1, <2>3, <1>3 DEF Follows
  <2> QED
    BY <2>1, <2>2, <2>5, <2>6, <2>7, <1>1 DEF Follows
<1> QED
  BY <1>4, <1>5 DEF Continued

-----------------------------------------------------------------------------
(* The first request: nothing is on its way yet.                            *)

LEMMA NothingQueued ==
    /\ << >> \in Seq(Frames) /\ Len(<< >>) = 0
    /\ \A kind : At(kind, << >>) = {}
    /\ DOMAIN << >> = {}
    /\ ~Fresh(<< >>) /\ OnlyPongs(<< >>) /\ Bare(<< >>)
    /\ \A d : Hits(<< >>, d) = {}
<1>1. << >> \in Seq(Frames) /\ Len(<< >>) = 0 /\ DOMAIN << >> = {}
  BY EmptySeq
<1>2. \A kind : At(kind, << >>) = {}
  BY <1>1 DEF At
<1> QED
  BY <1>1, <1>2 DEF Fresh, OnlyPongs, Bare, Hits

LEMMA SetPlayerIs ==
    ASSUME NEW k \in Connections, NEW cv \in Conversations, NEW p \in 0 .. cv.n - 1,
           NEW count, NEW l, l = SetPlayer(k, cv, p, count)
    PROVE  /\ l \in Connections
           /\ l.state = k.state /\ l.player = p /\ ~l.detailed
           /\ l.cursor = SkipTo(cv, p, count) /\ l.dirty = AvailableData(cv)
           /\ l.named = k.named /\ l.pong = k.pong /\ l.buf = k.buf
<1>1. PICK at \in Nat, data \in SUBSET Data :
          at = SkipTo(cv, p, count) /\ data = AvailableData(cv)
  BY SkipToType DEF AvailableData
<1>2. PICK t : t = [k EXCEPT !.player = p, !.detailed = FALSE, !.cursor = at,
                             !.dirty = data]
  OBVIOUS
<1>3. l = UpdatePollFlags(t, cv)
  BY <1>1, <1>2 DEF SetPlayer
<1>4. p \in Players
  BY PlayerAssumption DEF Conversations, Players
<1>5. /\ t \in Connections
      /\ t.state = k.state /\ t.player = p /\ ~t.detailed /\ t.cursor = at
      /\ t.dirty = data /\ t.named = k.named /\ t.pong = k.pong /\ t.buf = k.buf
  BY <1>2, <1>4 DEF Connections
<1>6. /\ Alike(t, l) /\ l.dirty = t.dirty /\ l.buf = t.buf /\ l.pong = t.pong
      /\ l \in Connections
  BY <1>3, <1>5, UpdateAlike, UpdateProperties
<1> QED
  BY <1>1, <1>5, <1>6 DEF Alike

LEMMA SkipToIsInLog ==
    ASSUME NEW cv \in Conversations, NEW p, NEW count
    PROVE  SkipTo(cv, p, count) \in 0 .. Len(cv.log)
<1> DEFINE S == {h \in 0 .. Len(cv.log) : Len(Due(cv, p, 0, h)) >= count}
                    \cup {Len(cv.log)}
<1>1. Len(cv.log) \in Nat
  BY LenProperties DEF Conversations
<1>2. S \in SUBSET Nat /\ Len(cv.log) \in S
  BY <1>1
<1>3. Min(S) \in S
  BY <1>2, MinProperties
<1> QED
  BY <1>1, <1>3 DEF SkipTo

LEMMA JoinPiped ==
    ASSUME NEW page \in Pages, NEW k \in Connections, NEW h, NEW i,
           k.state = "open", h.kind # "none", i.kind = "none",
           NEW q, FirstRequest(page, q, k, h),
           NEW cv \in Conversations, NEW p \in 0 .. cv.n - 1, NEW count,
           page.id \in {None, p}, NEW l, l = SetPlayer(k, cv, p, count)
    PROVE  /\ Piped(page, q, l, i, cv)
           /\ \A r : Means(page, q, l, r) => r = p
<1>1. q = << >> /\ k.named = 0
  BY DEF FirstRequest
<1>2. /\ l.state = "open" /\ l.player = p /\ ~l.detailed
      /\ l.cursor = SkipTo(cv, p, count) /\ l.dirty = AvailableData(cv)
      /\ l.named = 0
  BY <1>1, SetPlayerIs
<1>3. cv.n \in Int /\ p # None /\ p \in 0 .. cv.n - 1
  BY PlayerAssumption DEF Conversations, None
<1>4. \A r : Means(page, q, l, r) => r = p
  BY <1>1, <1>2, NothingQueued DEF Means
<1>5. FirstRequest(page, q, l, i)
  BY DEF FirstRequest
<1>6. Introduced(page, q, l, cv)
  <2>1. l.cursor =< Len(cv.log)
    <3>1. Len(cv.log) \in Nat
      BY LenProperties DEF Conversations
    <3> QED
      BY <3>1, <1>2, SkipToIsInLog
  <2> QED
    BY <2>1, <1>1, <1>2, <1>3, <1>4, NothingQueued DEF Introduced
<1>7. Named(page, q, l, cv)
  BY <1>2 DEF Named
<1>8. Shown(page, q, l, cv)
  BY <1>1, <1>2, NothingQueued DEF Shown, AvailableData
<1> QED
  BY <1>4, <1>5, <1>6, <1>7, <1>8 DEF Piped

LEMMA ResumesFromLatest ==
    ASSUME NEW page \in Pages, NEW cv \in Conversations, PageSound(page, cv),
           NEW p, page.id \in {None, p}
    PROVE  SkipTo(cv, p, Len(page.got)) = Latest(page)
<1>1. CASE page.id = None
  <2>1. page.got = << >> /\ Latest(page) = 0
    BY <1>1 DEF PageSound, Latest
  <2>2. page.got = Due(cv, p, 0, 0)
    BY <2>1, DueNothing
  <2>3. 0 \in 0 .. Len(cv.log)
    BY LenProperties DEF Conversations
  <2>4. SkipTo(cv, p, Len(Due(cv, p, 0, 0))) = 0
    BY <2>3, SkipsWhatIsCounted
  <2> QED
    BY <2>1, <2>2, <2>4
<1>2. CASE page.id # None
  <2>1. PICK l \in 0 .. Len(cv.log) : l = Latest(page)
    BY <1>2 DEF PageSound
  <2>2. page.got = Due(cv, p, 0, l) /\ (l # 0 => Visible(cv, p, l))
    BY <1>2, <2>1 DEF PageSound
  <2>3. SkipTo(cv, p, Len(Due(cv, p, 0, l))) = l
    BY <2>2, SkipsWhatIsCounted
  <2> QED
    BY <2>1, <2>2, <2>3
<1> QED
  BY <1>1, <1>2

LEMMA JoinContinued ==
    ASSUME NEW page \in Pages, NEW k \in Connections, NEW h,
           k.state = "open", h.kind # "none",
           NEW q, FirstRequest(page, q, k, h),
           NEW cv \in Conversations, NEW p \in 0 .. cv.n - 1,
           page.id \in {None, p}, NEW l, l = SetPlayer(k, cv, p, Len(page.got)),
           PageSound(page, cv)
    PROVE  Continued(page, q, l, cv)
<1>1. q = << >>
  BY DEF FirstRequest
<1>2. l.cursor = Latest(page)
  BY SetPlayerIs, ResumesFromLatest
<1>3. \A x \in Latest(page) + 1 .. l.cursor : FALSE
  BY <1>2, LatestType
<1>4. Latest(page) =< l.cursor
  BY <1>2, LatestType
<1> QED
  BY <1>1, <1>3, <1>4, NothingQueued DEF Continued, Follows

(* A page has no more messages than the log.                                *)
LEMMA CountFits ==
    ASSUME NEW page \in Pages, NEW cv \in Conversations, PageSound(page, cv),
           Len(cv.log) < CountMod
    PROVE  Len(page.got) % CountMod = Len(page.got)
<1>1. Len(cv.log) \in Nat /\ CountMod \in Nat
  BY LenProperties, BufferAssumption DEF Conversations
<1>2. \A n \in Nat : n < CountMod => n % CountMod = n
  BY <1>1
<1>3. CASE page.id = None
  <2>1. page.got = << >> /\ Len(page.got) = 0
    BY <1>3, EmptySeq DEF PageSound
  <2>2. 0 < CountMod
    BY BufferAssumption
  <2> QED
    BY <2>1, <2>2, <1>2
<1>4. CASE page.id # None
  <2>1. PICK l \in Nat : l = Latest(page) /\ l =< Len(cv.log)
    BY <1>1, <1>4 DEF PageSound
  <2>2. page.got = Due(cv, page.id, 0, l)
    BY <1>4, <2>1 DEF PageSound
  <2>3. PICK V : V = VisibleFrom(cv, page.id, 0, l)
    OBVIOUS
  <2>4. IsFiniteSet(V) /\ V \subseteq 0 + 1 .. l
    BY <2>3, VisibleFinite DEF VisibleFrom
  <2>5. IsFiniteSet(0 + 1 .. l) /\ Cardinality(0 + 1 .. l) = IF 0 + 1 > l THEN 0 ELSE l - (0 + 1) + 1
    BY FS_Interval
  <2>6. Cardinality(V) =< Cardinality(0 + 1 .. l)
    BY <2>4, <2>5, FS_Subset
  <2>7. Len(page.got) = Cardinality(V)
    BY <2>2, <2>3, DueHas, ZenonT(60)
  <2>8. Len(page.got) \in Nat
    BY LenProperties DEF Pages
  <2>9. Len(page.got) =< l
    BY <2>5, <2>6, <2>7, <2>8
  <2> QED
    <3>1. PICK n \in Nat : n = Len(page.got)
      BY <2>8
    <3>2. n < CountMod
      BY <3>1, <2>1, <2>9, <1>1
    <3> QED
      BY <3>1, <3>2, <1>2
<1> QED
  BY <1>3, <1>4

(* A game that is not there.                                                *)
LEMMA RefusedPiped ==
    ASSUME NEW page \in Pages, NEW k \in Connections, NEW l \in Connections, Alike(k, l),
           NEW h, NEW i, k.state = "open", h.kind # "none", i.kind = "none",
           NEW q, FirstRequest(page, q, k, h), NEW r, r = <<NotFound>>,
           NEW cv \in Conversations, Introduced(page, q, k, cv)
    PROVE  /\ Piped(page, r, l, i, cv)
           /\ \A p : Means(page, r, l, p) => Means(page, q, k, p)
           /\ Continued(page, r, l, cv)
<1>1. k.player = None /\ l.player = None /\ l.state = "open"
  BY DEF FirstRequest, Alike
<1>2. r[1].kind = "notfound" /\ DOMAIN r = {1}
  BY DEF NotFound, Frame
<1>3. \A kind : kind # "notfound" => At(kind, r) = {}
  BY <1>2 DEF At
<1>4. Bare(r) /\ ~Fresh(r) /\ At("details", r) = {} /\ At("message", r) = {}
      /\ At("sideband", r) = {}
  BY <1>2, <1>3 DEF Bare, Fresh
<1>5. \A p : Means(page, r, l, p) => p # None /\ page.id = p
  BY <1>1, <1>4 DEF Means
<1>6. \A p : Means(page, r, l, p) => Means(page, q, k, p)
  BY <1>5 DEF Means
<1>7. FirstRequest(page, r, l, i) /\ Named(page, r, l, cv)
  BY <1>1 DEF FirstRequest, Named
<1>8. Introduced(page, r, l, cv)
  <2>1. \A p : Means(page, r, l, p) => p \in 0 .. cv.n - 1
    BY <1>6 DEF Introduced
  <2>2. \A p, s : Means(page, r, l, p) /\ Means(page, r, l, s) => p = s
    BY <1>5
  <2>3. l.cursor =< Len(cv.log)
    BY DEF Introduced, Alike
  <2> QED
    BY <2>1, <2>2, <2>3, <1>1, <1>4 DEF Introduced
<1>9. Shown(page, r, l, cv)
  BY <1>1, <1>4 DEF Shown, Hits
<1>10. Continued(page, r, l, cv)
  BY <1>1, <1>4, <1>5 DEF Continued, Follows
<1> QED
  BY <1>6, <1>7, <1>8, <1>9, <1>10 DEF Piped

(* A new socket, on which the page says who it is.                          *)
LEMMA ConnectPiped ==
    ASSUME NEW page \in Pages, NEW k, k = NewConnection, NEW l,
           l = [k EXCEPT !.state = "open"], NEW q, q = << >>,
           NEW cv \in Conversations, Known(page, cv), NEW i,
           i = IF page.id = None THEN NewHello
               ELSE Reconnect(page.id, Len(page.got) % CountMod)
    PROVE  /\ Piped(page, q, l, i, cv)
           /\ \A p : Means(page, q, l, p) => page.id = p
           /\ Continued(page, q, l, cv)
<1>1. /\ l.state = "open" /\ l.player = None /\ ~l.pong /\ l.named = 0
      /\ l.cursor = 0
  BY DEF NewConnection
<1>2. \A p : Means(page, q, l, p) => p # None /\ page.id = p
  BY <1>1, NothingQueued DEF Means
<1>3. FirstRequest(page, q, l, i)
  BY <1>1 DEF FirstRequest, NewHello, Reconnect
<1>4. Introduced(page, q, l, cv)
  <2>1. page.id # None => page.id \in 0 .. cv.n - 1
    BY PlayerAssumption DEF Known, Pages, Players, Conversations
  <2>2. l.cursor =< Len(cv.log)
    BY <1>1, LenProperties DEF Conversations
  <2> QED
    BY <2>1, <2>2, <1>1, <1>2, NothingQueued DEF Introduced
<1>5. Named(page, q, l, cv) /\ Shown(page, q, l, cv)
  BY <1>1, NothingQueued DEF Named, Shown
<1>6. Continued(page, q, l, cv)
  BY <1>1, <1>2, NothingQueued DEF Continued, Follows
<1> QED
  BY <1>2, <1>3, <1>4, <1>5, <1>6 DEF Piped

-----------------------------------------------------------------------------
(* The server closes the connection: what it has not sent is lost.          *)

LEMMA ClosedPiped ==
    ASSUME NEW page \in Pages, NEW q, NEW w \in Seq(Frames), NEW b \in Seq(Frames),
           q = w \o b, NEW k \in Connections, NEW h, NEW i, NEW cv \in Conversations,
           NEW l, l.state = "closed", l.player = None, l.cursor = 0,
           Piped(page, q, k, h, cv)
    PROVE  /\ Piped(page, w, l, i, cv)
           /\ \A p : Means(page, w, l, p) => Means(page, q, k, p)
           /\ Continued(page, q, k, cv) => Continued(page, w, l, cv)
<1>1. /\ l.state = "closed" /\ l.player = None /\ l.cursor = 0
  OBVIOUS
<1>2. PICK m \in Nat : AtParts(q, w, b, m)
  BY QueueParts
<1>3. /\ \A kind : \A j \in At(kind, w) :
             j \in At(kind, q) /\ q[j] = w[j] /\ j \in Nat /\ 0 < j /\ j =< m
      /\ \A kind : \A j \in At(kind, q) : j \in Nat /\ (j =< m => j \in At(kind, w))
      /\ \A j \in DOMAIN w : j \in DOMAIN q /\ q[j] = w[j] /\ j \in Nat /\ j =< m
  BY <1>2 DEF AtParts
<1>4. /\ Introduced(page, q, k, cv) /\ Shown(page, q, k, cv)
  BY DEF Piped
<1>5. \A p : Means(page, w, l, p) => Means(page, q, k, p)
  BY <1>1, <1>3 DEF Means
<1>6. FirstRequest(page, w, l, i) /\ Named(page, w, l, cv)
  BY <1>1 DEF FirstRequest, Named
<1>7. ASSUME page.id = None, ~Fresh(w)
      PROVE  Bare(w)
  <2>1. CASE Fresh(q)
    <3>1. PICK j \in At("details", q) : TRUE
      BY <2>1 DEF Fresh
    <3>2. j \notin At("details", w) /\ j \in Nat
      BY <1>3, <1>7 DEF Fresh
    <3>3. j > m
      BY <3>2, <1>3
    <3>4. \A e \in DOMAIN w : q[e].kind = "pong"
      BY <3>2, <3>3, <1>3, <1>4 DEF Introduced
    <3> QED
      BY <3>4, <1>3 DEF Bare
  <2>2. CASE ~Fresh(q)
    <3>1. Bare(q)
      BY <2>2, <1>4, <1>7 DEF Introduced
    <3> QED
      BY <3>1, <1>3 DEF Bare
  <2> QED
    BY <2>1, <2>2
<1>8. Introduced(page, w, l, cv)
  <2>1. \A p : Means(page, w, l, p) => p \in 0 .. cv.n - 1
    BY <1>4, <1>5 DEF Introduced
  <2>2. \A p, s : Means(page, w, l, p) /\ Means(page, w, l, s) => p = s
    BY <1>4, <1>5 DEF Introduced
  <2>3. \A e \in At("details", w) : \A j \in DOMAIN w : j < e => w[j].kind = "pong"
    BY <1>3, <1>4 DEF Introduced
  <2>4. \A e \in At("message", w) : w[e].num \in 1 .. Len(cv.log)
    BY <1>3, <1>4 DEF Introduced
  <2>5. l.cursor =< Len(cv.log)
    BY <1>1, LenProperties DEF Conversations
  <2> QED
    BY <2>1, <2>2, <2>3, <2>4, <2>5, <1>1, <1>7 DEF Introduced
<1>9. Shown(page, w, l, cv)
  <2>1. \A d, e : e \in Hits(w, d) => e \in Hits(q, d)
    BY <1>3 DEF Hits
  <2> QED
    BY <2>1, <1>1, <1>4 DEF Shown
<1>10. ASSUME Continued(page, q, k, cv)
       PROVE  Continued(page, w, l, cv)
  <2>1. SUFFICES ASSUME NEW p, Means(page, w, l, p)
                 PROVE  Follows(page, w, l, cv, p)
    BY DEF Continued
  <2>2. Follows(page, q, k, cv, p) /\ p # None
    BY <2>1, <1>5, <1>10 DEF Continued, Means
  <2>3. \A e, j \in At("message", w) : e < j => w[e].num < w[j].num
    BY <2>2, <1>3 DEF Follows
  <2>4. \A e \in At("message", w) : w[e].num > Latest(page) /\ Visible(cv, p, w[e].num)
    BY <2>2, <1>3 DEF Follows
  <2>5. ASSUME NEW e \in At("message", w),
               NEW x \in Latest(page) + 1 .. w[e].num - 1, Visible(cv, p, x)
        PROVE  \E j \in At("message", w) : w[j].num = x
    <3>a. w[e] \in Frames /\ w[e].num \in Nat
      BY KindsInQueue DEF Frames
    <3>b. e \in At("message", q) /\ q[e] = w[e]
      BY <1>3
    <3>1. PICK y \in Nat : y = q[e].num /\ y = w[e].num
      BY <3>a, <3>b
    <3>c. \A a, c \in At("message", q) : a < c => q[a].num < q[c].num
      BY <2>2 DEF Follows
    <3>2. x \in Latest(page) + 1 .. y - 1
      BY <3>1
    <3>3. PICK j \in At("message", q) : q[j].num = x
      BY <3>1, <3>2, <3>b, <2>2, <2>5 DEF Follows
    <3>4. j =< e
      <4>1. j \in Nat /\ e \in Nat
        BY <3>b, <1>3
      <4>2. x \in Int /\ x < y
        BY <3>2, LatestType
      <4>3. e < j => y < x
        BY <3>1, <3>3, <3>b, <3>c
      <4> QED
        BY <4>1, <4>2, <4>3
    <3>5. e =< m
      BY <1>3
    <3>6. j =< m
      BY <3>4, <3>5, <3>b, <1>3
    <3>7. j \in At("message", w) /\ w[j] = q[j]
      BY <3>6, <1>3
    <3> QED
      BY <3>3, <3>7
  <2> QED
    BY <2>2, <2>3, <2>4, <2>5, <1>1 DEF Follows
<1> QED
  BY <1>5, <1>6, <1>8, <1>9, <1>10 DEF Piped

-----------------------------------------------------------------------------
(* The page reads a frame.                                                  *)

(* The frames r are those of q after the first one, x.                      *)
Shifted(q, x, r) ==
    /\ x \in Frames /\ x = q[1] /\ 1 \in At(x.kind, q) /\ 1 \in DOMAIN q
    /\ \A kind : \A j \in At(kind, r) :
           1 + j \in At(kind, q) /\ q[1 + j] = r[j] /\ j \in Nat /\ 0 < j
    /\ \A kind : \A i \in At(kind, q) :
           /\ i \in Nat /\ 0 < i
           /\ i > 1 => i - 1 \in At(kind, r) /\ q[i] = r[i - 1]
           /\ i =< 1 => i = 1 /\ kind = x.kind
    /\ \A j \in DOMAIN r : 1 + j \in DOMAIN q /\ q[1 + j] = r[j] /\ j \in Nat /\ 0 < j

LEMMA TailIsShifted ==
    ASSUME NEW q \in Seq(Frames), q # << >>
    PROVE  /\ Tail(q) \in Seq(Frames)
           /\ Shifted(q, Head(q), Tail(q))
<1>1. PICK n \in Nat : n = Len(q)
  BY LenProperties
<1>2. n > 0
  BY <1>1, EmptySeq
<1>3. /\ Head(q) \in Frames /\ Head(q) = q[1]
      /\ Tail(q) \in Seq(Frames) /\ Len(Tail(q)) = n - 1
      /\ \A i \in 1 .. n - 1 : Tail(q)[i] = q[i + 1]
  BY <1>1, <1>2, HeadTailProperties, ElementOfSeq
<1>4. DOMAIN q = 1 .. n /\ DOMAIN Tail(q) = 1 .. n - 1
  BY <1>1, <1>3, LenProperties
<1>5. 1 \in DOMAIN q /\ 1 \in At(Head(q).kind, q)
  BY <1>2, <1>3, <1>4 DEF At
<1>6. ASSUME NEW j \in 1 .. n - 1
      PROVE  1 + j \in DOMAIN q /\ q[1 + j] = Tail(q)[j] /\ j \in Nat /\ 0 < j
  <2>1. 1 + j = j + 1 /\ 1 + j \in 1 .. n /\ j \in Nat /\ 0 < j
    BY <1>6
  <2> QED
    BY <2>1, <1>3, <1>4
<1>7. ASSUME NEW i \in DOMAIN q
      PROVE  /\ i \in Nat /\ 0 < i
             /\ i > 1 => i - 1 \in DOMAIN Tail(q) /\ q[i] = Tail(q)[i - 1]
             /\ i =< 1 => i = 1
  <2>1. i \in 1 .. n
    BY <1>4
  <2>2. i > 1 => i - 1 \in 1 .. n - 1 /\ 1 + (i - 1) = i
    BY <2>1
  <2>3. i > 1 => q[i] = Tail(q)[i - 1]
    BY <2>2, <1>6
  <2> QED
    BY <2>1, <2>2, <2>3, <1>4
<1>8. \A kind : \A j \in At(kind, Tail(q)) :
          1 + j \in At(kind, q) /\ q[1 + j] = Tail(q)[j] /\ j \in Nat /\ 0 < j
  BY <1>4, <1>6 DEF At
<1>9. \A kind : \A i \in At(kind, q) :
          /\ i \in Nat /\ 0 < i
          /\ i > 1 => i - 1 \in At(kind, Tail(q)) /\ q[i] = Tail(q)[i - 1]
          /\ i =< 1 => i = 1 /\ kind = Head(q).kind
  BY <1>3, <1>7 DEF At
<1> QED
  BY <1>3, <1>4, <1>5, <1>6, <1>8, <1>9 DEF Shifted

(* A frame that is not a pong comes after the details.                      *)
LEMMA NotFreshAfter ==
    ASSUME NEW page, NEW q, NEW k, NEW cv, NEW x, NEW r, Shifted(q, x, r),
           Introduced(page, q, k, cv), x.kind # "pong"
    PROVE  /\ ~Fresh(r)
           /\ x.kind # "details" => ~Fresh(q)
<1>1. ASSUME NEW i \in At("details", q), i # 1
      PROVE  FALSE
  <2>1. i \in Nat /\ 1 < i
    BY <1>1 DEF Shifted
  <2> QED
    BY <2>1 DEF Introduced, Shifted
<1>2. ASSUME Fresh(r) PROVE FALSE
  <2>1. PICK j \in At("details", r) : TRUE
    BY <1>2 DEF Fresh
  <2>2. 1 + j \in At("details", q) /\ j \in Nat /\ 0 < j
    BY DEF Shifted
  <2> QED
    BY <2>2, <1>1
<1>3. ASSUME x.kind # "details", Fresh(q) PROVE FALSE
  <2>1. PICK i \in At("details", q) : TRUE
    BY <1>3 DEF Fresh
  <2>2. i = 1
    BY <1>1
  <2> QED
    BY <2>2, <1>3 DEF Shifted
<1> QED
  BY <1>2, <1>3

LEMMA SameFreshness ==
    ASSUME NEW q, NEW x, NEW r, Shifted(q, x, r), x.kind # "details"
    PROVE  Fresh(q) <=> Fresh(r)
<1>1. ASSUME NEW i \in At("details", q) PROVE Fresh(r)
  <2>1. i \in Nat /\ (i > 1 => i - 1 \in At("details", r))
    BY DEF Shifted
  <2>2. i =< 1 => x.kind = "details"
    BY DEF Shifted
  <2> QED
    BY <2>1, <2>2 DEF Fresh
<1>2. ASSUME NEW j \in At("details", r) PROVE Fresh(q)
  BY DEF Shifted, Fresh
<1> QED
  BY <1>1, <1>2 DEF Fresh

(* What the frame x makes of the page, which becomes g.                     *)
Reads(page, x, g) ==
    /\ g.sock = page.sock
    /\ x.kind = "details" =>
           /\ g.id = x.num /\ g.names = 0 /\ g.got = page.got
           /\ \A d \in Data : g.view[d] = Unset
    /\ x.kind # "details" => g.id = page.id
    /\ x.kind = "name" => g.names = x.num + 1 /\ g.got = page.got
    /\ x.kind = "message" => g.got = Append(page.got, x.num) /\ g.names = page.names
    /\ x.kind \notin {"details", "name"} => g.names = page.names
    /\ x.kind # "message" => g.got = page.got
    /\ x.kind \notin {"details", "sideband"} => g.view = page.view
    /\ x.kind = "sideband" =>
           \A d \in Data : g.view[d] = IF d = x.num THEN x.value ELSE page.view[d]

LEMMA HandledReads ==
    ASSUME NEW page \in Pages, NEW x \in Frames, x.kind # "notfound",
           NEW g, g = Handled(page, x)
    PROVE  g \in Pages /\ Reads(page, x, g)
<1>1. x.num \in Nat /\ x.value \in Values \cup {Unset} /\ x.kind \in FrameKinds
      /\ (x.kind = "details" => x.num \in Players)
  BY DEF Frames
<1>2. /\ page.view \in [Data -> Values \cup {Unset}] /\ page.got \in Seq(Nat)
      /\ page.names \in Nat /\ page.id \in Players \cup {None}
  BY DEF Pages
<1>3. CASE x.kind = "details"
  <2>1. PICK v \in [Data -> Values \cup {Unset}] : v = [d \in Data |-> Unset]
    OBVIOUS
  <2>2. g = [page EXCEPT !.id = x.num, !.names = 0, !.view = [d \in Data |-> Unset]]
    BY <1>3 DEF Handled
  <2>a. PICK n \in Players : n = x.num
    BY <1>1, <1>3
  <2>3. g = [page EXCEPT !.id = n, !.names = 0, !.view = v]
    BY <2>1, <2>2, <2>a, Zenon
  <2>4. /\ g \in Pages /\ g.sock = page.sock
        /\ g.id = n /\ g.names = 0 /\ g.got = page.got /\ g.view = v
    BY ONLY <2>3, page \in Pages, n \in Players,
            v \in [Data -> Values \cup {Unset}] DEF Pages
  <2> QED
    BY <1>3, <2>1, <2>a, <2>4 DEF Reads
<1>4. CASE x.kind = "name"
  <2>a. PICK n \in Nat : n = x.num + 1
    BY <1>1
  <2>1. g = [page EXCEPT !.names = n]
    BY <1>4, <2>a DEF Handled
  <2>2. /\ g \in Pages /\ g.sock = page.sock /\ g.id = page.id
        /\ g.names = n /\ g.got = page.got /\ g.view = page.view
    BY ONLY <2>1, page \in Pages, n \in Nat DEF Pages
  <2> QED
    BY <1>4, <2>a, <2>2 DEF Reads
<1>5. CASE x.kind = "sideband"
  <2>1. PICK v : v = [page.view EXCEPT ![x.num] = x.value]
    OBVIOUS
  <2>2. v \in [Data -> Values \cup {Unset}]
    BY <1>1, <1>2, <2>1
  <2>3. g = [page EXCEPT !.view = v]
    BY <1>5, <2>1 DEF Handled, Pages
  <2> QED
    BY <1>1, <1>2, <1>5, <2>1, <2>2, <2>3 DEF Pages, Reads
<1>6. CASE x.kind = "message"
  <2>1. PICK s \in Seq(Nat) : s = Append(page.got, x.num)
    BY <1>1, <1>2, AppendProperties
  <2>2. g = [page EXCEPT !.got = s]
    BY <1>6, <2>1 DEF Handled, Pages
  <2> QED
    BY <1>1, <1>2, <1>6, <2>1, <2>2 DEF Pages, Reads
<1>7. CASE x.kind = "pong"
  <2>1. g = page
    BY <1>7 DEF Handled
  <2> QED
    BY <1>1, <1>2, <1>7, <2>1 DEF Reads
<1> QED
  BY <1>1, <1>3, <1>4, <1>5, <1>6, <1>7 DEF FrameKinds

LEMMA ReadIntroduced ==
    ASSUME NEW page \in Pages, NEW x, NEW g \in Pages, Reads(page, x, g),
           NEW q \in Seq(Frames), NEW r \in Seq(Frames), Shifted(q, x, r),
           NEW k \in Connections, NEW cv \in Conversations,
           Introduced(page, q, k, cv)
    PROVE  /\ Introduced(g, r, k, cv)
           /\ \A p : Means(g, r, k, p) => Means(page, q, k, p)
<1>1. x.kind = "details" => Means(page, q, k, x.num) /\ g.id # None
  BY PlayerAssumption DEF Shifted, Reads, Means, Frames, Players, None
<1>2. ASSUME NEW p, Means(g, r, k, p) PROVE Means(page, q, k, p)
  <2>1. g.id = p => page.id = p \/ (x.kind = "details" /\ x.num = p)
    BY DEF Reads
  <2>2. \A i \in At("details", r) : 1 + i \in At("details", q) /\ q[1 + i] = r[i]
    BY DEF Shifted
  <2> QED
    BY <1>1, <1>2, <2>1, <2>2 DEF Means
<1>3. x.kind # "details" => (Fresh(q) <=> Fresh(r))
  BY SameFreshness
<1>4. \A j \in DOMAIN r : 1 + j \in DOMAIN q /\ q[1 + j] = r[j] /\ j \in Nat
  BY DEF Shifted
<1>5. Bare(q) => Bare(r)
  BY <1>4 DEF Bare
<1>6. OnlyPongs(q) => OnlyPongs(r)
  BY <1>4 DEF OnlyPongs
<1>7. g.id = None => page.id = None /\ x.kind # "details"
  BY <1>1 DEF Reads
<1>8. ASSUME NEW i \in At("details", r), NEW j \in DOMAIN r, j < i
      PROVE  r[j].kind = "pong"
  <2>1. 1 + i \in At("details", q) /\ i \in Nat
    BY DEF Shifted
  <2>2. 1 + j \in DOMAIN q /\ q[1 + j] = r[j] /\ 1 + j < 1 + i
    BY <2>1, <1>4, <1>8
  <2> QED
    BY <2>1, <2>2 DEF Introduced
<1>9. \A i \in At("message", r) : r[i].num \in 1 .. Len(cv.log)
  BY DEF Shifted, Introduced
<1>10. /\ \A p : Means(g, r, k, p) => p \in 0 .. cv.n - 1
       /\ \A p, s : Means(g, r, k, p) /\ Means(g, r, k, s) => p = s
  BY <1>2 DEF Introduced
<1> QED
  BY <1>2, <1>3, <1>5, <1>6, <1>7, <1>8, <1>9, <1>10 DEF Introduced

LEMMA ReadNamed ==
    ASSUME NEW page \in Pages, NEW x, NEW g \in Pages, Reads(page, x, g),
           x.kind # "notfound",
           NEW q \in Seq(Frames), NEW r \in Seq(Frames), Shifted(q, x, r),
           NEW k \in Connections, NEW cv \in Conversations,
           Introduced(page, q, k, cv), Named(page, q, k, cv)
    PROVE  Named(g, r, k, cv)
<1>1. SUFFICES ASSUME k.player # None, k.detailed
               PROVE  Named(g, r, k, cv)
  BY DEF Named
<1>2. PICK b \in Nat, c \in Nat, n \in Nat : b = Base(page, q) /\ c = Base(g, r) /\ n = k.named
  BY DEF Base, Pages, Connections
<1>3. /\ b =< n
      /\ \A i, j \in At("name", q) : i < j => q[i].num < q[j].num
      /\ \A i \in At("name", q) : q[i].num \in b .. n - 1
      /\ \A y \in b .. n - 1 : \E i \in At("name", q) : q[i].num = y
      /\ \A j \in At("message", q) :
             \A y \in b .. cv.log[q[j].num].joined - 1 :
                 \E i \in At("name", q) : i < j /\ q[i].num = y
  BY <1>1, <1>2 DEF Named
<1>4. /\ \A i \in At("name", r) :
             1 + i \in At("name", q) /\ q[1 + i] = r[i] /\ i \in Nat /\ 0 < i
      /\ \A i \in At("name", q) :
             i \in Nat /\ (i > 1 => i - 1 \in At("name", r) /\ q[i] = r[i - 1])
      /\ \A i \in At("name", q) : i =< 1 => i = 1 /\ x.kind = "name"
  BY DEF Shifted
<1>5. x.kind # "pong" => ~Fresh(r) /\ (x.kind # "details" => ~Fresh(q))
  BY NotFreshAfter
<1>6. CASE x.kind # "name"
  <2>1. c = b
    <3>1. CASE x.kind = "details"
      <4>1. Fresh(q)
        BY <3>1 DEF Shifted, Fresh
      <4>2. b = 0
        BY <4>1, <1>2 DEF Base
      <4>3. ~Fresh(r)
        BY <3>1, <1>5
      <4>4. g.names = 0
        BY <3>1 DEF Reads
      <4> QED
        BY <4>2, <4>3, <4>4, <1>2 DEF Base
    <3>2. CASE x.kind = "pong"
      <4>1. Fresh(q) <=> Fresh(r)
        BY <3>2, SameFreshness
      <4>2. g.names = page.names
        BY <3>2 DEF Reads
      <4>3. CASE Fresh(q)
        BY <4>1, <4>3, <1>2 DEF Base
      <4>4. CASE ~Fresh(q)
        BY <4>1, <4>2, <4>4, <1>2 DEF Base
      <4> QED
        BY <4>3, <4>4
    <3>3. CASE x.kind \notin {"details", "pong"}
      BY <3>3, <1>2, <1>5, <1>6 DEF Base, Reads
    <3> QED
      BY <3>1, <3>2, <3>3
  <2>2. ASSUME NEW i \in At("name", q) PROVE i > 1
    <3>1. i \in Nat
      BY <1>4
    <3>2. i =< 1 => x.kind = "name"
      BY <1>4
    <3> QED
      BY <3>1, <3>2, <1>6
  <2>3. \A y \in c .. n - 1 : \E i \in At("name", r) : r[i].num = y
    <3>1. SUFFICES ASSUME NEW y \in c .. n - 1
                   PROVE  \E i \in At("name", r) : r[i].num = y
      OBVIOUS
    <3>2. PICK i \in At("name", q) : q[i].num = y
      BY <2>1, <1>3
    <3> QED
      BY <2>2, <3>2, <1>4
  <2>4. \A i \in At("name", r) : r[i].num \in c .. n - 1
    BY <2>1, <1>3, <1>4
  <2> QED
    <3>1. ASSUME NEW i \in At("name", r), NEW j \in At("name", r), i < j
          PROVE  r[i].num < r[j].num
      <4>1. 1 + i < 1 + j
        BY <3>1, <1>4
      <4> QED
        BY <4>1, <1>3, <1>4, ZenonT(30)
    <3>2. ASSUME NEW j \in At("message", r), NEW y \in c .. cv.log[r[j].num].joined - 1
          PROVE  \E i \in At("name", r) : i < j /\ r[i].num = y
      <4>1. 1 + j \in At("message", q) /\ q[1 + j] = r[j] /\ j \in Nat
        BY DEF Shifted
      <4>2. PICK i \in At("name", q) : i < 1 + j /\ q[i].num = y
        BY <4>1, <2>1, <1>3, <3>2
      <4>3. i - 1 \in At("name", r) /\ q[i] = r[i - 1] /\ i - 1 < j
        BY <4>1, <4>2, <2>2, <1>4
      <4> QED
        BY <4>2, <4>3
    <3> QED
      BY <2>1, <2>3, <2>4, <3>1, <3>2, <1>2, <1>3 DEF Named
<1>7. CASE x.kind = "name"
  <2>1. 1 \in At("name", q) /\ q[1] = x /\ q[1].num \in b .. n - 1
    BY <1>3, <1>7 DEF Shifted
  <2>2. PICK e \in At("name", q) : q[e].num = b
    <3>1. b \in b .. n - 1
      BY <2>1
    <3> QED
      BY <3>1, <1>3
  <2>3. x.num = b
    <3>1. e > 1 => q[1].num < b
      BY <2>1, <2>2, <1>3
    <3>2. e =< 1 => e = 1
      BY <1>4
    <3>3. e \in Nat
      BY <1>4
    <3> QED
      BY <2>1, <2>2, <3>1, <3>2, <3>3
  <2>4. c = b + 1
    BY <2>3, <1>2, <1>5, <1>7 DEF Base, Reads
  <2>5. \A i \in At("name", q) : i > 1 => q[i].num > b
    BY <2>1, <2>3, <1>3
  <2>6. \A i \in At("name", r) : r[i].num \in c .. n - 1
    <3>1. SUFFICES ASSUME NEW i \in At("name", r) PROVE r[i].num \in c .. n - 1
      OBVIOUS
    <3>2. 1 + i \in At("name", q) /\ q[1 + i] = r[i] /\ 1 + i > 1
      BY <1>4
    <3>3. PICK y \in b .. n - 1 : y = r[i].num /\ y > b
      BY <3>2, <2>5, <1>3
    <3> QED
      BY <3>3, <2>4
  <2>7. ASSUME NEW i \in At("name", q), NEW y \in c .. n - 1, q[i].num = y
        PROVE  i > 1
    <3>1. i =< 1 => q[i].num = b
      BY <2>3, <1>4, <2>1
    <3>2. i \in Nat /\ y # b
      BY <2>4, <1>4
    <3> QED
      BY <3>1, <3>2, <2>7
  <2>8. ASSUME NEW y \in c .. n - 1
        PROVE  \E i \in At("name", r) : r[i].num = y
    <3>1. y \in b .. n - 1
      BY <2>4
    <3>2. PICK i \in At("name", q) : q[i].num = y
      BY <3>1, <1>3
    <3>3. i > 1
      BY <3>2, <2>7
    <3> QED
      BY <3>2, <3>3, <1>4
  <2>9. ASSUME NEW i \in At("name", r), NEW j \in At("name", r), i < j
        PROVE  r[i].num < r[j].num
    <3>1. 1 + i < 1 + j
      BY <2>9, <1>4
    <3> QED
      BY <3>1, <1>3, <1>4, ZenonT(60)
  <2>10. ASSUME NEW j \in At("message", r), NEW y \in c .. cv.log[r[j].num].joined - 1
         PROVE  \E i \in At("name", r) : i < j /\ r[i].num = y
    <3>1. 1 + j \in At("message", q) /\ q[1 + j] = r[j] /\ j \in Nat
      BY DEF Shifted
    <3>2. y \in b .. cv.log[q[1 + j].num].joined - 1
      <4>1. 1 + j \in DOMAIN q /\ q[1 + j].num \in 1 .. Len(cv.log)
        BY <3>1, KindsInQueue DEF Introduced
      <4>2. cv.log[q[1 + j].num] \in LogEntries
        BY <4>1, ElementOfSeq DEF Conversations
      <4>3. cv.log[q[1 + j].num].joined \in Nat
        BY <4>2 DEF LogEntries
      <4> QED
        BY <4>3, <3>1, <2>4
    <3>3. PICK i \in At("name", q) : i < 1 + j /\ q[i].num = y
      BY <3>1, <3>2, <1>3
    <3>4. q[i].num \in b .. n - 1 /\ y # b /\ y \in Int
      BY <3>2, <2>4, <1>3
    <3>5. y \in c .. n - 1
      BY <3>3, <3>4, <3>2, <2>4
    <3>6. i > 1
      BY <3>3, <3>5, <2>7
    <3>7. i - 1 \in At("name", r) /\ q[i] = r[i - 1] /\ i - 1 < j
      BY <3>1, <3>3, <3>6, <1>4
    <3> QED
      BY <3>3, <3>7
  <2>11. c =< n
    BY <2>1, <2>4
  <2> QED
    BY <2>6, <2>8, <2>9, <2>10, <2>11, <1>2 DEF Named
<1> QED
  BY <1>6, <1>7

LEMMA HitsAreShifted ==
    ASSUME NEW q, NEW x, NEW r, Shifted(q, x, r), NEW d
    PROVE  /\ \A j \in Hits(r, d) : 1 + j \in Hits(q, d) /\ q[1 + j] = r[j] /\ j \in Nat
           /\ \A i \in Hits(q, d) :
                  /\ i \in Nat
                  /\ i > 1 => i - 1 \in Hits(r, d)
                  /\ i =< 1 => i = 1 /\ x.kind = "sideband" /\ x.num = d
           /\ x.kind = "sideband" /\ x.num = d => 1 \in Hits(q, d)
           /\ q[1] = x
<1>1. ASSUME NEW j \in Hits(r, d)
      PROVE  1 + j \in Hits(q, d) /\ q[1 + j] = r[j] /\ j \in Nat
  <2>1. j \in At("sideband", r) /\ r[j].num = d
    BY DEF Hits
  <2>2. 1 + j \in At("sideband", q) /\ q[1 + j] = r[j] /\ j \in Nat
    BY <2>1 DEF Shifted
  <2> QED
    BY <2>1, <2>2 DEF Hits
<1>2. ASSUME NEW i \in Hits(q, d)
      PROVE  /\ i \in Nat
             /\ i > 1 => i - 1 \in Hits(r, d)
             /\ i =< 1 => i = 1 /\ x.kind = "sideband" /\ x.num = d
  <2>1. i \in At("sideband", q) /\ q[i].num = d
    BY DEF Hits
  <2>2. /\ i \in Nat
        /\ i > 1 => i - 1 \in At("sideband", r) /\ q[i] = r[i - 1]
        /\ i =< 1 => i = 1 /\ "sideband" = x.kind
        /\ x = q[1]
    BY <2>1 DEF Shifted
  <2> QED
    BY <2>1, <2>2 DEF Hits
<1>3. x.kind = "sideband" /\ x.num = d => 1 \in Hits(q, d)
  BY DEF Hits, Shifted
<1> QED
  BY <1>1, <1>2, <1>3 DEF Shifted

LEMMA ReadShown ==
    ASSUME NEW page \in Pages, NEW x, NEW g \in Pages, Reads(page, x, g),
           NEW q \in Seq(Frames), NEW r \in Seq(Frames), Shifted(q, x, r),
           NEW k \in Connections, NEW cv \in Conversations,
           Introduced(page, q, k, cv), Shown(page, q, k, cv)
    PROVE  Shown(g, r, k, cv)
<1>1. ASSUME NEW d \in Data, cv.side[d] = Unset
      PROVE  Hits(r, d) = {}
  <2>1. Hits(q, d) = {}
    BY <1>1 DEF Shown
  <2> QED
    BY <2>1, HitsAreShifted
<1>2. SUFFICES ASSUME k.player # None, NEW d \in Data
               PROVE  /\ d \in k.dirty => cv.side[d] # Unset
                      /\ (~k.detailed \/ Fresh(r)) /\ cv.side[d] # Unset
                             => d \in k.dirty \/ Hits(r, d) # {}
                      /\ \A i \in Hits(r, d) :
                             d \notin k.dirty /\ (\A j \in Hits(r, d) : j =< i)
                                 => r[i].value = cv.side[d]
                      /\ d \notin k.dirty /\ Hits(r, d) = {} /\ k.detailed /\ ~Fresh(r)
                             => g.view[d] = cv.side[d]
  BY <1>1 DEF Shown
<1>3. /\ d \in k.dirty => cv.side[d] # Unset
      /\ (~k.detailed \/ Fresh(q)) /\ cv.side[d] # Unset
             => d \in k.dirty \/ Hits(q, d) # {}
      /\ \A i \in Hits(q, d) :
             d \notin k.dirty /\ (\A j \in Hits(q, d) : j =< i)
                 => q[i].value = cv.side[d]
      /\ d \notin k.dirty /\ Hits(q, d) = {} /\ k.detailed /\ ~Fresh(q)
             => page.view[d] = cv.side[d]
  BY <1>2 DEF Shown
<1>4. /\ \A j \in Hits(r, d) : 1 + j \in Hits(q, d) /\ q[1 + j] = r[j] /\ j \in Nat
      /\ \A i \in Hits(q, d) :
             /\ i \in Nat
             /\ i > 1 => i - 1 \in Hits(r, d)
             /\ i =< 1 => i = 1 /\ x.kind = "sideband" /\ x.num = d
      /\ x.kind = "sideband" /\ x.num = d => 1 \in Hits(q, d)
      /\ q[1] = x
  BY HitsAreShifted
<1>5. ASSUME ~k.detailed \/ Fresh(r), cv.side[d] # Unset, d \notin k.dirty
      PROVE  Hits(r, d) # {}
  <2>1. x.kind = "pong"
    <3>1. CASE Fresh(r)
      BY <3>1, NotFreshAfter
    <3>2. CASE ~k.detailed
      <4>1. OnlyPongs(q)
        BY <3>2, <1>2 DEF Introduced
      <4> QED
        BY <4>1 DEF OnlyPongs, Shifted
    <3> QED
      BY <3>1, <3>2, <1>5
  <2>2. Fresh(q) <=> Fresh(r)
    BY <2>1, SameFreshness
  <2>3. PICK i \in Hits(q, d) : TRUE
    BY <2>2, <1>5, <1>3
  <2>4. i \in Nat /\ ~(i =< 1) /\ (i > 1 => i - 1 \in Hits(r, d))
    BY <2>1, <1>4
  <2> QED
    BY <2>4
<1>6. ASSUME NEW i \in Hits(r, d), d \notin k.dirty, \A j \in Hits(r, d) : j =< i
      PROVE  r[i].value = cv.side[d]
  <2>1. 1 + i \in Hits(q, d) /\ q[1 + i] = r[i] /\ i \in Nat
    BY <1>4
  <2>2. ASSUME NEW j \in Hits(q, d) PROVE j =< 1 + i
    <3>1. j \in Nat /\ (j > 1 => j - 1 \in Hits(r, d))
      BY <1>4
    <3>2. j > 1 => j - 1 =< i
      BY <3>1, <1>6
    <3> QED
      BY <2>1, <3>1, <3>2
  <2> QED
    BY <2>1, <2>2, <1>3, <1>6
<1>7. ASSUME d \notin k.dirty, Hits(r, d) = {}, k.detailed, ~Fresh(r)
      PROVE  g.view[d] = cv.side[d]
  <2>1. CASE Hits(q, d) = {}
    <3>1. ~(x.kind = "sideband" /\ x.num = d)
      BY <2>1, <1>4
    <3>2. CASE x.kind = "details"
      <4>1. Fresh(q)
        BY <3>2 DEF Shifted, Fresh
      <4>2. cv.side[d] = Unset
        BY <4>1, <2>1, <1>3, <1>7
      <4> QED
        BY <3>2, <4>2 DEF Reads
    <3>3. CASE x.kind # "details"
      <4>1. ~Fresh(q)
        BY <3>3, <1>7, SameFreshness
      <4>2. page.view[d] = cv.side[d]
        BY <4>1, <2>1, <1>3, <1>7
      <4>3. g.view[d] = page.view[d]
        BY <3>1, <3>3 DEF Reads
      <4> QED
        BY <4>2, <4>3
    <3> QED
      BY <3>2, <3>3
  <2>2. CASE Hits(q, d) # {}
    <3>1. ASSUME NEW i \in Hits(q, d) PROVE i = 1
      <4>1. i \in Nat /\ ~(i > 1) /\ (i =< 1 => i = 1)
        BY <1>4, <1>7
      <4> QED
        BY <4>1
    <3>2. 1 \in Hits(q, d) /\ x.kind = "sideband" /\ x.num = d
      <4>1. PICK i \in Hits(q, d) : TRUE
        BY <2>2
      <4>2. i = 1
        BY <3>1
      <4> QED
        BY <4>2, <1>4
    <3>3. x.value = cv.side[d]
      <4>1. \A j \in Hits(q, d) : j =< 1
        BY <3>1
      <4> QED
        BY <4>1, <3>2, <1>3, <1>4, <1>7
    <3> QED
      BY <3>2, <3>3 DEF Reads
  <2> QED
    BY <2>1, <2>2
<1> QED
  BY <1>3, <1>5, <1>6, <1>7

LEMMA ReadKnown ==
    ASSUME NEW page \in Pages, NEW x, NEW g \in Pages, Reads(page, x, g),
           NEW q \in Seq(Frames), NEW r \in Seq(Frames), Shifted(q, x, r),
           NEW k \in Connections, NEW cv \in Conversations,
           Introduced(page, q, k, cv), Shown(page, q, k, cv), Known(page, cv)
    PROVE  Known(g, cv)
<1>1. ASSUME NEW d \in Data, cv.side[d] = Unset
      PROVE  g.view[d] = Unset
  <2>1. Hits(q, d) = {} /\ page.view[d] = Unset
    BY <1>1 DEF Shown, Known, ViewSound
  <2>2. ~(x.kind = "sideband" /\ x.num = d)
    BY <2>1, HitsAreShifted
  <2> QED
    BY <2>1, <2>2 DEF Reads
<1>2. ASSUME g.id # None PROVE g.id < cv.n
  <2>1. CASE x.kind = "details"
    <3>1. x.num \in Players /\ 1 \in At("details", q) /\ q[1] = x
      BY <2>1 DEF Shifted, Frames
    <3>2. Means(page, q, k, x.num)
      BY <3>1 DEF Means, Players, None
    <3>3. x.num \in 0 .. cv.n - 1
      BY <3>2 DEF Introduced
    <3>4. cv.n \in Nat
      BY DEF Conversations
    <3> QED
      BY <2>1, <3>3, <3>4 DEF Reads
  <2>2. CASE x.kind # "details"
    BY <2>2, <1>2 DEF Reads, Known
  <2> QED
    BY <2>1, <2>2
<1> QED
  BY <1>1, <1>2 DEF Known, ViewSound

(* What follows stays the same, but for the frame that was read.            *)
LEMMA ReadPiped ==
    ASSUME NEW page \in Pages, NEW x \in Frames, x.kind # "notfound",
           NEW g, g = Handled(page, x),
           NEW q \in Seq(Frames), NEW r \in Seq(Frames), Shifted(q, x, r),
           NEW k \in Connections, NEW cv \in Conversations, NEW h,
           Piped(page, q, k, h, cv), Known(page, cv)
    PROVE  /\ Piped(g, r, k, h, cv)
           /\ Known(g, cv)
           /\ \A p : Means(g, r, k, p) => Means(page, q, k, p)
<1>1. g \in Pages /\ Reads(page, x, g)
  BY HandledReads
<1>2. q # << >>
  BY DEF Shifted
<1>3. FirstRequest(g, r, k, h)
  BY <1>2 DEF Piped, FirstRequest
<1>4. /\ Introduced(g, r, k, cv)
      /\ \A p : Means(g, r, k, p) => Means(page, q, k, p)
  BY <1>1, ReadIntroduced DEF Piped
<1>5. Named(g, r, k, cv)
  BY <1>1, ReadNamed DEF Piped
<1>6. Shown(g, r, k, cv)
  BY <1>1, ReadShown DEF Piped
<1>7. Known(g, cv)
  BY <1>1, ReadKnown DEF Piped
<1> QED
  BY <1>3, <1>4, <1>5, <1>6, <1>7 DEF Piped

(* A message that the page reads is the next one of its player.             *)
LEMMA HeadIsNext ==
    ASSUME NEW page \in Pages, NEW x, x.kind = "message",
           NEW q \in Seq(Frames), NEW r \in Seq(Frames), Shifted(q, x, r),
           NEW k \in Connections, NEW cv \in Conversations,
           Introduced(page, q, k, cv), PageSound(page, cv), Continued(page, q, k, cv)
    PROVE  /\ page.id # None /\ page.id < cv.n
           /\ Latest(page) \in Nat /\ x.num \in Latest(page) + 1 .. Len(cv.log)
           /\ Visible(cv, page.id, x.num)
           /\ \A z \in Latest(page) + 1 .. x.num - 1 : ~Visible(cv, page.id, z)
<1>1. /\ 1 \in At("message", q) /\ 1 \in DOMAIN q /\ q[1] = x
  BY DEF Shifted
<1>2. page.id # None /\ page.id < cv.n
  <2>1. ~Bare(q)
    BY <1>1 DEF Bare
  <2>2. ~Fresh(q)
    BY NotFreshAfter
  <2> QED
    BY <2>1, <2>2 DEF Introduced, PageSound
<1>3. PICK p \in Int : p = page.id
  BY PlayerAssumption DEF Pages, Players, None
<1>4. PICK lo \in Nat : lo = Latest(page)
  BY LatestType
<1>5. PICK y \in Nat : y = x.num /\ y \in 1 .. Len(cv.log)
  <2>1. q[1].num \in 1 .. Len(cv.log)
    BY <1>1 DEF Introduced
  <2> QED
    BY <1>1, <2>1
<1>6. Follows(page, q, k, cv, p)
  BY <1>2, <1>3 DEF Continued, Means
<1>7. lo < y /\ Visible(cv, p, y)
  BY <1>1, <1>4, <1>5, <1>6 DEF Follows
<1>8. ASSUME NEW z \in lo + 1 .. y - 1, Visible(cv, p, z)
      PROVE  FALSE
  <2>1. \A i, j \in At("message", q) : i < j => q[i].num < q[j].num
    BY <1>6 DEF Follows
  <2>2. \A i \in At("message", q) :
            \A v \in Latest(page) + 1 .. q[i].num - 1 :
                Visible(cv, p, v) => \E j \in At("message", q) : q[j].num = v
    BY <1>6 DEF Follows
  <2>3. PICK j \in At("message", q) : q[j].num = z
    BY <1>1, <1>4, <1>5, <1>8, <2>2
  <2>4. j \in Nat /\ (j =< 1 => j = 1)
    BY DEF Shifted
  <2>5. 1 < j => y < z
    BY <1>1, <1>5, <2>1, <2>3
  <2>6. j = 1 => z = y
    BY <1>1, <1>5, <2>3
  <2> QED
    BY <1>8, <2>4, <2>5, <2>6
<1> QED
  BY <1>2, <1>3, <1>4, <1>5, <1>7, <1>8

LEMMA ReadSound ==
    ASSUME NEW page \in Pages, NEW x, NEW g \in Pages, Reads(page, x, g),
           NEW q \in Seq(Frames), NEW r \in Seq(Frames), Shifted(q, x, r),
           NEW k \in Connections, NEW cv \in Conversations,
           Introduced(page, q, k, cv), PageSound(page, cv), Continued(page, q, k, cv)
    PROVE  /\ PageSound(g, cv)
           /\ x.kind = "message" => Latest(g) = x.num
           /\ x.kind # "message" => Latest(g) = Latest(page)
<1>1. x.kind # "message" => Latest(g) = Latest(page)
  BY DEF Reads, Latest
<1>2. CASE x.kind = "message"
  <2>2. page.id # None /\ page.id < cv.n
    BY <1>2, HeadIsNext
  <2>3. PICK p \in Int : p = page.id
    BY PlayerAssumption DEF Pages, Players, None
  <2>4. PICK lo \in Nat : lo = Latest(page)
    BY LatestType
  <2>5. PICK y \in Nat : y = x.num
    BY DEF Shifted, Frames
  <2>7. lo < y /\ y \in 1 .. Len(cv.log) /\ Visible(cv, p, y)
    <3>1. x.num \in Latest(page) + 1 .. Len(cv.log) /\ Visible(cv, page.id, x.num)
      BY <1>2, HeadIsNext
    <3> QED
      BY <3>1, <2>3, <2>4, <2>5
  <2>8. ASSUME NEW z \in lo + 1 .. y - 1, Visible(cv, p, z)
        PROVE  FALSE
    <3>1. \A v \in Latest(page) + 1 .. x.num - 1 : ~Visible(cv, page.id, v)
      BY <1>2, HeadIsNext
    <3> QED
      BY <3>1, <2>3, <2>4, <2>5, <2>8
  <2>9. Append(Due(cv, p, 0, lo), y) = Due(cv, p, 0, y)
    BY <2>7, <2>8, DueNext
  <2>10. g.got = Due(cv, p, 0, y) /\ g.got = Append(page.got, y)
    BY <2>2, <2>3, <2>4, <2>5, <2>9, <1>2 DEF Reads, PageSound
  <2>11. Latest(g) = y
    <3>1. page.got \in Seq(Nat) /\ Len(page.got) \in Nat
      BY LenProperties DEF Pages
    <3>2. /\ Len(g.got) = Len(page.got) + 1
          /\ g.got[Len(page.got) + 1] = y
      BY <2>10, <3>1, AppendProperties
    <3>3. g.got # << >>
      BY <3>1, <3>2, EmptySeq
    <3> QED
      BY <3>2, <3>3 DEF Latest
  <2>12. g.id = p
    BY <1>2, <2>3 DEF Reads
  <2> QED
    BY <1>2, <2>2, <2>3, <2>5, <2>7, <2>10, <2>11, <2>12 DEF PageSound
<1>3. CASE x.kind = "details"
  <2>1. /\ g.id = x.num /\ x.num # None /\ g.got = page.got
        /\ x.num \in 0 .. cv.n - 1
        /\ page.id \in {None, x.num}
    <3>1. x.num \in Players /\ 1 \in At("details", q) /\ q[1] = x
      BY <1>3 DEF Shifted, Frames
    <3>2. Means(page, q, k, x.num) /\ x.num # None
      BY <3>1 DEF Means, Players, None
    <3>3. page.id # None => Means(page, q, k, page.id)
      BY DEF Means
    <3>4. page.id # None => page.id = x.num
      BY <3>2, <3>3 DEF Introduced
    <3>5. x.num \in 0 .. cv.n - 1
      BY <3>2 DEF Introduced
    <3> QED
      BY <1>3, <3>2, <3>4, <3>5 DEF Reads
  <2>2. CASE page.id = None
    <3>1. page.got = << >> /\ Latest(page) = 0 /\ Latest(g) = 0
      BY <2>1, <2>2 DEF PageSound, Latest
    <3>2. cv.n \in Nat /\ Len(cv.log) \in Nat
      BY LenProperties DEF Conversations
    <3> QED
      BY <1>3, <2>1, <3>1, <3>2, DueNothing DEF PageSound
  <2>3. CASE page.id = x.num
    BY <1>1, <1>3, <2>1, <2>3 DEF PageSound
  <2> QED
    BY <2>1, <2>2, <2>3
<1>4. CASE x.kind \notin {"details", "message"}
  BY <1>1, <1>4 DEF Reads, PageSound
<1> QED
  BY <1>1, <1>2, <1>3, <1>4

LEMMA ReadContinued ==
    ASSUME NEW page \in Pages, NEW x \in Frames, x.kind # "notfound",
           NEW g, g = Handled(page, x),
           NEW q \in Seq(Frames), NEW r \in Seq(Frames), Shifted(q, x, r),
           NEW k \in Connections, NEW cv \in Conversations, NEW h,
           Piped(page, q, k, h, cv), Known(page, cv),
           PageSound(page, cv), Continued(page, q, k, cv)
    PROVE  /\ PageSound(g, cv)
           /\ Continued(g, r, k, cv)
<1>1. g \in Pages /\ Reads(page, x, g)
  BY HandledReads
<1>2. Introduced(page, q, k, cv)
  BY DEF Piped
<1>3. /\ PageSound(g, cv)
      /\ x.kind = "message" => Latest(g) = x.num
      /\ x.kind # "message" => Latest(g) = Latest(page)
  BY <1>1, <1>2, ReadSound
<1>4. \A p : Means(g, r, k, p) => Means(page, q, k, p)
  BY ReadPiped
<1>5. SUFFICES ASSUME NEW p, Follows(page, q, k, cv, p)
               PROVE  Follows(g, r, k, cv, p)
  BY <1>3, <1>4 DEF Continued
<1>6. PICK lo \in Nat, l \in Nat, h1 \in Nat :
          lo = Latest(page) /\ l = Latest(g) /\ h1 = k.cursor
  BY <1>1, LatestType DEF Connections
<1>7. /\ \A i, j \in At("message", q) : i < j => q[i].num < q[j].num
      /\ \A i \in At("message", q) :
             /\ q[i].num > lo
             /\ Visible(cv, p, q[i].num)
             /\ \A y \in lo + 1 .. q[i].num - 1 :
                    Visible(cv, p, y) => \E j \in At("message", q) : q[j].num = y
      /\ k.player = p =>
             /\ lo =< h1
             /\ \A i \in At("message", q) : q[i].num =< h1
             /\ \A y \in lo + 1 .. h1 :
                    Visible(cv, p, y) => \E j \in At("message", q) : q[j].num = y
  BY <1>5, <1>6 DEF Follows
<1>8. /\ \A i \in At("message", r) :
             1 + i \in At("message", q) /\ q[1 + i] = r[i] /\ i \in Nat /\ 0 < i
      /\ \A i \in At("message", q) :
             i \in Nat /\ (i > 1 => i - 1 \in At("message", r) /\ q[i] = r[i - 1])
      /\ \A i \in At("message", q) : i =< 1 => i = 1 /\ x.kind = "message"
      /\ x.kind = "message" => 1 \in At("message", q) /\ q[1] = x
  BY DEF Shifted
<1>9. \A i \in At("message", q) : q[i].num \in Nat
  BY <1>2 DEF Introduced
<1>10. ASSUME NEW i \in At("message", r), NEW j \in At("message", r), i < j
       PROVE  r[i].num < r[j].num
  <2>1. 1 + i < 1 + j
    BY <1>8, <1>10
  <2> QED
    BY <2>1, <1>7, <1>8, SMTT(30)
<1>11. /\ lo =< l
       /\ \A i \in At("message", r) : r[i].num > l
       /\ k.player = p => l =< h1
  <2>1. CASE x.kind = "message"
    <3>1. l = x.num /\ 1 \in At("message", q) /\ q[1] = x /\ x.num > lo
      BY <2>1, <1>3, <1>6, <1>7, <1>8
    <3>2. ASSUME NEW i \in At("message", r) PROVE r[i].num > l
      <4>1. 1 + i \in At("message", q) /\ q[1 + i] = r[i] /\ 1 < 1 + i
        BY <1>8
      <4>2. q[1].num < q[1 + i].num
        BY <3>1, <4>1, <1>7
      <4> QED
        BY <3>1, <4>1, <4>2, <1>9
    <3> QED
      BY <3>1, <3>2, <1>7
  <2>2. CASE x.kind # "message"
    <3>1. l = lo
      BY <2>2, <1>3, <1>6
    <3> QED
      BY <3>1, <1>7, <1>8
  <2> QED
    BY <2>1, <2>2
<1>12. ASSUME NEW y \in Nat, l < y, NEW j \in At("message", q), q[j].num = y
       PROVE  \E i \in At("message", r) : r[i].num = y
  <2>1. j > 1
    <3>1. j \in Nat /\ (j =< 1 => j = 1 /\ x.kind = "message")
      BY <1>8
    <3>2. j =< 1 => y = l
      BY <3>1, <1>3, <1>6, <1>8, <1>12
    <3> QED
      BY <3>1, <3>2, <1>12
  <2>2. j - 1 \in At("message", r) /\ q[j] = r[j - 1]
    BY <2>1, <1>8
  <2> QED
    BY <2>2, <1>12
<1>13. ASSUME NEW i \in At("message", r)
       PROVE  /\ Visible(cv, p, r[i].num)
              /\ \A y \in l + 1 .. r[i].num - 1 :
                     Visible(cv, p, y) => \E j \in At("message", r) : r[j].num = y
  <2>1. 1 + i \in At("message", q) /\ q[1 + i] = r[i]
    BY <1>8
  <2>2. PICK n \in Nat : n = r[i].num
    BY <2>1, <1>9
  <2>3. ASSUME NEW y \in l + 1 .. n - 1, Visible(cv, p, y)
        PROVE  \E j \in At("message", r) : r[j].num = y
    <3>1. y \in lo + 1 .. n - 1 /\ y \in Nat /\ l < y
      BY <1>11
    <3>2. PICK j \in At("message", q) : q[j].num = y
      BY <2>1, <2>2, <2>3, <3>1, <1>7
    <3> QED
      BY <3>1, <3>2, <1>12
  <2>4. Visible(cv, p, r[i].num)
    BY <2>1, <1>7
  <2> QED
    BY <2>2, <2>3, <2>4
<1>14. ASSUME k.player = p
       PROVE  /\ \A i \in At("message", r) : r[i].num =< h1
              /\ \A y \in l + 1 .. h1 :
                     Visible(cv, p, y) => \E j \in At("message", r) : r[j].num = y
  <2>1. ASSUME NEW y \in l + 1 .. h1, Visible(cv, p, y)
        PROVE  \E j \in At("message", r) : r[j].num = y
    <3>1. y \in lo + 1 .. h1 /\ y \in Nat /\ l < y
      BY <1>11
    <3>2. PICK j \in At("message", q) : q[j].num = y
      BY <2>1, <3>1, <1>7, <1>14
    <3> QED
      BY <3>1, <3>2, <1>12
  <2>2. \A i \in At("message", r) : r[i].num =< h1
    BY <1>7, <1>8, <1>14
  <2> QED
    BY <2>1, <2>2
<1> QED
  BY <1>6, <1>10, <1>11, <1>13, <1>14 DEF Follows

-----------------------------------------------------------------------------
(* What a step does to the conversation.                                    *)

(* At most one message is queued.                                           *)
Moves(cv, cw) ==
    /\ cv.n =< cw.n
    /\ \/ cw.log = cv.log
       \/ \E e \in LogEntries : e.joined =< cw.n /\ cw.log = Append(cv.log, e)

LEMMA MovesGrow ==
    ASSUME NEW cv \in Conversations, NEW cw \in Conversations, Moves(cv, cw)
    PROVE  /\ Grows(cv, cw)
           /\ Recorded(cv) => Recorded(cw)
<1>1. /\ cv.n \in Nat /\ cw.n \in Nat /\ cv.n =< cw.n
      /\ cv.log \in Seq(LogEntries) /\ Len(cv.log) \in Nat
  BY PlayerAssumption, LenProperties DEF Moves, Conversations
<1>2. \A i \in 1 .. Len(cv.log) : cv.log[i].joined \in Nat
  <2>1. \A i \in 1 .. Len(cv.log) : cv.log[i] \in LogEntries
    BY <1>1, ElementOfSeq
  <2> QED
    BY <2>1 DEF LogEntries
<1>3. CASE cw.log = cv.log
  BY <1>1, <1>2, <1>3 DEF Grows, Recorded
<1>4. ASSUME NEW e \in LogEntries, e.joined =< cw.n, cw.log = Append(cv.log, e)
      PROVE  Grows(cv, cw) /\ (Recorded(cv) => Recorded(cw))
  <2>1. /\ Len(cw.log) = Len(cv.log) + 1
        /\ \A i \in 1 .. Len(cv.log) : cw.log[i] = cv.log[i]
        /\ cw.log[Len(cv.log) + 1] = e
    BY <1>1, <1>4, AppendProperties
  <2>2. Grows(cv, cw)
    BY <2>1, <1>1 DEF Grows
  <2>3. ASSUME Recorded(cv), NEW i \in 1 .. Len(cw.log)
        PROVE  cw.log[i].joined =< cw.n
    <3>1. CASE i \in 1 .. Len(cv.log)
      <4>1. cw.log[i].joined = cv.log[i].joined
        BY <3>1, <2>1
      <4>2. cv.log[i].joined =< cv.n /\ cv.log[i].joined \in Nat
        BY <3>1, <2>3, <1>2 DEF Recorded
      <4> QED
        BY <4>1, <4>2, <1>1
    <3>2. CASE i = Len(cv.log) + 1
      BY <3>2, <2>1, <1>4
    <3> QED
      BY <3>1, <3>2, <2>1, <1>1
  <2> QED
    BY <2>2, <2>3 DEF Recorded
<1> QED
  BY <1>3, <1>4 DEF Moves

LEMMA QueueAppends ==
    ASSUME NEW cv \in Conversations, NEW to \in Players \cup {None},
           NEW from \in Players \cup {None}, NEW size \in Nat,
           NEW q, q = QueueMessage(cv, to, from, size)
    PROVE  \E e \in LogEntries : e.joined =< cv.n /\ q.log = Append(cv.log, e)
<1>1. PICK e : e = [to |-> to, from |-> from, size |-> size, joined |-> cv.n]
  OBVIOUS
<1>2. cv.n \in Nat
  BY PlayerAssumption DEF Conversations
<1>3. e \in LogEntries /\ e.joined =< cv.n
  BY <1>1, <1>2 DEF LogEntries
<1>4. q.log = Append(cv.log, e)
  BY <1>1 DEF QueueMessage, Conversations
<1> QED
  BY <1>3, <1>4

LEMMA QueueMoves ==
    ASSUME NEW cv \in Conversations, NEW to \in Players \cup {None},
           NEW from \in Players \cup {None}, NEW size \in Nat,
           NEW q, q = QueueMessage(cv, to, from, size)
    PROVE  /\ q \in Conversations /\ Moves(cv, q)
           /\ q.n = cv.n /\ q.side = cv.side
<1>1. q \in Conversations /\ q = [cv EXCEPT !.log = q.log]
  BY QueueMessageType
<1>2. q.n = cv.n /\ q.side = cv.side
  BY <1>1 DEF Conversations
<1>3. \E e \in LogEntries : e.joined =< cv.n /\ q.log = Append(cv.log, e)
  BY QueueAppends
<1>4. cv.n \in Nat
  BY PlayerAssumption DEF Conversations
<1> QED
  BY <1>1, <1>2, <1>3, <1>4 DEF Moves

LEMMA AnnounceMoves ==
    ASSUME NEW cv \in Conversations, NEW q, q = QueueMessage(cv, None, None, 1)
    PROVE  /\ q \in Conversations /\ Moves(cv, q)
           /\ q.n = cv.n /\ q.side = cv.side
<1>1. PICK to \in Players \cup {None}, size \in Nat : to = None /\ size = 1
  OBVIOUS
<1>2. q = QueueMessage(cv, to, to, size)
  BY <1>1
<1> QED
  BY <1>2, QueueMoves

LEMMA RemoveMoves ==
    ASSUME NEW cv \in Conversations, NEW r, r = RemovePlayer(cv)
    PROVE  Moves(cv, r) /\ r.n = cv.n /\ r.side = cv.side
<1>1. PICK q : q = QueueMessage(cv, None, None, 1)
  OBVIOUS
<1>2. /\ q \in Conversations /\ Moves(cv, q)
      /\ q.n = cv.n /\ q.side = cv.side
  BY <1>1, AnnounceMoves
<1>3. r = [q EXCEPT !.pending = FALSE]
  BY <1>1 DEF RemovePlayer
<1>4. r.n = q.n /\ r.side = q.side /\ r.log = q.log
  BY <1>2, <1>3 DEF Conversations
<1> QED
  BY <1>2, <1>4 DEF Moves

LEMMA AddMoves ==
    ASSUME NEW cv \in Conversations, cv.n < MaxPlayers, ~cv.started,
           NEW a, a = AddPlayer(cv)
    PROVE  Moves(cv, a) /\ a.n = cv.n + 1 /\ a.side = cv.side
<1>1. /\ cv.n \in Nat /\ cv.n \in Players /\ cv.n + 1 \in 0 .. MaxPlayers
      /\ cv.base \cup {cv.n} \in SUBSET Players
  BY PlayerAssumption DEF Conversations, Players
<1>2. PICK added : added = [cv EXCEPT !.n = @ + 1, !.base = @ \cup {cv.n}]
  OBVIOUS
<1>3. /\ added \in Conversations
      /\ added.n = cv.n + 1 /\ added.side = cv.side /\ added.log = cv.log
  BY <1>1, <1>2 DEF Conversations
<1>4. PICK q : q = QueueMessage(added, None, None, 1)
  OBVIOUS
<1>5. /\ q \in Conversations /\ Moves(added, q)
      /\ q.n = added.n /\ q.side = added.side
  BY <1>3, <1>4, AnnounceMoves
<1>6. a = IF q.n >= MaxPlayers THEN StartConversation(q) ELSE q
  BY <1>2, <1>4 DEF AddPlayer
<1>7. /\ a.n = q.n /\ a.side = q.side /\ a.log = q.log
  BY <1>5, <1>6, StartType
<1> QED
  BY <1>1, <1>3, <1>5, <1>7 DEF Moves

-----------------------------------------------------------------------------
(* What a step does to the links of a page.                                 *)

Sound(u) == PageSound(client[u], conv) /\ (Attends(u) => ContinuedTo(u))

(* The page u comes out of the step linked; w is the page that a player is  *)
(* added for, if there is one.                                              *)
Passes(u, w) ==
    /\ Known(client'[u], conv')
    /\ (Attends(u) => PipedTo(u))'
    /\ \A p : Is(u, p)' => Is(u, p) \/ (p = conv.n /\ u = w)
    /\ Len(conv'.log) < CountMod /\ Sound(u) => Sound(u)'

LEMMA AttendedIs ==
    ASSUME Inv, Linked, NEW u \in Clients, Attends(u), NEW c, c = SocketOf(u)
    PROVE  /\ c \in Conns /\ c = <<u, client[u].sock>>
           /\ Queue(c) \in Seq(Frames) /\ Queue(c) = wire[c] \o conn[c].buf
           /\ wire[c] \in Seq(Frames) /\ conn[c].buf \in Seq(Frames)
           /\ conn[c] \in Connections /\ client[u] \in Pages
           /\ conv \in Conversations /\ hello[c] \in Hellos
           /\ Piped(client[u], Queue(c), conn[c], hello[c], conv)
           /\ \A p : Means(client[u], Queue(c), conn[c], p) => Is(u, p)
           /\ Sound(u) => /\ PageSound(client[u], conv)
                          /\ Continued(client[u], Queue(c), conn[c], conv)
<1>1. client[u].sock \in 1 .. MaxSockets[u] /\ client[u] \in Pages
  BY DEF Attends, Inv
<1>2. c \in Conns /\ c = <<u, client[u].sock>>
  BY <1>1, ConnsMember DEF SocketOf
<1>3. /\ wire[c] \in Seq(Frames) /\ conn[c].buf \in Seq(Frames)
      /\ conn[c] \in Connections /\ conv \in Conversations /\ hello[c] \in Hellos
  BY <1>2 DEF Inv, Consistent, Connections
<1>4. Queue(c) \in Seq(Frames) /\ Queue(c) = wire[c] \o conn[c].buf
  BY <1>3, ConcatProperties DEF Queue
<1>5. Piped(client[u], Queue(c), conn[c], hello[c], conv)
  BY DEF Linked, PipedTo
<1>6. \A p : Means(client[u], Queue(c), conn[c], p) => Is(u, p)
  BY DEF Is, Means
<1>7. Sound(u) => /\ PageSound(client[u], conv)
                  /\ Continued(client[u], Queue(c), conn[c], conv)
  BY DEF Sound, ContinuedTo
<1> QED
  BY <1>1, <1>2, <1>3, <1>4, <1>5, <1>6, <1>7

(* A page that keeps its socket and what is on its way to it.               *)
LEMMA QuietPasses ==
    ASSUME Inv, Inv', Linked, Moves(conv, conv'), NEW u \in Clients, NEW w,
           client'[u] = client[u],
           \A d \in Data : conv'.side[d] = Unset => conv.side[d] = Unset,
           Attends(u) =>
               LET c == SocketOf(u)
               IN  /\ wire'[c] = wire[c] /\ conn'[c].buf = conn[c].buf
                   /\ \/ hello'[c].kind = "none"
                      \/ hello'[c] = hello[c] /\ conn'[c].pong = conn[c].pong
                   /\ Alike(conn[c], conn'[c])
                   /\ Shown(client[u], Queue(c), conn'[c], conv')
    PROVE  Passes(u, w)
<1>1. conv \in Conversations /\ conv' \in Conversations /\ Grows(conv, conv')
  BY MovesGrow DEF Inv, Consistent
<1>2. Known(client[u], conv)
  BY DEF Linked
<1>3. conv.n \in Nat /\ conv'.n \in Nat /\ conv.n =< conv'.n
  BY <1>1 DEF Conversations, Grows
<1>4. client[u] \in Pages /\ (client[u].id # None => client[u].id \in Nat)
  BY DEF Inv, Pages, Players
<1>5. Known(client'[u], conv')
  BY <1>2, <1>3, <1>4, SMTT(30) DEF Known, ViewSound
<1>6. ASSUME NEW c, c = SocketOf(u), Attends(u)
      PROVE  /\ Piped(client[u], Queue(c), conn'[c], hello'[c], conv')
             /\ Queue(c) = wire'[c] \o conn'[c].buf
             /\ c = <<u, client'[u].sock>>
             /\ \A p : Means(client[u], Queue(c), conn'[c], p) => Is(u, p)
             /\ Sound(u) => /\ PageSound(client[u], conv')
                            /\ Continued(client[u], Queue(c), conn'[c], conv')
  <2>1. /\ c \in Conns /\ c = <<u, client[u].sock>>
        /\ Queue(c) \in Seq(Frames) /\ Queue(c) = wire[c] \o conn[c].buf
        /\ conn[c] \in Connections
        /\ Piped(client[u], Queue(c), conn[c], hello[c], conv)
        /\ \A p : Means(client[u], Queue(c), conn[c], p) => Is(u, p)
        /\ Sound(u) => /\ PageSound(client[u], conv)
                       /\ Continued(client[u], Queue(c), conn[c], conv)
    BY <1>6, AttendedIs
  <2>2. conn'[c] \in Connections
    BY <2>1 DEF Inv
  <2>3. /\ wire'[c] = wire[c] /\ conn'[c].buf = conn[c].buf
        /\ hello'[c].kind = "none" \/ (hello'[c] = hello[c] /\ conn'[c].pong = conn[c].pong)
        /\ Alike(conn[c], conn'[c])
        /\ Shown(client[u], Queue(c), conn'[c], conv')
    BY <1>6
  <2>4. Piped(client[u], Queue(c), conn'[c], hello'[c], conv')
    BY <2>1, <2>2, <2>3, <1>1, <1>4, GrownPiped
  <2>5. \A p : Means(client[u], Queue(c), conn'[c], p) => Is(u, p)
    BY <2>1, <2>3, MeansAlike
  <2>6. Introduced(client[u], Queue(c), conn[c], conv)
    BY <2>1 DEF Piped
  <2>7. Sound(u) => /\ PageSound(client[u], conv')
                    /\ Continued(client[u], Queue(c), conn'[c], conv')
    BY <2>1, <2>2, <2>3, <2>6, <1>1, <1>4, GrownContinued
  <2> QED
    BY <2>1, <2>3, <2>4, <2>5, <2>7
<1>7. PageSound(client[u], conv) => PageSound(client[u], conv')
  BY <1>1, <1>4, GrownSound
<1>8. Attends(u)' <=> Attends(u)
  BY DEF Attends
<1>9. Attends(u)' => PipedTo(u)'
  BY <1>6, <1>8 DEF PipedTo, SocketOf, Queue
<1>10. \A p : Is(u, p)' => Is(u, p)
  <2>1. SUFFICES ASSUME NEW p, Is(u, p)' PROVE Is(u, p)
    OBVIOUS
  <2>2. CASE p # None /\ client'[u].id = p
    BY <2>2, SMTT(30) DEF Is
  <2>3. CASE /\ Attends(u)'
             /\ Means(client'[u], Queue(SocketOf(u))', conn'[SocketOf(u)'], p)
    BY <2>3, <1>6, <1>8 DEF SocketOf, Queue
  <2> QED
    BY <2>1, <2>2, <2>3 DEF Is
<1>11. Sound(u) => Sound(u)'
  BY <1>6, <1>7, <1>8 DEF Sound, ContinuedTo, SocketOf, Queue
<1> QED
  BY <1>5, <1>9, <1>10, <1>11 DEF Passes

(* All that a step has to do to keep the pages linked.                      *)
Stays(w) ==
    /\ Moves(conv, conv')
    /\ \A c \in Conns : Untouched(conn'[c], wire'[c])
    /\ \A u \in Clients : Passes(u, w)

LEMMA StaysLinked ==
    ASSUME Inv, Inv', Linked, NEW w, Stays(w)
    PROVE  /\ Linked'
           /\ Delivered => Delivered'
<1>1. /\ conv \in Conversations /\ conv' \in Conversations
      /\ Grows(conv, conv') /\ Recorded(conv')
  BY MovesGrow DEF Inv, Consistent, Stays, Linked
<1>2. \A u \in Clients : \A p : Is(u, p) => p < conv.n
  <2>1. SUFFICES ASSUME NEW u \in Clients, NEW p, Is(u, p) PROVE p < conv.n
    OBVIOUS
  <2>2. CASE p # None /\ client[u].id = p
    BY <2>2 DEF Linked, Known
  <2>3. CASE Attends(u) /\ Means(client[u], Queue(SocketOf(u)), conn[SocketOf(u)], p)
    <3>1. p \in 0 .. conv.n - 1
      BY <2>3 DEF Linked, PipedTo, Piped, Introduced
    <3>2. conv.n \in Nat
      BY <1>1 DEF Conversations
    <3> QED
      BY <3>1, <3>2
  <2> QED
    BY <2>1, <2>2, <2>3 DEF Is
<1>3. ASSUME NEW u \in Clients, NEW v \in Clients, NEW p, Is(u, p)', Is(v, p)'
      PROVE  u = v
  <2>1. /\ Is(u, p) \/ (p = conv.n /\ u = w)
        /\ Is(v, p) \/ (p = conv.n /\ v = w)
    BY <1>3 DEF Stays, Passes
  <2>2. conv.n \in Nat
    BY <1>1 DEF Conversations
  <2>3. ~(Is(u, p) /\ p = conv.n) /\ ~(Is(v, p) /\ p = conv.n)
    BY <2>2, <1>2
  <2> QED
    BY <2>1, <2>3 DEF Linked
<1>4. Linked'
  BY <1>1, <1>3 DEF Stays, Passes, Linked
<1>5. ASSUME Delivered, Len(conv'.log) < CountMod, NEW u \in Clients
      PROVE  PageSound(client'[u], conv') /\ (Attends(u)' => ContinuedTo(u)')
  <2>1. Len(conv.log) < CountMod
    <3>1. Len(conv.log) \in Nat /\ Len(conv'.log) \in Nat /\ CountMod \in Nat
      BY <1>1, LenProperties, BufferAssumption DEF Conversations
    <3> QED
      BY <3>1, <1>1, <1>5 DEF Grows
  <2>2. Sound(u)
    BY <2>1, <1>5 DEF Delivered, Sound
  <2>3. Sound(u)'
    BY <2>2, <1>5 DEF Stays, Passes
  <2> QED
    BY <2>3 DEF Sound
<1> QED
  BY <1>4, <1>5 DEF Delivered

(* The connection still has the same to say and the same on its way.        *)
Same(k, l) ==
    /\ Alike(k, l) /\ l.buf = k.buf /\ l.dirty = k.dirty /\ l.pong = k.pong
    /\ k.state = "unused" => l = k

LEMMA SamePasses ==
    ASSUME Inv, Inv', Linked, Moves(conv, conv'), conv'.side = conv.side,
           NEW u \in Clients, NEW w, client'[u] = client[u],
           Attends(u) =>
               LET c == SocketOf(u)
               IN  /\ wire'[c] = wire[c] /\ hello'[c] = hello[c]
                   /\ Same(conn[c], conn'[c])
    PROVE  Passes(u, w)
<1>1. ASSUME Attends(u), NEW c, c = SocketOf(u)
      PROVE  Shown(client[u], Queue(c), conn'[c], conv')
  <2>1. Shown(client[u], Queue(c), conn[c], conv)
    BY <1>1, AttendedIs DEF Piped
  <2> QED
    BY <2>1, <1>1, AlikeShown DEF Same
<1> QED
  BY <1>1, QuietPasses DEF Same

LEMMA PipedPasses ==
    ASSUME NEW u \in Clients, NEW w, NEW g, g = client'[u], g.sock # None,
           NEW c, c = <<u, g.sock>>, NEW r, r = wire'[c] \o conn'[c].buf,
           Known(g, conv'), Piped(g, r, conn'[c], hello'[c], conv'),
           \A p : Means(g, r, conn'[c], p) => Is(u, p) \/ (p = conv.n /\ u = w),
           Len(conv'.log) < CountMod /\ Sound(u)
               => PageSound(g, conv') /\ Continued(g, r, conn'[c], conv')
    PROVE  Passes(u, w)
<1>1. SocketOf(u)' = c /\ Queue(c)' = r
  <2>1. SocketOf(u)' = <<u, client'[u].sock>>
    BY ZenonT(30) DEF SocketOf
  <2>2. Queue(c)' = wire'[c] \o conn'[c].buf
    BY ZenonT(30) DEF Queue
  <2> QED
    BY <2>1, <2>2, ZenonT(30)
<1>2. \A p : Is(u, p)' => Means(g, r, conn'[c], p)
  BY <1>1, ZenonT(60) DEF Is, Means, SocketOf, Queue
<1>3. PipedTo(u)'
  BY DEF PipedTo, SocketOf, Queue
<1>4. Len(conv'.log) < CountMod /\ Sound(u) => Sound(u)'
  BY DEF Sound, ContinuedTo, SocketOf, Queue
<1> QED
  BY <1>2, <1>3, <1>4 DEF Passes

LEMMA AlonePasses ==
    ASSUME Inv, Inv', Linked, Moves(conv, conv'), conv'.side = conv.side,
           NEW u \in Clients, NEW w, client'[u].sock = None,
           client'[u].id = client[u].id, client'[u].got = client[u].got,
           client'[u].view = client[u].view
    PROVE  Passes(u, w)
<1>1. conv \in Conversations /\ conv' \in Conversations /\ Grows(conv, conv')
  BY MovesGrow DEF Inv, Consistent
<1>2. client[u] \in Pages /\ (client[u].id # None => client[u].id \in Nat)
  BY DEF Inv, Pages, Players
<1>3. Known(client'[u], conv')
  <2>1. conv.n \in Nat /\ conv'.n \in Nat /\ conv.n =< conv'.n
    BY <1>1 DEF Conversations, Grows
  <2> QED
    BY <2>1, <1>2 DEF Linked, Known, ViewSound
<1>4. PageSound(client[u], conv) => PageSound(client'[u], conv')
  <2>1. PageSound(client[u], conv) => PageSound(client[u], conv')
    BY <1>1, <1>2, GrownSound
  <2> QED
    BY <2>1 DEF PageSound, Latest
<1>5. ~Attends(u)'
  BY DEF Attends
<1>6. \A p : Is(u, p)' => Is(u, p)
  BY <1>5 DEF Is
<1> QED
  BY <1>3, <1>4, <1>5, <1>6 DEF Passes, Sound

-----------------------------------------------------------------------------
(* Every action keeps the pages linked.                                     *)

LEMMA NotifiedSame ==
    ASSUME Inv, NEW cv \in Conversations
    PROVE  \A c \in Conns : Same(conn[c], Notified(cv)[c])
<1>1. SUFFICES ASSUME NEW c \in Conns
               PROVE  Same(conn[c], Notified(cv)[c])
  OBVIOUS
<1>2. conn[c] \in Connections
  BY DEF Inv
<1>3. Notified(cv)[c] = IF Listening(c) THEN UpdatePollFlags(conn[c], cv) ELSE conn[c]
  BY DEF Notified
<1>4. CASE Listening(c)
  BY <1>2, <1>3, <1>4, UpdateAlike DEF Same, Listening, Open
<1>5. CASE ~Listening(c)
  BY <1>3, <1>5 DEF Same, Alike
<1> QED
  BY <1>4, <1>5

(* Something happens to the conversation.                                   *)
LEMMA EventStays ==
    ASSUME Inv, Inv', Linked, Moves(conv, conv'), conv'.side = conv.side,
           \A c \in Conns : Same(conn[c], conn'[c]),
           UNCHANGED <<hello, wire, client>>, NEW w
    PROVE  Stays(w)
<1>1. \A c \in Conns : Untouched(conn'[c], wire'[c])
  BY DEF Linked, Untouched, Same, Alike
<1>2. ASSUME NEW u \in Clients PROVE Passes(u, w)
  <2>1. Attends(u) => SocketOf(u) \in Conns
    BY AttendedIs
  <2> QED
    BY <2>1, SamePasses
<1> QED
  BY <1>1, <1>2 DEF Stays

LEMMA SpokenStays ==
    ASSUME Inv, Inv', Linked, NEW to \in Players \cup {None},
           NEW from \in Players \cup {None}, NEW size \in MsgSizes,
           conv' = [QueueMessage(conv, to, from, size) EXCEPT !.said = @ + 1],
           conn' = Notified(conv'), UNCHANGED <<hello, wire, client>>, NEW w
    PROVE  Stays(w)
<1>1. PICK q : q = QueueMessage(conv, to, from, size)
  OBVIOUS
<1>2. conv \in Conversations /\ conv' \in Conversations /\ size \in Nat
  BY BufferAssumption DEF Inv, Consistent
<1>3. q \in Conversations /\ Moves(conv, q) /\ q.n = conv.n /\ q.side = conv.side
  BY <1>1, <1>2, QueueMoves
<1>4. conv' = [q EXCEPT !.said = q.said + 1]
  BY <1>1, <1>3 DEF Conversations
<1>5. conv'.n = q.n /\ conv'.side = q.side /\ conv'.log = q.log
  BY <1>3, <1>4 DEF Conversations
<1>6. Moves(conv, conv') /\ conv'.side = conv.side
  BY <1>3, <1>5 DEF Moves
<1>7. \A c \in Conns : Same(conn[c], conn'[c])
  BY <1>2, NotifiedSame
<1> QED
  BY <1>6, <1>7, EventStays

LEMMA ChatStays ==
    ASSUME Inv, Inv', Linked, NEW c \in Conns, NEW size \in MsgSizes,
           HandleChat(c, size), NEW w
    PROVE  Stays(w)
<1>1. conn[c].player \in Players \cup {None} /\ None \in Players \cup {None}
  BY DEF Inv, Connections
<1>2. PICK to \in Players \cup {None} : to = None
  BY <1>1
<1>3. /\ conv' = [QueueMessage(conv, to, conn[c].player, size) EXCEPT !.said = @ + 1]
      /\ conn' = Notified(conv') /\ UNCHANGED <<hello, wire, client>>
  BY <1>2 DEF HandleChat
<1> QED
  BY <1>1, <1>3, SpokenStays

LEMMA GameMessageStays ==
    ASSUME Inv, Inv', Linked, NEW to \in Players \cup {None}, NEW size \in MsgSizes,
           GameMessage(to, size), NEW w
    PROVE  Stays(w)
<1>1. PICK from \in Players \cup {None} : from = None
  OBVIOUS
<1>2. /\ conv' = [QueueMessage(conv, to, from, size) EXCEPT !.said = @ + 1]
      /\ conn' = Notified(conv') /\ UNCHANGED <<hello, wire, client>>
  BY <1>1 DEF GameMessage
<1> QED
  BY <1>2, SpokenStays

LEMMA SameItself == \A c : Same(conn[c], conn[c])
BY DEF Same, Alike

LEMMA StartStays ==
    ASSUME Inv, Inv', Linked, NEW c, HandleStart(c), NEW w
    PROVE  Stays(w)
<1>1. conv' = StartConversation(conv) /\ UNCHANGED <<conn, hello, wire, client>>
  BY DEF HandleStart
<1>2. conv \in Conversations
  BY DEF Inv, Consistent
<1>3. conv'.n = conv.n /\ conv'.side = conv.side /\ conv'.log = conv.log
  BY <1>1, <1>2, StartType
<1>4. Moves(conv, conv')
  BY <1>2, <1>3 DEF Moves, Conversations
<1> QED
  BY <1>1, <1>3, <1>4, SameItself, EventStays

LEMMA GameOverStays ==
    ASSUME Inv, Inv', Linked, GameOver, NEW w
    PROVE  Stays(w)
<1>1. conv' = [conv EXCEPT !.game = FALSE] /\ UNCHANGED <<conn, hello, wire, client>>
  BY DEF GameOver
<1>2. conv \in Conversations
  BY DEF Inv, Consistent
<1>3. conv'.n = conv.n /\ conv'.side = conv.side /\ conv'.log = conv.log
  BY <1>1, <1>2 DEF Conversations
<1>4. Moves(conv, conv')
  BY <1>2, <1>3 DEF Moves, Conversations
<1> QED
  BY <1>1, <1>3, <1>4, SameItself, EventStays

LEMMA LeaveStays ==
    ASSUME Inv, Inv', Linked, NEW c \in Conns, HandleLeave(c), NEW w
    PROVE  Stays(w)
<1>1. PICK left : left = conv.left \cup {conn[c].player}
  OBVIOUS
<1>2. PICK was : was = [conv EXCEPT !.left = left]
  OBVIOUS
<1>3. /\ conv' = RemovePlayer(was) /\ conn' = Notified(conv')
      /\ UNCHANGED <<hello, wire, client>> /\ conn[c].player # None
  BY <1>1, <1>2 DEF HandleLeave, MayAct
<1>4. /\ conv \in Conversations /\ conv' \in Conversations
      /\ left \in SUBSET Players
  BY <1>1, <1>3, SMTT(30) DEF Inv, Consistent, Connections, Conversations
<1>5. /\ was \in Conversations /\ was.n = conv.n /\ was.side = conv.side
      /\ was.log = conv.log
  BY <1>2, <1>4 DEF Conversations
<1>6. Moves(was, conv') /\ conv'.side = was.side
  BY <1>3, <1>5, RemoveMoves
<1>7. Moves(conv, conv') /\ conv'.side = conv.side
  BY <1>5, <1>6 DEF Moves
<1>8. \A b \in Conns : Same(conn[b], conn'[b])
  BY <1>3, <1>4, NotifiedSame
<1> QED
  BY <1>3, <1>7, <1>8, EventStays

LEMMA ExpireStays ==
    ASSUME Inv, Inv', Linked, NEW p \in Players, Expire(p), NEW w
    PROVE  Stays(w)
<1>1. PICK base : base = conv.base \ {p}
  OBVIOUS
<1>2. PICK was : was = [conv EXCEPT !.base = base]
  OBVIOUS
<1>3. /\ conv' = IF p \in conv.left THEN was ELSE RemovePlayer(was)
      /\ conn' = IF p \in conv.left THEN conn ELSE Notified(conv')
      /\ UNCHANGED <<hello, wire, client>>
  BY <1>1, <1>2 DEF Expire
<1>4. /\ conv \in Conversations /\ conv' \in Conversations
      /\ base \in SUBSET Players
  BY <1>1 DEF Inv, Consistent, Conversations
<1>5. /\ was \in Conversations /\ was.n = conv.n /\ was.side = conv.side
      /\ was.log = conv.log
  BY <1>2, <1>4 DEF Conversations
<1>6. Moves(conv, conv') /\ conv'.side = conv.side
  <2>1. CASE p \in conv.left
    BY <2>1, <1>3, <1>4, <1>5 DEF Moves, Conversations
  <2>2. CASE p \notin conv.left
    <3>1. Moves(was, conv') /\ conv'.side = was.side
      BY <2>2, <1>3, <1>5, RemoveMoves
    <3> QED
      BY <3>1, <1>5 DEF Moves
  <2> QED
    BY <2>1, <2>2
<1>7. \A b \in Conns : Same(conn[b], conn'[b])
  BY <1>3, <1>4, NotifiedSame, SameItself
<1> QED
  BY <1>3, <1>6, <1>7, EventStays

(* A datum of the game changes.                                             *)
LEMMA SidebandStays ==
    ASSUME Inv, Inv', Linked, NEW d \in Data, NEW v \in Values, NEW force,
           GameSideband(d, v, force), NEW w
    PROVE  Stays(w)
<1>1. PICK side : side = [conv.side EXCEPT ![d] = v]
  OBVIOUS
<1>2. /\ conv' = [conv EXCEPT !.side = side, !.changes = conv.changes + 1]
      /\ conn' = NotifiedOfData(conv', d)
      /\ UNCHANGED <<hello, wire, client>>
  <2>1. conv \in Conversations
    BY DEF Inv, Consistent
  <2> QED
    BY <2>1, <1>1 DEF GameSideband, Conversations
<1>3. conv \in Conversations /\ conv' \in Conversations
  BY DEF Inv, Consistent
<1>4. conv'.n = conv.n /\ conv'.side = side /\ conv'.log = conv.log
  BY <1>2, <1>3 DEF Conversations
<1>5. Moves(conv, conv')
  BY <1>3, <1>4 DEF Moves, Conversations
<1>6. ASSUME NEW c \in Conns
      PROVE  /\ Alike(conn[c], conn'[c]) /\ conn'[c].buf = conn[c].buf
             /\ conn'[c].pong = conn[c].pong
             /\ Listening(c) => conn'[c].dirty = conn[c].dirty \cup {d}
             /\ conn[c].state = "unused" => conn'[c] = conn[c]
  <2>1. conn[c] \in Connections
    BY DEF Inv
  <2>2. PICK dirty \in SUBSET Data : dirty = conn[c].dirty \cup {d}
    BY <2>1 DEF Connections
  <2>3. PICK k : k = [conn[c] EXCEPT !.dirty = dirty]
    OBVIOUS
  <2>4. conn'[c] = IF Listening(c) THEN UpdatePollFlags(k, conv') ELSE conn[c]
    BY <1>2, <2>2, <2>3 DEF NotifiedOfData
  <2>5. /\ k \in Connections /\ Alike(conn[c], k) /\ k.buf = conn[c].buf
        /\ k.pong = conn[c].pong /\ k.dirty = dirty
    BY <2>1, <2>3 DEF Connections, Alike
  <2>6. CASE Listening(c)
    <3>1. /\ Alike(k, conn'[c]) /\ conn'[c].buf = k.buf
          /\ conn'[c].dirty = k.dirty /\ conn'[c].pong = k.pong
      BY <2>4, <2>5, <2>6, <1>3, UpdateAlike
    <3>2. Alike(conn[c], conn'[c])
      BY <3>1, <2>5 DEF Alike
    <3>3. conn[c].state # "unused"
      BY <2>6 DEF Listening, Open
    <3> QED
      BY <3>1, <3>2, <3>3, <2>2, <2>5
  <2>7. CASE ~Listening(c)
    BY <2>4, <2>7 DEF Alike
  <2> QED
    BY <2>6, <2>7
<1>7. \A c \in Conns : Untouched(conn'[c], wire'[c])
  BY <1>2, <1>6 DEF Linked, Untouched, Alike
<1>8. \A e \in Data : conv'.side[e] = Unset => conv.side[e] = Unset
  BY <1>1, <1>3, <1>4, DataAssumption DEF Conversations
<1>9. ASSUME NEW u \in Clients PROVE Passes(u, w)
  <2>1. ASSUME Attends(u), NEW c, c = SocketOf(u)
        PROVE  /\ c \in Conns
               /\ Shown(client[u], Queue(c), conn'[c], conv')
    <3>1. /\ c \in Conns /\ conn[c] \in Connections
          /\ Piped(client[u], Queue(c), conn[c], hello[c], conv)
      BY <2>1, AttendedIs
    <3>2. conn[c].player # None => Listening(c)
      BY <3>1 DEF Piped, Introduced, Listening, Open
    <3>3. Shown(client[u], Queue(c), conn[c], conv)
      BY <3>1 DEF Piped
    <3>4. Alike(conn[c], conn'[c])
      BY <3>1, <1>6
    <3>5. conn[c].player # None => conn'[c].dirty = conn[c].dirty \cup {d}
      BY <3>1, <3>2, <1>6
    <3>6. conv'.side = [conv.side EXCEPT ![d] = v]
      BY <1>1, <1>4
    <3>7. conn[c] \in Connections /\ conv \in Conversations
      BY <3>1, <1>3
    <3>8. Shown(client[u], Queue(c), conn'[c], conv')
      BY ONLY <3>3, <3>4, <3>5, <3>6, <3>7, d \in Data, v \in Values, ChangedShown
    <3> QED
      BY <3>1, <3>8
  <2> QED
    BY <2>1, <1>2, <1>5, <1>6, <1>8, QuietPasses
<1> QED
  BY <1>5, <1>7, <1>9 DEF Stays

(* Something happens to the connection c.                                   *)
LEMMA OneStays ==
    ASSUME Inv, Inv', Linked, Moves(conv, conv'), conv'.side = conv.side,
           NEW c \in Conns, NEW w, client' = client,
           \A b \in Conns : b # c => /\ wire'[b] = wire[b] /\ hello'[b] = hello[b]
                                     /\ Same(conn[b], conn'[b]),
           Untouched(conn'[c], wire'[c]),
           \A u \in Clients : Attends(u) /\ SocketOf(u) = c => Passes(u, w)
    PROVE  Stays(w)
<1>1. ASSUME NEW b \in Conns PROVE Untouched(conn'[b], wire'[b])
  <2>1. CASE b = c
    BY <2>1
  <2>2. CASE b # c
    BY <2>2 DEF Linked, Untouched, Same, Alike
  <2> QED
    BY <2>1, <2>2
<1>2. ASSUME NEW u \in Clients, ~(Attends(u) /\ SocketOf(u) = c)
      PROVE  Passes(u, w)
  <2>1. Attends(u) => SocketOf(u) \in Conns /\ SocketOf(u) # c
    BY <1>2, AttendedIs
  <2> QED
    BY <2>1, SamePasses
<1> QED
  BY <1>1, <1>2 DEF Stays

LEMMA StillMoves ==
    ASSUME Inv, conv' = conv
    PROVE  Moves(conv, conv') /\ conv'.side = conv.side
BY DEF Inv, Consistent, Conversations, Moves

(* The same for one connection, when the conversation does not change.      *)
LEMMA TouchedPasses ==
    ASSUME Inv, Inv', Linked, conv' = conv,
           NEW u \in Clients, NEW w, client' = client, Attends(u),
           NEW c, c = SocketOf(u), NEW r, r = wire'[c] \o conn'[c].buf,
           Piped(client[u], r, conn'[c], hello'[c], conv),
           \A p : Means(client[u], r, conn'[c], p)
                      => Means(client[u], Queue(c), conn[c], p),
           Len(conv.log) < CountMod /\ PageSound(client[u], conv)
               /\ Continued(client[u], Queue(c), conn[c], conv)
               => Continued(client[u], r, conn'[c], conv)
    PROVE  Passes(u, w)
<1>1. /\ c = <<u, client'[u].sock>> /\ client'[u].sock # None
      /\ \A p : Means(client[u], Queue(c), conn[c], p) => Is(u, p)
      /\ Sound(u) => /\ PageSound(client[u], conv)
                     /\ Continued(client[u], Queue(c), conn[c], conv)
  BY AttendedIs DEF Attends
<1>2. Known(client[u], conv)
  BY DEF Linked
<1>3. PICK g : g = client'[u] /\ g = client[u]
  OBVIOUS
<1> QED
  BY <1>1, <1>2, <1>3, PipedPasses

LEMMA ClosedStays ==
    ASSUME Inv, Inv', Linked, NEW c \in Conns, Open(c), RemoveClient(c),
           UNCHANGED <<conv, wire, client>>,
           \A b \in Conns : b # c => hello'[b] = hello[b], NEW w
    PROVE  Stays(w)
<1>1. PICK l : l = [NewConnection EXCEPT !.state = "closed"]
  OBVIOUS
<1>2. conn' = [conn EXCEPT ![c] = l]
  BY <1>1 DEF RemoveClient
<1>3. conn'[c] = l /\ \A b \in Conns : b # c => conn'[b] = conn[b]
  BY <1>2 DEF Inv
<1>4. l.state = "closed" /\ l.buf = << >> /\ l.player = None /\ l.cursor = 0
  BY <1>1 DEF NewConnection
<1>5. ASSUME NEW u \in Clients, Attends(u), SocketOf(u) = c
      PROVE  Passes(u, w)
  <2>1. /\ Queue(c) = wire[c] \o conn[c].buf
        /\ wire[c] \in Seq(Frames) /\ conn[c].buf \in Seq(Frames)
        /\ conn[c] \in Connections /\ client[u] \in Pages /\ conv \in Conversations
        /\ Piped(client[u], Queue(c), conn[c], hello[c], conv)
    BY <1>5, AttendedIs
  <2>2. wire'[c] \o conn'[c].buf = wire[c]
    BY <2>1, <1>3, <1>4, ConcatEmptySeq
  <2>3. /\ Piped(client[u], wire[c], l, hello'[c], conv)
        /\ \A p : Means(client[u], wire[c], l, p)
                      => Means(client[u], Queue(c), conn[c], p)
        /\ Continued(client[u], Queue(c), conn[c], conv)
               => Continued(client[u], wire[c], l, conv)
    <3>1. PICK page, q, v, b, k, h, i, cv :
              /\ q = Queue(c) /\ v = wire[c] /\ b = conn[c].buf
              /\ k = conn[c] /\ h = hello[c] /\ i = hello'[c]
              /\ page = client[u] /\ cv = conv
      OBVIOUS
    <3>2. /\ page \in Pages /\ v \in Seq(Frames) /\ b \in Seq(Frames) /\ q = v \o b
          /\ k \in Connections /\ cv \in Conversations /\ Piped(page, q, k, h, cv)
      BY <2>1, <3>1
    <3>3. /\ Piped(page, v, l, i, cv)
          /\ \A p : Means(page, v, l, p) => Means(page, q, k, p)
          /\ Continued(page, q, k, cv) => Continued(page, v, l, cv)
      BY ONLY <3>2, <1>4, ClosedPiped
    <3> QED
      BY <3>1, <3>3
  <2> QED
    BY <2>2, <2>3, <1>3, <1>5, TouchedPasses
<1>6. Untouched(conn'[c], wire'[c])
  BY <1>3, <1>4 DEF Untouched
<1> QED
  BY <1>3, <1>5, <1>6, StillMoves, SameItself, OneStays

LEMMA PingStays ==
    ASSUME Inv, Inv', Linked, NEW c \in Conns, HandlePing(c), NEW w
    PROVE  Stays(w)
<1>1. PICK k : k = [conn[c] EXCEPT !.pong = TRUE]
  OBVIOUS
<1>2. /\ Open(c) /\ hello[c].kind = "none"
      /\ conn' = [conn EXCEPT ![c] = UpdatePollFlags(k, conv)]
      /\ UNCHANGED <<conv, hello, wire, client>>
  BY <1>1 DEF HandlePing, Inv
<1>3. /\ conn[c] \in Connections /\ conv \in Conversations
  BY DEF Inv, Consistent
<1>4. /\ k \in Connections /\ Alike(conn[c], k) /\ k.buf = conn[c].buf
      /\ k.dirty = conn[c].dirty
  BY <1>1, <1>3 DEF Connections, Alike
<1>5. PICK l : l = UpdatePollFlags(k, conv)
  OBVIOUS
<1>6. Alike(k, l) /\ l.buf = k.buf /\ l.dirty = k.dirty /\ l \in Connections
  BY <1>3, <1>4, <1>5, UpdateAlike, UpdateProperties
<1>7. Alike(conn[c], l) /\ l.buf = conn[c].buf /\ l.dirty = conn[c].dirty
  BY <1>4, <1>6 DEF Alike
<1>8. conn'[c] = l /\ \A b \in Conns : b # c => conn'[b] = conn[b]
  BY <1>2, <1>5 DEF Inv
<1>9. ASSUME NEW u \in Clients, Attends(u), SocketOf(u) = c
      PROVE  Passes(u, w)
  <2>1. Shown(client[u], Queue(c), conn[c], conv)
    BY <1>9, AttendedIs DEF Piped
  <2>2. Shown(client[u], Queue(c), l, conv)
    BY <2>1, <1>7, AlikeShown
  <2>3. \A d \in Data : conv'.side[d] = Unset => conv.side[d] = Unset
    BY <1>2
  <2> QED
    BY <2>2, <2>3, <1>2, <1>7, <1>8, <1>9, StillMoves, QuietPasses
<1>10. Untouched(conn'[c], wire'[c])
  BY <1>2, <1>7, <1>8 DEF Untouched, Alike, Open
<1> QED
  BY <1>2, <1>8, <1>9, <1>10, StillMoves, SameItself, OneStays

LEMMA NotFoundStays ==
    ASSUME Inv, Inv', Linked, NEW c \in Conns, HandleNotFound(c), NEW w
    PROVE  Stays(w)
<1>1. PICK k : k = [conn[c] EXCEPT !.buf = Append(@, NotFound)]
  OBVIOUS
<1>2. /\ Open(c) /\ hello[c].kind = "new"
      /\ UNCHANGED <<conv, wire, client>>
      /\ hello' = [hello EXCEPT ![c] = NoHello]
      /\ \/ conn' = [conn EXCEPT ![c] = UpdatePollFlags(k, conv)]
         \/ RemoveClient(c)
  BY <1>1 DEF HandleNotFound, Inv
<1>3. hello'[c].kind = "none" /\ \A b \in Conns : b # c => hello'[b] = hello[b]
  BY <1>2 DEF Inv, NoHello
<1>4. CASE RemoveClient(c)
  BY <1>2, <1>3, <1>4, ClosedStays
<1>5. CASE conn' = [conn EXCEPT ![c] = UpdatePollFlags(k, conv)]
  <2>1. conn[c] \in Connections /\ conv \in Conversations /\ conn[c].state = "open"
    BY <1>2 DEF Inv, Consistent, Open
  <2>2. NotFound \in Frames
    BY DEF NotFound, Frame, Frames, FrameKinds
  <2>3. PICK buf \in Seq(Frames) : buf = Append(conn[c].buf, NotFound)
    BY <2>1, <2>2, AppendProperties DEF Connections
  <2>4. k = [conn[c] EXCEPT !.buf = buf]
    BY <1>1, <2>1, <2>3 DEF Connections
  <2>5. k \in Connections /\ Alike(conn[c], k) /\ k.buf = buf
    BY <2>1, <2>4 DEF Connections, Alike
  <2>6. PICK l : l = UpdatePollFlags(k, conv)
    OBVIOUS
  <2>7. Alike(k, l) /\ l.buf = buf /\ l \in Connections
    BY <2>1, <2>5, <2>6, UpdateAlike, UpdateProperties
  <2>8. Alike(conn[c], l)
    BY <2>5, <2>7 DEF Alike
  <2>9. conn'[c] = l /\ \A b \in Conns : b # c => conn'[b] = conn[b]
    BY <1>5, <2>6 DEF Inv
  <2>10. ASSUME NEW u \in Clients, Attends(u), SocketOf(u) = c
         PROVE  Passes(u, w)
    <3>1. PICK page, q, v, b, h, i, r :
              /\ q = Queue(c) /\ v = wire[c] /\ b = conn[c].buf
              /\ h = hello[c] /\ i = hello'[c] /\ page = client[u]
              /\ r = <<NotFound>>
      OBVIOUS
    <3>2. /\ page \in Pages /\ v \in Seq(Frames) /\ b \in Seq(Frames) /\ q = v \o b
          /\ Piped(page, q, conn[c], h, conv)
      BY <3>1, <2>10, AttendedIs
    <3>3. FirstRequest(page, q, conn[c], h) /\ Introduced(page, q, conn[c], conv)
      BY <3>2 DEF Piped
    <3>4. q = << >>
      BY <3>1, <3>3, <2>1, <1>2 DEF FirstRequest
    <3>5. v = << >> /\ b = << >>
      <4>1. /\ Len(v) \in Nat /\ Len(b) \in Nat /\ Len(v) + Len(b) = 0
            /\ \A s \in Seq(Frames) : Len(s) = 0 => s = << >>
        BY <3>2, <3>4, ConcatProperties, LenProperties, EmptySeq
      <4> QED
        BY <4>1, <3>2
    <3>6. r = wire'[c] \o conn'[c].buf
      <4>1. conn'[c].buf = <<NotFound>> /\ wire'[c] = << >>
        <5>1. Append(<< >>, NotFound) = <<NotFound>>
          OBVIOUS
        <5>2. conn[c].buf = << >> /\ wire'[c] = << >>
          BY <3>1, <3>5, <1>2
        <5> QED
          BY <5>1, <5>2, <2>3, <2>7, <2>9
      <4>2. <<NotFound>> \in Seq(Frames)
        BY <2>2
      <4> QED
        BY <4>1, <4>2, <3>1, ConcatEmptySeq
    <3>7. h.kind # "none" /\ i.kind = "none"
      BY <3>1, <1>2, <1>3
    <3>8. /\ Piped(page, r, l, i, conv)
          /\ \A p : Means(page, r, l, p) => Means(page, q, conn[c], p)
          /\ Continued(page, r, l, conv)
      BY <3>1, <3>2, <3>3, <3>7, <2>1, <2>7, <2>8, RefusedPiped
    <3> QED
      BY <3>1, <3>6, <3>8, <2>9, <2>10, <1>2, TouchedPasses
  <2>11. Untouched(conn'[c], wire'[c])
    BY <2>1, <2>8, <2>9 DEF Untouched, Alike
  <2> QED
    BY <2>9, <2>10, <2>11, <1>2, <1>3, StillMoves, SameItself, OneStays
<1> QED
  BY <1>2, <1>4, <1>5

LEMMA ReconnectStays ==
    ASSUME Inv, Inv', Linked, NEW c \in Conns, HandleReconnect(c), NEW w
    PROVE  Stays(w)
<1>1. PICK p, count : p = hello[c].id /\ count = hello[c].count
  OBVIOUS
<1>2. PICK l : l = SetPlayer(conn[c], conv, p, count)
  OBVIOUS
<1>3. /\ Open(c) /\ hello[c].kind = "reconnect"
      /\ UNCHANGED <<conv, wire, client>>
      /\ hello' = [hello EXCEPT ![c] = NoHello]
      /\ \/ p \in conv.base /\ conn' = [conn EXCEPT ![c] = l]
         \/ RemoveClient(c)
  BY <1>1, <1>2 DEF HandleReconnect, Inv
<1>4. hello'[c].kind = "none" /\ \A b \in Conns : b # c => hello'[b] = hello[b]
  BY <1>3 DEF Inv, NoHello
<1>5. CASE RemoveClient(c)
  BY <1>3, <1>4, <1>5, ClosedStays
<1>6. CASE p \in conv.base /\ conn' = [conn EXCEPT ![c] = l]
  <2>1. /\ conn[c] \in Connections /\ conv \in Conversations
        /\ conn[c].state = "open" /\ p \in 0 .. conv.n - 1
    BY <1>3, <1>6 DEF Inv, Consistent, Open
  <2>2. conn'[c] = l /\ \A b \in Conns : b # c => conn'[b] = conn[b]
    BY <1>6 DEF Inv
  <2>3. l.state = "open" /\ l.buf = conn[c].buf
    BY <1>2, <2>1, SetPlayerIs
  <2>4. ASSUME NEW u \in Clients, Attends(u), SocketOf(u) = c
        PROVE  Passes(u, w)
    <3>1. PICK page, q, k, h, i :
              /\ q = Queue(c) /\ k = conn[c]
              /\ h = hello[c] /\ i = hello'[c] /\ page = client[u]
      OBVIOUS
    <3>2. /\ page \in Pages /\ q = wire[c] \o k.buf
          /\ Piped(page, q, k, h, conv)
      BY <3>1, <2>4, AttendedIs
    <3>3. FirstRequest(page, q, k, h)
      BY <3>2 DEF Piped
    <3>4. page.id = p /\ p # None /\ count = Len(page.got) % CountMod
      BY <3>1, <3>3, <2>1, <1>1, <1>3 DEF FirstRequest
    <3>5. h.kind # "none" /\ i.kind = "none" /\ k \in Connections /\ k.state = "open"
      BY <3>1, <2>1, <1>3, <1>4
    <3>6. l = SetPlayer(k, conv, p, count)
      BY <3>1, <1>2
    <3>7. /\ Piped(page, q, l, i, conv)
          /\ \A r : Means(page, q, l, r) => r = p
      BY <3>2, <3>3, <3>4, <3>5, <3>6, <2>1, JoinPiped
    <3>8. \A r : Means(page, q, l, r) => Means(page, q, k, r)
      BY <3>4, <3>7 DEF Means
    <3>9. ASSUME Len(conv.log) < CountMod, PageSound(page, conv)
          PROVE  Continued(page, q, l, conv)
      <4>1. l = SetPlayer(k, conv, p, Len(page.got))
        BY <3>2, <3>4, <3>6, <3>9, <2>1, CountFits
      <4> QED
        BY <4>1, <3>2, <3>3, <3>4, <3>5, <3>9, <2>1, JoinContinued
    <3>10. q = wire'[c] \o conn'[c].buf
      BY <3>1, <3>2, <2>2, <2>3, <1>3
    <3> QED
      BY <3>1, <3>7, <3>8, <3>9, <3>10, <2>2, <2>4, <1>3, TouchedPasses
  <2>5. Untouched(conn'[c], wire'[c])
    BY <2>2, <2>3 DEF Untouched
  <2> QED
    BY <2>2, <2>4, <2>5, <1>3, <1>4, StillMoves, SameItself, OneStays
<1> QED
  BY <1>3, <1>5, <1>6

(* What stays in the buffer and what is sent are what was in the buffer.    *)
LEMMA SentAndKept ==
    ASSUME NEW w \in Seq(Frames), NEW s \in Seq(Frames), NEW m \in 0 .. Len(s)
    PROVE  /\ (w \o SubSeq(s, 1, m)) \o SubSeq(s, m + 1, Len(s)) = w \o s
           /\ SubSeq(s, 1, m) \in Seq(Frames)
           /\ SubSeq(s, m + 1, Len(s)) \in Seq(Frames)
<1>1. PICK n \in Nat : n = Len(s)
  BY LenProperties
<1>2. m \in 0 .. n /\ m \in Nat
  BY <1>1
<1>3. \A i \in 1 .. n : s[i] \in Frames
  BY <1>1, ElementOfSeq
<1>4. PICK a, b : a = SubSeq(s, 1, m) /\ b = SubSeq(s, m + 1, n)
  OBVIOUS
<1>5. a \in Seq(Frames) /\ b \in Seq(Frames)
  BY <1>2, <1>3, <1>4, SubSeqProperties
<1>6. a \o b = s
  <2>1. a \o b = SubSeq(s, 1, n)
    <3>1. /\ 1 \in 1 .. Len(s) + 1 /\ m \in 1 - 1 .. Len(s)
          /\ Len(s) \in m .. Len(s)
      BY <1>1, <1>2
    <3>2. SubSeq(s, 1, m) \o SubSeq(s, m + 1, Len(s)) = SubSeq(s, 1, Len(s))
      BY <3>1, ConcatAdjacentSubSeq
    <3> QED
      BY <3>2, <1>1, <1>4
  <2> QED
    BY <2>1, <1>1, SubSeqFull
<1>7. (w \o a) \o b = w \o (a \o b)
  BY <1>5, ConcatAssociative, SMTT(30)
<1> QED
  BY <1>1, <1>4, <1>5, <1>6, <1>7

LEMMA WriteStays ==
    ASSUME Inv, Inv', Linked, NEW c \in Conns, NEW m \in Nat, HandleWrite(c, m), NEW w
    PROVE  Stays(w)
<1>1. PICK f : f = FillWriteBuf(conn[c], conv)
  OBVIOUS
<1>2. PICK kept, sent : kept = SubSeq(f.buf, m + 1, Len(f.buf)) /\ sent = SubSeq(f.buf, 1, m)
  OBVIOUS
<1>3. PICK rest : rest = [f EXCEPT !.buf = kept]
  OBVIOUS
<1>4. /\ Open(c) /\ m =< Len(f.buf)
      /\ UNCHANGED <<conv, hello, client>>
      /\ \/ m = 0 /\ conn' = [conn EXCEPT ![c] = f]
         \/ conn' = [conn EXCEPT ![c] = UpdatePollFlags(rest, conv)]
      /\ wire' = [wire EXCEPT ![c] = @ \o sent]
  BY <1>1, <1>2, <1>3 DEF HandleWrite, Inv
<1>5. /\ conn[c] \in Connections /\ conv \in Conversations
      /\ wire[c] \in Seq(Frames) /\ conn[c].state = "open"
  BY <1>4 DEF Inv, Consistent, Open
<1>6. f \in Connections /\ f.state = "open"
  BY <1>1, <1>5, FillWriteBufType
<1>7. f.buf \in Seq(Frames) /\ m \in 0 .. Len(f.buf)
  BY <1>4, <1>6, LenProperties DEF Connections
<1>8. /\ (wire[c] \o sent) \o kept = wire[c] \o f.buf
      /\ sent \in Seq(Frames) /\ kept \in Seq(Frames)
  BY <1>2, <1>5, <1>7, SentAndKept
<1>9. PICK l : l = conn'[c]
  OBVIOUS
<1>10. /\ \A b \in Conns : b # c => conn'[b] = conn[b] /\ wire'[b] = wire[b]
       /\ wire'[c] = wire[c] \o sent
  BY <1>4 DEF Inv
<1>11. /\ Alike(f, l) /\ l.dirty = f.dirty /\ l.pong = f.pong /\ l \in Connections
       /\ wire'[c] \o l.buf = wire[c] \o f.buf
  <2>1. CASE m = 0 /\ conn' = [conn EXCEPT ![c] = f]
    <3>1. l = f
      BY <2>1, <1>9 DEF Inv
    <3>2. sent = << >>
      BY <2>1, <1>2, SubSeqEmpty
    <3>3. wire'[c] = wire[c]
      BY <3>2, <1>5, <1>10, ConcatEmptySeq
    <3> QED
      BY <3>1, <3>3, <1>6 DEF Alike
  <2>2. CASE conn' = [conn EXCEPT ![c] = UpdatePollFlags(rest, conv)]
    <3>1. l = UpdatePollFlags(rest, conv)
      BY <2>2, <1>9 DEF Inv
    <3>2. /\ rest \in Connections /\ Alike(f, rest) /\ rest.buf = kept
          /\ rest.dirty = f.dirty /\ rest.pong = f.pong
      BY <1>3, <1>6, <1>8 DEF Connections, Alike
    <3>3. /\ Alike(rest, l) /\ l.buf = kept /\ l.dirty = rest.dirty
          /\ l.pong = rest.pong /\ l \in Connections
      BY <3>1, <3>2, <1>5, UpdateAlike, UpdateProperties
    <3>4. Alike(f, l)
      BY <3>2, <3>3 DEF Alike
    <3> QED
      BY <3>2, <3>3, <3>4, <1>8, <1>10
  <2> QED
    BY <2>1, <2>2, <1>4
<1>12. Untouched(conn'[c], wire'[c])
  BY <1>6, <1>9, <1>11 DEF Untouched, Alike
<1>13. ASSUME NEW u \in Clients, Attends(u), SocketOf(u) = c
       PROVE  Passes(u, w)
  <2>1. PICK page, q, k, h :
            page = client[u] /\ q = Queue(c) /\ k = conn[c] /\ h = hello[c]
    OBVIOUS
  <2>2. /\ page \in Pages /\ q \in Seq(Frames) /\ q = wire[c] \o k.buf
        /\ k.buf \in Seq(Frames) /\ k \in Connections /\ Piped(page, q, k, h, conv)
    BY <2>1, <1>13, AttendedIs
  <2>3. PICK t : Fills(k, conv, t, f)
    <3>1. k.cursor =< Len(conv.log)
      BY <2>2 DEF Piped, Introduced
    <3> QED
      BY <3>1, <2>1, <2>2, <1>1, <1>5, FillWriteBufFills
  <2>4. PICK all : all = q \o t
    OBVIOUS
  <2>5. all \in Seq(Frames) /\ all = wire'[c] \o l.buf
    <3>1. t \in Seq(Frames) /\ f.buf = k.buf \o t
      BY <2>3 DEF Fills
    <3>2. (wire[c] \o k.buf) \o t = wire[c] \o (k.buf \o t)
      <4>1. PICK v \in Seq(Frames), b \in Seq(Frames) : v = wire[c] /\ b = k.buf
        BY <2>2, <1>5
      <4>2. (v \o b) \o t = v \o (b \o t)
        BY <3>1, ConcatAssociative, SMTT(30)
      <4> QED
        BY <4>1, <4>2
    <3>3. all \in Seq(Frames)
      BY <3>1, <2>2, <2>4, ConcatProperties
    <3> QED
      BY <3>1, <3>2, <3>3, <2>2, <2>4, <1>11
  <2>6. /\ Piped(page, all, f, h, conv)
        /\ \A p : Means(page, all, f, p) => Means(page, q, k, p)
        /\ PageSound(page, conv) /\ Continued(page, q, k, conv)
               => Continued(page, all, f, conv)
    <3>1. Recorded(conv)
      BY DEF Linked
    <3> QED
      BY <3>1, <2>2, <2>3, <2>4, <1>5, TakePiped
  <2>7. Grows(conv, conv)
    BY <1>5 DEF Grows, Conversations
  <2>8. Piped(page, all, l, h, conv)
    <3>1. Shown(page, all, f, conv)
      BY <2>6 DEF Piped
    <3>2. Shown(page, all, l, conv)
      BY <3>1, <1>11, AlikeShown
    <3> QED
      BY <3>2, <2>2, <2>5, <2>6, <2>7, <1>5, <1>6, <1>11, GrownPiped
  <2>9. \A p : Means(page, all, l, p) => Means(page, q, k, p)
    BY <2>6, <1>11, MeansAlike
  <2>10. PageSound(page, conv) /\ Continued(page, q, k, conv)
             => Continued(page, all, l, conv)
    <3>1. Introduced(page, all, f, conv)
      BY <2>6 DEF Piped
    <3> QED
      BY <3>1, <2>2, <2>5, <2>6, <2>7, <1>5, <1>6, <1>11, GrownContinued
  <2>11. h = hello'[c]
    BY <2>1, <1>4
  <2>12. /\ Piped(client[u], all, conn'[c], hello'[c], conv)
         /\ \A p : Means(client[u], all, conn'[c], p)
                      => Means(client[u], Queue(c), conn[c], p)
         /\ PageSound(client[u], conv) /\ Continued(client[u], Queue(c), conn[c], conv)
                => Continued(client[u], all, conn'[c], conv)
    BY <2>1, <2>8, <2>9, <2>10, <2>11, <1>9
  <2>13. all = wire'[c] \o conn'[c].buf
    BY <2>5, <1>9
  <2> QED
    BY <2>12, <2>13, <1>4, <1>13, TouchedPasses
<1> QED
  BY <1>4, <1>10, <1>12, <1>13, StillMoves, SameItself, OneStays

LEMMA NewPlayerStays ==
    ASSUME Inv, Inv', Linked, NEW c \in Conns, HandleNewPlayer(c), NEW w, w = c[1]
    PROVE  Stays(w)
<1>1. PICK was : was = [conv EXCEPT !.pending = TRUE]
  OBVIOUS
<1>2. PICK cv, p : cv = AddPlayer(was) /\ p = conv.n
  OBVIOUS
<1>3. PICK l : l = SetPlayer(conn[c], cv, p, 0)
  OBVIOUS
<1>4. /\ conv' = cv
      /\ conn' = [Notified(cv) EXCEPT ![c] = l]
      /\ conn[c].state = "open" /\ hello[c].kind = "new"
      /\ conv.n = 0 \/ conv.pending
      /\ hello' = [hello EXCEPT ![c] = NoHello]
      /\ wire' = wire /\ client' = client
  BY <1>1, <1>2, <1>3 DEF HandleNewPlayer, Open
<1>5. /\ conv \in Conversations /\ cv \in Conversations /\ conn[c] \in Connections
      /\ conv.n \in Nat
      /\ ~conv.started /\ conv.n < MaxPlayers
  <2>1. conv \in Conversations /\ cv \in Conversations /\ conv.n \in Nat
    BY <1>4 DEF Inv, Consistent, Conversations
  <2>2. ~conv.started /\ conv.n < MaxPlayers
    BY <1>4, PlayerAssumption DEF Inv, Consistent
  <2> QED
    BY <2>1, <2>2 DEF Inv
<1>6. /\ was \in Conversations /\ was.n = conv.n /\ was.started = conv.started
      /\ was.side = conv.side /\ was.log = conv.log
  BY <1>1, <1>5 DEF Conversations
<1>7. Moves(was, cv) /\ cv.n = conv.n + 1 /\ cv.side = conv.side
  BY <1>2, <1>5, <1>6, AddMoves
<1>8. Moves(conv, conv') /\ conv'.side = conv.side /\ p \in 0 .. cv.n - 1
  BY <1>2, <1>4, <1>5, <1>6, <1>7 DEF Moves
<1>9. \A b \in Conns : Same(conn[b], Notified(cv)[b])
  BY <1>5, NotifiedSame
<1>10. conn'[c] = l /\ \A b \in Conns : b # c => conn'[b] = Notified(cv)[b]
  BY <1>4 DEF Notified
<1>11. hello'[c].kind = "none" /\ \A b \in Conns : b # c => hello'[b] = hello[b]
  BY <1>4 DEF Inv, NoHello
<1>12. l.state = "open" /\ l.buf = conn[c].buf
  BY <1>3, <1>4, <1>5, <1>8, SetPlayerIs
<1>13. Untouched(conn'[c], wire'[c])
  BY <1>10, <1>12, SMTT(30) DEF Untouched
<1>14. ASSUME NEW u \in Clients, Attends(u), SocketOf(u) = c
       PROVE  Passes(u, w)
  <2>1. PICK page, q, k, h, i :
            /\ page = client[u] /\ q = Queue(c) /\ k = conn[c]
            /\ h = hello[c] /\ i = hello'[c]
    OBVIOUS
  <2>2. /\ page \in Pages /\ q = wire[c] \o k.buf /\ k \in Connections
        /\ Piped(page, q, k, h, conv) /\ c = <<u, page.sock>>
        /\ Sound(u) => PageSound(page, conv)
    BY <2>1, <1>14, AttendedIs
  <2>3. FirstRequest(page, q, k, h)
    BY <2>2 DEF Piped
  <2>4. page.id = None
    BY <2>1, <2>3, <1>4 DEF FirstRequest
  <2>5. h.kind # "none" /\ i.kind = "none" /\ k.state = "open" /\ page.id \in {None, p}
        /\ l = SetPlayer(k, cv, p, 0)
    BY <2>1, <2>4, <1>3, <1>4, <1>11
  <2>6. /\ Piped(page, q, l, i, cv)
        /\ \A r : Means(page, q, l, r) => r = p
    BY <2>2, <2>3, <2>5, <1>5, <1>8, JoinPiped
  <2>7. ASSUME Sound(u)
        PROVE  PageSound(page, cv) /\ Continued(page, q, l, cv)
    <3>1. PageSound(page, conv) /\ Grows(conv, cv)
      BY <2>2, <2>7, <1>4, <1>5, <1>8, MovesGrow
    <3>2. PageSound(page, cv)
      BY <3>1, <2>2, <1>5, GrownSound
    <3>3. Len(page.got) = 0
      BY <3>2, <2>4, EmptySeq DEF PageSound
    <3>4. l = SetPlayer(k, cv, p, Len(page.got))
      BY <3>3, <2>5
    <3> QED
      BY <3>2, <3>4, <2>2, <2>3, <2>5, <1>5, <1>8, JoinContinued
  <2>8. u = w
    BY <2>2
  <2>9. Known(page, cv)
    BY <2>1, <2>4, <1>7, SMTT(30) DEF Linked, Known, ViewSound
  <2>10. /\ q = wire'[c] \o conn'[c].buf
         /\ page = client'[u] /\ page.sock # None
    BY <2>1, <2>2, <1>4, <1>10, <1>12, <1>14, ZenonT(60) DEF Attends
  <2>11. \A r : Means(page, q, l, r) => Is(u, r) \/ (r = conv.n /\ u = w)
    BY <2>6, <2>8, <1>2
  <2>12. /\ Piped(page, q, conn'[c], hello'[c], conv') /\ Known(page, conv')
         /\ \A r : Means(page, q, conn'[c], r) => Is(u, r) \/ (r = conv.n /\ u = w)
         /\ Sound(u) => PageSound(page, conv') /\ Continued(page, q, conn'[c], conv')
    BY <2>1, <2>6, <2>7, <2>9, <2>11, <1>4, <1>10
  <2> QED
    BY <2>2, <2>10, <2>12, PipedPasses
<1> QED
  BY <1>4, <1>8, <1>9, <1>10, <1>11, <1>13, <1>14, OneStays

(* Something happens to the page u and its socket c.                        *)
LEMMA PageStays ==
    ASSUME Inv, Inv', Linked, UNCHANGED conv, NEW u \in Clients, NEW c, NEW i, c = <<u, i>>,
           \A v \in Clients : v # u => client'[v] = client[v],
           \A b \in Conns : b # c => /\ wire'[b] = wire[b] /\ hello'[b] = hello[b]
                                     /\ conn'[b] = conn[b],
           Untouched(conn'[c], wire'[c]), NEW w, Passes(u, w)
    PROVE  Stays(w)
<1>1. Moves(conv, conv') /\ conv'.side = conv.side
  BY StillMoves
<1>2. \A b \in Conns : Untouched(conn'[b], wire'[b])
  BY DEF Linked
<1>3. ASSUME NEW v \in Clients, v # u PROVE Passes(v, w)
  <2>1. Attends(v) => SocketOf(v) \in Conns /\ SocketOf(v) # c
    BY <1>3, AttendedIs DEF SocketOf
  <2> QED
    BY <2>1, <1>1, <1>3, SameItself, SamePasses
<1> QED
  BY <1>1, <1>2, <1>3 DEF Stays

LEMMA ConnectStays ==
    ASSUME Inv, Inv', Linked, NEW u \in Clients, NEW i \in 1 .. MaxSockets[u],
           Connect(u, i), NEW w
    PROVE  Stays(w)
<1>1. PICK c, page, k : c = <<u, i>> /\ page = client[u] /\ k = conn[c]
  OBVIOUS
<1>2. PICK l : l = [k EXCEPT !.state = "open"]
  OBVIOUS
<1>3. PICK first : first = IF page.id = None THEN NewHello
                           ELSE Reconnect(page.id, Len(page.got) % CountMod)
  OBVIOUS
<1>4. c \in Conns
  BY <1>1, ConnsMember
<1>5. /\ k.state = "unused"
      /\ UNCHANGED <<conv, wire>>
  BY <1>1 DEF Connect
<1>6. conn'[c] = l /\ \A b \in Conns : b # c => conn'[b] = conn[b]
  <2>1. conn' = [conn EXCEPT ![c].state = "open"]
    BY <1>1 DEF Connect
  <2>2. conn' = [conn EXCEPT ![c] = l]
    BY <2>1, <1>1, <1>2
  <2> QED
    BY <2>2, <1>4 DEF Inv
<1>7. hello'[c] = first /\ \A b \in Conns : b # c => hello'[b] = hello[b]
  <2>1. hello' = [hello EXCEPT ![c] = first]
    BY <1>1, <1>3 DEF Connect
  <2> QED
    BY <2>1, <1>4 DEF Inv
<1>8. PICK g : g = [page EXCEPT !.sock = i]
  OBVIOUS
<1>9. client'[u] = g /\ \A v \in Clients : v # u => client'[v] = client[v]
  <2>1. client' = [client EXCEPT ![u] = g]
    BY <1>1, <1>8 DEF Connect
  <2> QED
    BY <2>1 DEF Inv
<1>10. /\ page \in Pages /\ g \in Pages /\ g.sock = i /\ i \in Nat /\ i # None
       /\ g.id = page.id /\ g.got = page.got /\ g.view = page.view
  <2>1. page \in Pages /\ i \in Nat /\ i # None
    BY <1>1, BoundAssumption DEF Inv, None
  <2>2. g.sock = i /\ g.id = page.id /\ g.got = page.got /\ g.view = page.view
    BY <2>1, <1>8 DEF Pages
  <2> QED
    BY <2>1, <2>2, <1>9 DEF Inv
<1>11. k = NewConnection /\ wire[c] = << >> /\ l.buf = << >>
  <2>1. k = NewConnection /\ wire[c] = << >>
    BY <1>1, <1>4, <1>5 DEF Linked, Untouched
  <2> QED
    BY <2>1, <1>2 DEF NewConnection
<1>12. PICK q : q = << >>
  OBVIOUS
<1>13. q = wire'[c] \o conn'[c].buf
  <2>1. << >> \o << >> = << >>
    OBVIOUS
  <2> QED
    BY <2>1, <1>5, <1>6, <1>11, <1>12
<1>14. Known(g, conv) /\ (PageSound(page, conv) => PageSound(g, conv))
  BY <1>1, <1>10 DEF Linked, Known, ViewSound, PageSound, Latest
<1>15. /\ Piped(g, q, l, first, conv)
       /\ \A p : Means(g, q, l, p) => g.id = p
       /\ Continued(g, q, l, conv)
  <2>1. conv \in Conversations
    BY DEF Inv, Consistent
  <2>2. first = IF g.id = None THEN NewHello
                ELSE Reconnect(g.id, Len(g.got) % CountMod)
    BY <1>3, <1>10
  <2> QED
    BY <2>1, <2>2, <1>2, <1>10, <1>11, <1>12, <1>14, ConnectPiped
<1>16. \A p : Means(g, q, l, p) => Is(u, p)
  BY <1>1, <1>10, <1>15 DEF Means, Is
<1>17. Sound(u) => PageSound(g, conv)
  BY <1>1, <1>14 DEF Sound
<1>18. Passes(u, w)
  <2>1. /\ g.sock # None /\ c = <<u, g.sock>>
        /\ Known(g, conv') /\ Piped(g, q, conn'[c], hello'[c], conv')
        /\ \A p : Means(g, q, conn'[c], p) => Is(u, p)
        /\ Sound(u) => PageSound(g, conv') /\ Continued(g, q, conn'[c], conv')
    BY <1>1, <1>5, <1>6, <1>7, <1>10, <1>14, <1>15, <1>16, <1>17
  <2> QED
    BY <2>1, <1>9, <1>13, PipedPasses
<1>19. Untouched(conn'[c], wire'[c])
  BY <1>2, <1>6, <1>11 DEF NewConnection, Untouched
<1> QED
  BY <1>1, <1>5, <1>6, <1>7, <1>9, <1>18, <1>19, PageStays

(* The first frame of a queue is the first one on the wire.                 *)
LEMMA WireThenBuffer ==
    ASSUME NEW w \in Seq(Frames), w # << >>, NEW b \in Seq(Frames),
           NEW q, q = w \o b
    PROVE  /\ q \in Seq(Frames) /\ q # << >>
           /\ Head(q) = Head(w)
           /\ Tail(q) = Tail(w) \o b
<1>1. PICK m \in Nat, n \in Nat : m = Len(w) /\ n = Len(b)
  BY LenProperties
<1>2. m > 0
  BY <1>1, EmptySeq
<1>3. /\ q \in Seq(Frames) /\ Len(q) = m + n
      /\ \A i \in 1 .. m + n : q[i] = IF i =< m THEN w[i] ELSE b[i - m]
  BY <1>1, ConcatProperties
<1>4. q # << >>
  BY <1>1, <1>2, <1>3, EmptySeq
<1>5. Head(q) = Head(w)
  <2>1. q[1] = w[1]
    BY <1>2, <1>3
  <2> QED
    BY <2>1, <1>3, <1>4
<1>6. Tail(q) = Tail(w) \o b
  <2>1. /\ Tail(w) \in Seq(Frames) /\ Len(Tail(w)) = m - 1
        /\ \A i \in 1 .. m - 1 : Tail(w)[i] = w[i + 1]
    BY <1>1, HeadTailProperties
  <2>2. /\ Tail(q) \in Seq(Frames) /\ Len(Tail(q)) = m + n - 1
        /\ \A i \in 1 .. m + n - 1 : Tail(q)[i] = q[i + 1]
    BY <1>1, <1>3, <1>4, HeadTailProperties
  <2>3. PICK t : t = Tail(w) \o b
    OBVIOUS
  <2>4. /\ t \in Seq(Frames) /\ Len(t) = (m - 1) + n
        /\ \A i \in 1 .. (m - 1) + n :
               t[i] = IF i =< m - 1 THEN Tail(w)[i] ELSE b[i - (m - 1)]
    BY <2>1, <2>3, <1>1, ConcatProperties
  <2>5. ASSUME NEW i \in 1 .. m + n - 1 PROVE Tail(q)[i] = t[i]
    <3>1. i + 1 \in 1 .. m + n /\ i \in 1 .. (m - 1) + n
      OBVIOUS
    <3>2. CASE i =< m - 1
      BY <3>1, <3>2, <2>1, <2>2, <2>4, <1>3
    <3>3. CASE i > m - 1
      <4>1. ~(i + 1 =< m) /\ ~(i =< m - 1) /\ i + 1 - m = i - (m - 1)
        BY <3>3
      <4>2. Tail(q)[i] = q[i + 1]
        BY <2>2
      <4>3. q[i + 1] = b[i + 1 - m]
        <5>1. PICK z : z = i + 1
          OBVIOUS
        <5>2. z \in 1 .. m + n /\ ~(z =< m)
          BY <5>1, <4>1, <3>1
        <5>3. q[z] = b[z - m]
          BY ONLY <5>2, <1>3
        <5> QED
          BY ONLY <5>1, <5>3
      <4>4. t[i] = b[i - (m - 1)]
        BY <4>1, <3>1, <2>4
      <4>5. b[i + 1 - m] = b[i - (m - 1)]
        BY <4>1
      <4> QED
        BY <4>2, <4>3, <4>4, <4>5
    <3>4. i =< m - 1 \/ i > m - 1
      <4>1. i \in Int /\ m \in Int
        OBVIOUS
      <4> QED
        BY ONLY <4>1
    <3> QED
      BY ONLY <3>2, <3>3, <3>4
  <2>6. Len(t) = m + n - 1 /\ m + n - 1 \in Nat
    BY <2>4, <1>2
  <2> QED
    BY <2>2, <2>3, <2>4, <2>5, <2>6, SeqEqual
<1> QED
  BY <1>3, <1>4, <1>5, <1>6

LEMMA ReceiveStays ==
    ASSUME Inv, Inv', Linked, NEW u \in Clients, Receive(u), NEW w
    PROVE  Stays(w)
<1>1. PICK c, page, v, x : /\ c = <<u, page.sock>> /\ page = client[u]
                           /\ v = wire[c] /\ x = Head(v)
  OBVIOUS
<1>2. PICK g : g = Handled(page, x)
  OBVIOUS
<1>3. /\ Attends(u) /\ page.sock # None /\ v # << >> /\ c = SocketOf(u)
      /\ UNCHANGED <<conv, conn, hello>>
  BY <1>1 DEF Receive, Attends, SocketOf
<1>4. PICK q, k, h : q = Queue(c) /\ k = conn[c] /\ h = hello[c]
  OBVIOUS
<1>5. /\ c \in Conns /\ q = v \o k.buf /\ v \in Seq(Frames) /\ k.buf \in Seq(Frames)
      /\ page \in Pages /\ k \in Connections /\ conv \in Conversations
      /\ Piped(page, q, k, h, conv)
      /\ \A p : Means(page, q, k, p) => Is(u, p)
      /\ Sound(u) => PageSound(page, conv) /\ Continued(page, q, k, conv)
  BY <1>1, <1>3, <1>4, AttendedIs
<1>6. /\ client'[u] = g /\ \A z \in Clients : z # u => client'[z] = client[z]
      /\ wire'[c] = IF x.kind = "notfound" THEN << >> ELSE Tail(v)
      /\ \A b \in Conns : b # c => wire'[b] = wire[b]
  <2>1. /\ client' = [client EXCEPT ![u] = g]
        /\ wire' = [wire EXCEPT ![c] = IF x.kind = "notfound" THEN << >> ELSE Tail(v)]
    BY <1>1, <1>2, <1>5 DEF Receive, Inv
  <2> QED
    BY <2>1, <1>5 DEF Inv
<1>7. Untouched(conn'[c], wire'[c])
  BY <1>1, <1>3, <1>5 DEF Linked, Untouched
<1>8. Passes(u, w)
  <2>1. CASE x.kind = "notfound"
    <3>1. g = [page EXCEPT !.stopped = TRUE, !.sock = None]
      BY <2>1, <1>2 DEF Handled
    <3>2. g.sock = None /\ g.id = page.id /\ g.got = page.got /\ g.view = page.view
      BY <3>1, <1>5 DEF Pages
    <3> QED
      BY <3>2, <1>1, <1>3, <1>6, StillMoves, AlonePasses
  <2>2. CASE x.kind # "notfound"
    <3>1. PICK r : r = Tail(q)
      OBVIOUS
    <3>0. PICK b : b = k.buf
      OBVIOUS
    <3>2. /\ q \in Seq(Frames) /\ q # << >> /\ Head(q) = x /\ r = Tail(v) \o k.buf
      <4>1. v \in Seq(Frames) /\ v # << >> /\ b \in Seq(Frames) /\ q = v \o b
        BY <3>0, <1>3, <1>5
      <4>2. /\ q \in Seq(Frames) /\ q # << >> /\ Head(q) = Head(v)
            /\ Tail(q) = Tail(v) \o b
        BY ONLY <4>1, WireThenBuffer
      <4> QED
        BY <4>2, <3>0, <3>1, <1>1
    <3>3. r \in Seq(Frames) /\ Shifted(q, x, r)
      BY <3>1, <3>2, TailIsShifted
    <3>4. x \in Frames
      BY <3>3 DEF Shifted
    <3>5. Known(page, conv)
      BY <1>1 DEF Linked
    <3>10. PICK cv : cv = conv
      OBVIOUS
    <3>11. /\ page \in Pages /\ x \in Frames /\ x.kind # "notfound"
           /\ g = Handled(page, x) /\ q \in Seq(Frames) /\ r \in Seq(Frames)
           /\ Shifted(q, x, r) /\ k \in Connections /\ cv \in Conversations
           /\ Piped(page, q, k, h, cv) /\ Known(page, cv)
      BY <3>10, <3>2, <3>3, <3>4, <3>5, <2>2, <1>2, <1>5
    <3>6. /\ Piped(g, r, k, h, conv)
          /\ Known(g, conv)
          /\ \A p : Means(g, r, k, p) => Means(page, q, k, p)
      <4>1. /\ Piped(g, r, k, h, cv)
            /\ Known(g, cv)
            /\ \A p : Means(g, r, k, p) => Means(page, q, k, p)
        BY ONLY <3>11, ReadPiped
      <4> QED
        BY <4>1, <3>10
    <3>7. Sound(u) => PageSound(g, conv) /\ Continued(g, r, k, conv)
      <4>1. SUFFICES ASSUME Sound(u)
                     PROVE  PageSound(g, cv) /\ Continued(g, r, k, cv)
        BY <3>10
      <4>2. PageSound(page, cv) /\ Continued(page, q, k, cv)
        BY <4>1, <3>10, <1>5
      <4> QED
        BY ONLY <4>2, <3>11, ReadContinued
    <3>8. g.sock = page.sock
      BY <3>4, <2>2, <1>2, <1>5, HandledReads, SMTT(30) DEF Reads
    <3>9. /\ g.sock # None /\ c = <<u, g.sock>> /\ r = wire'[c] \o conn'[c].buf
          /\ Known(g, conv') /\ Piped(g, r, conn'[c], hello'[c], conv')
          /\ \A p : Means(g, r, conn'[c], p) => Is(u, p)
          /\ Sound(u) => PageSound(g, conv') /\ Continued(g, r, conn'[c], conv')
      BY <3>2, <3>6, <3>7, <3>8, <2>2, <1>1, <1>3, <1>4, <1>5, <1>6, ZenonT(60)
    <3> QED
      BY <3>9, <1>6, PipedPasses
  <2> QED
    BY <2>1, <2>2
<1> QED
  BY <1>1, <1>3, <1>6, <1>7, <1>8, PageStays

LEMMA DisconnectedStays ==
    ASSUME Inv, Inv', Linked, NEW u \in Clients, NEW i, NEW c, c = <<u, i>>, c \in Conns,
           client' = Disconnected(u), wire' = Emptied(c),
           UNCHANGED <<conv, conn, hello>>, NEW w
    PROVE  Stays(w)
<1>1. /\ \A v \in Clients : v # u => client'[v] = client[v]
      /\ client'[u] = [client[u] EXCEPT !.sock = None]
  BY DEF Disconnected, Inv
<1>2. wire'[c] = << >> /\ \A b \in Conns : b # c => wire'[b] = wire[b]
  BY DEF Emptied, Inv
<1>3. /\ client'[u].sock = None /\ client'[u].id = client[u].id
      /\ client'[u].got = client[u].got /\ client'[u].view = client[u].view
  BY <1>1 DEF Inv, Pages
<1>4. Passes(u, w)
  BY <1>3, StillMoves, AlonePasses
<1>5. Untouched(conn'[c], wire'[c])
  BY <1>2 DEF Linked, Untouched
<1> QED
  BY <1>1, <1>2, <1>4, <1>5, PageStays

-----------------------------------------------------------------------------
(* The links: initially, and across every step.                             *)

LEMMA InitLinked == Init => Linked /\ Delivered
<1> SUFFICES ASSUME Init PROVE Linked /\ Delivered
  OBVIOUS
<1>1. /\ conv.log = << >> /\ conv.side = [d \in Data |-> Unset]
      /\ \A c \in Conns : conn[c] = NewConnection /\ wire[c] = << >>
      /\ \A u \in Clients : client[u] = NewPage
  BY DEF Init, NewConversation
<1>2. Len(<< >>) = 0 /\ 1 .. 0 = {}
  BY EmptySeq
<1>3. \A u \in Clients : /\ client[u].id = None /\ client[u].got = << >>
                         /\ client[u].sock = None
                         /\ client[u].view = [d \in Data |-> Unset]
  BY <1>1 DEF NewPage
<1>4. \A u \in Clients : ~Attends(u)
  BY <1>3 DEF Attends
<1>5. Recorded(conv)
  BY <1>1, <1>2 DEF Recorded
<1>6. \A c \in Conns : Untouched(conn[c], wire[c])
  BY <1>1 DEF Untouched
<1>7. \A u \in Clients : Known(client[u], conv)
  BY <1>3 DEF Known, ViewSound
<1>8. \A u \in Clients : \A p : ~Is(u, p)
  BY <1>3, <1>4 DEF Is
<1>9. \A u \in Clients : PageSound(client[u], conv)
  BY <1>3 DEF PageSound
<1> QED
  BY <1>4, <1>5, <1>6, <1>7, <1>8, <1>9 DEF Linked, Delivered

LEMMA ServerStays ==
    ASSUME Inv, Inv', Linked, NEW c \in Conns, Server(c)
    PROVE  \E w : Stays(w)
<1>1. PICK w : w = c[1]
  OBVIOUS
<1>2. CASE HandleNewPlayer(c)
  BY <1>1, <1>2, NewPlayerStays
<1>3. CASE HandleNotFound(c)
  BY <1>3, NotFoundStays
<1>4. CASE HandleReconnect(c)
  BY <1>4, ReconnectStays
<1>5. CASE HandleRefused(c) \/ Lose(c)
  <2>1. /\ Open(c) /\ RemoveClient(c)
        /\ UNCHANGED <<conv, wire, client>> /\ hello' = hello
    BY <1>5 DEF HandleRefused, Lose
  <2> QED
    BY <2>1, ClosedStays
<1>6. CASE HandleStart(c)
  BY <1>6, StartStays
<1>7. CASE HandleLeave(c)
  BY <1>7, LeaveStays
<1>8. CASE HandlePing(c)
  BY <1>8, PingStays
<1>9. ASSUME NEW size \in MsgSizes, HandleChat(c, size) PROVE \E x : Stays(x)
  BY <1>9, ChatStays
<1>10. ASSUME NEW m \in 0 .. BufSize, HandleWrite(c, m) PROVE \E x : Stays(x)
  <2>1. m \in Nat
    BY BufferAssumption
  <2> QED
    BY <1>10, <2>1, WriteStays
<1> QED
  BY <1>2, <1>3, <1>4, <1>5, <1>6, <1>7, <1>8, <1>9, <1>10 DEF Server

LEMMA GameStays ==
    ASSUME Inv, Inv', Linked, Game
    PROVE  \E w : Stays(w)
<1>1. ASSUME NEW to \in Players \cup {None}, NEW size \in MsgSizes,
             GameMessage(to, size)
      PROVE  \E w : Stays(w)
  BY <1>1, GameMessageStays
<1>2. ASSUME NEW d \in Data, NEW v \in Values, NEW force \in BOOLEAN,
             GameSideband(d, v, force)
      PROVE  \E w : Stays(w)
  BY <1>2, SidebandStays
<1>3. CASE GameOver
  BY <1>3, GameOverStays
<1>4. ASSUME NEW p \in Players, Expire(p) PROVE \E w : Stays(w)
  BY <1>4, ExpireStays
<1> QED
  BY <1>1, <1>2, <1>3, <1>4 DEF Game

LEMMA PageMoves ==
    ASSUME Inv, Inv', Linked, NEW u \in Clients, Page(u)
    PROVE  \E w : Stays(w)
<1>1. ASSUME NEW i \in 1 .. MaxSockets[u], Connect(u, i) PROVE \E w : Stays(w)
  BY <1>1, ConnectStays
<1>2. CASE Receive(u)
  BY <1>2, ReceiveStays
<1>3. CASE Drop(u) \/ Notice(u)
  <2>1. PICK i, c : i = client[u].sock /\ c = <<u, i>>
    OBVIOUS
  <2>2. /\ i # None /\ client' = Disconnected(u) /\ wire' = Emptied(c)
        /\ UNCHANGED <<conv, conn, hello>>
    BY <1>3, <2>1 DEF Drop, Notice
  <2>3. c \in Conns
    BY <2>1, <2>2, ConnsMember DEF Inv
  <2> QED
    BY <2>1, <2>2, <2>3, DisconnectedStays
<1> QED
  BY <1>1, <1>2, <1>3 DEF Page

LEMMA NextLinked ==
    Inv /\ Linked /\ [Next]_vars => Linked' /\ (Delivered => Delivered')
<1> SUFFICES ASSUME Inv, Linked, [Next]_vars
             PROVE  Linked' /\ (Delivered => Delivered')
  OBVIOUS
<1>1. Inv'
  BY NextInv
<1>2. CASE Next
  <2>1. \E w : Stays(w)
    BY <1>1, <1>2, ServerStays, GameStays, PageMoves DEF Next
  <2> QED
    BY <2>1, <1>1, StaysLinked
<1>3. CASE UNCHANGED vars
  <2>1. /\ conv' = conv /\ conn' = conn /\ hello' = hello
        /\ wire' = wire /\ client' = client
    BY <1>3 DEF vars
  <2>2. Linked'
    BY <2>1 DEF Linked, PipedTo, Attends, SocketOf, Queue, Is
  <2>3. Delivered => Delivered'
    BY <2>1 DEF Delivered, ContinuedTo, Attends, SocketOf, Queue
  <2> QED
    BY <2>2, <2>3
<1> QED
  BY <1>2, <1>3

LEMMA Links == Spec => [](Inv /\ Linked /\ Delivered)
<1>1. Init => Inv /\ Linked /\ Delivered
  BY InitInv, InitLinked
<1>2. Inv /\ Linked /\ Delivered /\ [Next]_vars => (Inv /\ Linked /\ Delivered)'
  BY NextInv, NextLinked
<1> QED
  BY <1>1, <1>2, PTL DEF Spec

-----------------------------------------------------------------------------
(* The page of a connection that is attached and listens.                   *)

LEMMA ListenerAttends ==
    ASSUME Inv, Linked, NEW c \in Conns, Listening(c), Attached(c)
    PROVE  /\ c[1] \in Clients /\ Peer(c) = client[c[1]] /\ Peer(c) \in Pages
           /\ Known(Peer(c), conv)
           /\ Piped(Peer(c), wire[c] \o conn[c].buf, conn[c], hello[c], conv)
           /\ conn[c].player # None /\ conn[c] \in Connections
           /\ wire[c] \o conn[c].buf \in Seq(Frames)
           /\ Sound(c[1]) => /\ PageSound(Peer(c), conv)
                             /\ Continued(Peer(c), wire[c] \o conn[c].buf, conn[c], conv)
<1>0. PICK u \in Clients : c \in {u} \X (1 .. MaxSockets[u])
  BY DEF Conns
<1>1. PICK i \in 1 .. MaxSockets[u] : c = <<u, i>>
  BY <1>0
<1>2. c[1] = u /\ Peer(c) = client[u] /\ client[u].sock = i
  BY <1>1 DEF Peer, Attached
<1>3. i # None
  BY <1>1, BoundAssumption DEF None
<1>4. Attends(u) /\ c = SocketOf(u)
  BY <1>1, <1>2, <1>3 DEF Attends, SocketOf
<1> QED
  BY <1>2, <1>4, AttendedIs DEF Linked, Listening

(* A nonempty set of naturals with a bound has a greatest element.          *)
LEMMA MaxProperties ==
    ASSUME NEW S \in SUBSET Nat, S # {}, NEW n \in Nat, \A x \in S : x =< n
    PROVE  /\ Max(S) \in S
           /\ \A y \in S : y =< Max(S)
<1> DEFINE T == {n - x : x \in S}
<1>1. T \in SUBSET Nat /\ T # {}
  <2>1. ASSUME NEW x \in S PROVE n - x \in Nat
    <3>1. x \in Nat /\ x =< n
      OBVIOUS
    <3> QED
      BY <3>1
  <2> QED
    BY <2>1
<1>2. PICK t \in T : \A y \in T : t =< y
  BY <1>1, MinProperties
<1>3. PICK x \in S : t = n - x
  BY <1>2
<1>4. \A y \in S : x >= y
  <2>1. SUFFICES ASSUME NEW y \in S PROVE x >= y
    OBVIOUS
  <2>2. n - y \in T
    OBVIOUS
  <2>3. t =< n - y
    BY <2>2, <1>2
  <2> QED
    BY <2>3, <1>3
<1>5. /\ Max(S) \in S
      /\ \A y \in S : Max(S) >= y
  BY <1>3, <1>4 DEF Max
<1> QED
  BY <1>5

LEMMA LinkedIsCoherent ==
    ASSUME Inv, Linked
    PROVE  SidebandCoherent
<1>1. SUFFICES ASSUME NEW c \in Conns, Listening(c), Attached(c),
                      NEW d \in Data, d \notin conn[c].dirty
               PROVE  Projected(c, d) = conv.side[d]
  BY DEF SidebandCoherent
<1>2. PICK page, q, k : page = Peer(c) /\ q = wire[c] \o conn[c].buf /\ k = conn[c]
  OBVIOUS
<1>3. /\ page \in Pages /\ k.player # None /\ q \in Seq(Frames)
      /\ ViewSound(page, conv) /\ Shown(page, q, k, conv) /\ d \notin k.dirty
  BY <1>1, <1>2, ListenerAttends DEF Piped, Known
<1>4. PICK S : S = Hits(q, d)
  OBVIOUS
<1>5. S = {i \in DOMAIN q : q[i].kind = "sideband" /\ q[i].num = d}
  BY <1>4 DEF Hits, At
<1>6. Projected(c, d) = IF S = {} THEN page.view[d] ELSE q[Max(S)].value
  BY <1>2, <1>5 DEF Projected
<1>7. CASE S = {}
  <2>1. CASE conv.side[d] = Unset
    BY <2>1, <1>3, <1>6, <1>7 DEF ViewSound
  <2>2. CASE conv.side[d] # Unset
    <3>1. (~k.detailed \/ Fresh(q)) => d \in k.dirty \/ Hits(q, d) # {}
      BY <2>2, <1>3 DEF Shown
    <3>2. d \notin k.dirty /\ Hits(q, d) = {} /\ k.detailed /\ ~Fresh(q)
              => page.view[d] = conv.side[d]
      BY <1>3 DEF Shown
    <3> QED
      BY <3>1, <3>2, <1>3, <1>4, <1>6, <1>7
  <2> QED
    BY <2>1, <2>2
<1>8. CASE S # {}
  <2>1. PICK n \in Nat : n = Len(q) /\ DOMAIN q = 1 .. n
    BY <1>3, LenProperties
  <2>2. S \in SUBSET Nat /\ \A x \in S : x =< n
    BY <2>1, <1>5
  <2>3. Max(S) \in S /\ \A y \in S : y =< Max(S)
    BY <2>2, <1>8, MaxProperties
  <2> QED
    BY <2>3, <1>3, <1>4, <1>6, <1>8 DEF Shown
<1> QED
  BY <1>7, <1>8

LEMMA LinkedIsNamed ==
    ASSUME Inv, Linked
    PROVE  NamesBeforeMessages
<1>1. SUFFICES ASSUME NEW c \in Conns, Listening(c), Attached(c),
                      NEW q, q = wire[c] \o conn[c].buf,
                      NEW j \in DOMAIN q, q[j].kind = "message"
               PROVE  Count("name", SubSeq(q, 1, j)) + Base(Peer(c), q)
                          >= conv.log[q[j].num].joined
  BY DEF NamesBeforeMessages, Base, Fresh, At
<1>2. PICK page, k : page = Peer(c) /\ k = conn[c]
  OBVIOUS
<1>3. /\ page \in Pages /\ k.player # None /\ q \in Seq(Frames)
      /\ Introduced(page, q, k, conv) /\ Named(page, q, k, conv)
  BY <1>1, <1>2, ListenerAttends DEF Piped
<1>4. PICK n \in Nat : n = Len(q) /\ DOMAIN q = 1 .. n
  BY <1>3, LenProperties
<1>5. j \in 1 .. n /\ j \in At("message", q)
  BY <1>1, <1>4 DEF At
<1>6. k.detailed
  BY <1>1, <1>3 DEF Introduced, OnlyPongs
<1>7. PICK base \in Nat : base = Base(page, q)
  BY <1>3 DEF Base, Pages
<1>8. PICK joined \in Nat : joined = conv.log[q[j].num].joined
  <2>1. q[j].num \in 1 .. Len(conv.log)
    BY <1>3, <1>5 DEF Introduced
  <2>2. conv.log[q[j].num] \in LogEntries
    BY <2>1, ElementOfSeq DEF Inv, Consistent, Conversations
  <2> QED
    BY <2>2 DEF LogEntries
<1>9. \A x \in base .. joined - 1 : \E i \in At("name", q) : i < j /\ q[i].num = x
  BY <1>3, <1>5, <1>6, <1>7, <1>8 DEF Named
<1>10. PICK A : A = {i \in At("name", q) : i =< j}
  OBVIOUS
<1>11. Count("name", SubSeq(q, 1, j)) = Cardinality(A)
  <2>1. PICK s : s = SubSeq(q, 1, j)
    OBVIOUS
  <2>2. Len(s) = j /\ \A i \in 1 .. j : s[i] = q[i]
    <3>1. 1 \in 1 .. n + 1 /\ j \in 1 - 1 .. n
      BY <1>5
    <3> QED
      BY <3>1, <2>1, <1>3, <1>4, <1>5, SubSeqProperties
  <2>3. s \in Seq(Frames)
    BY <2>1, <1>3, <1>4, <1>5, SubSeqProperties
  <2>4. DOMAIN s = 1 .. j
    BY <2>2, <2>3, LenProperties
  <2>5. At("name", s) = A
    BY <2>2, <2>4, <1>4, <1>5, <1>10 DEF At
  <2> QED
    BY <2>1, <2>5 DEF Count
<1>12. IsFiniteSet(A) /\ Cardinality(A) \in Nat
  <2>1. A \subseteq 1 .. n
    BY <1>4, <1>10 DEF At
  <2>2. IsFiniteSet(1 .. n)
    BY FS_Interval
  <2> QED
    BY <2>1, <2>2, FS_Subset, FS_CardinalityType
<1>13. Cardinality(A) >= joined - base
  <2>1. CASE joined =< base
    BY <2>1, <1>12
  <2>2. CASE base < joined
    <3>1. PICK T : T = {q[i].num : i \in A}
      OBVIOUS
    <3>2. PICK f : f = [i \in A |-> q[i].num]
      OBVIOUS
    <3>3. f \in Surjection(A, T)
      BY <3>1, <3>2 DEF Surjection
    <3>4. IsFiniteSet(T) /\ Cardinality(T) =< Cardinality(A)
      BY <3>3, <1>12, FS_Surjection
    <3>5. base .. joined - 1 \subseteq T
      BY <3>1, <1>4, <1>5, <1>9, <1>10 DEF At
    <3>6. Cardinality(base .. joined - 1) = joined - base
      <4>1. base \in Int /\ joined - 1 \in Int
        OBVIOUS
      <4>2. Cardinality(base .. joined - 1)
                = IF base > joined - 1 THEN 0 ELSE (joined - 1) - base + 1
        BY <4>1, FS_Interval
      <4> QED
        BY <4>2, <2>2
    <3>7. Cardinality(base .. joined - 1) =< Cardinality(T) /\ Cardinality(T) \in Nat
      BY <3>4, <3>5, FS_Subset, FS_CardinalityType
    <3> QED
      BY <3>4, <3>6, <3>7, <1>12
  <2> QED
    BY <2>1, <2>2
<1> QED
  BY <1>2, <1>7, <1>8, <1>11, <1>12, <1>13

(* The numbers of the messages on their way, as a list.                     *)
ListsMessages(M, q) ==
    /\ M \in Seq(Nat)
    /\ \A i \in 1 .. Len(M) : \E a \in At("message", q) : M[i] = q[a].num
    /\ \A i, j \in 1 .. Len(M) : i < j => M[i] < M[j]
    /\ \A a \in At("message", q) : \E i \in 1 .. Len(M) : M[i] = q[a].num

LEMMA NumsOfMessages ==
    ASSUME NEW q \in Seq(Frames), NEW M, M = Nums(Of("message", q)),
           \A i, j \in At("message", q) : i < j => q[i].num < q[j].num
    PROVE  ListsMessages(M, q)
<1>1. PICK S : S = At("message", q)
  OBVIOUS
<1>2. PICK n \in Nat : n = Len(q) /\ DOMAIN q = 1 .. n
  BY LenProperties
<1>3. S \in SUBSET Nat /\ IsFiniteSet(S)
  <2>1. S \subseteq 1 .. n
    BY <1>1, <1>2 DEF At
  <2>2. IsFiniteSet(1 .. n)
    BY FS_Interval
  <2>3. S \in SUBSET Nat
    BY <2>1
  <2> QED
    BY <2>1, <2>2, <2>3, FS_Subset
<1>4. \A a \in S : q[a].num \in Nat
  <2>1. SUFFICES ASSUME NEW a \in S PROVE q[a].num \in Nat
    OBVIOUS
  <2>2. a \in 1 .. Len(q)
    BY <1>1, <1>2 DEF At
  <2>3. q[a] \in Frames
    BY <2>2, ElementOfSeq
  <2> QED
    BY <2>3 DEF Frames
<1>5. PICK m, I : m = Cardinality(S) /\ I = Increasing(S)
  OBVIOUS
<1>6. /\ I \in [1 .. m -> S] /\ m \in Nat
      /\ \A a \in S : I[Rank(S, a)] = a /\ Rank(S, a) \in 1 .. m
      /\ \A i, j \in 1 .. m : i < j => I[i] < I[j]
  BY <1>3, <1>5, IncreasingProperties, IncreasingIncreases, RankType
<1>7. M = [i \in 1 .. m |-> q[I[i]].num]
  BY <1>1, <1>5, <1>6 DEF Nums, Of
<1>8. M \in Seq(Nat) /\ Len(M) = m
  <2>1. M \in [1 .. m -> Nat]
    BY <1>4, <1>6, <1>7
  <2> QED
    BY <2>1, <1>6, SeqDef
<1>9. \A i, j \in 1 .. m : i < j => M[i] < M[j]
  BY <1>1, <1>6, <1>7, SMTT(30)
<1>10. \A i \in 1 .. m : I[i] \in S /\ M[i] = q[I[i]].num
  BY <1>6, <1>7
<1>11. \A a \in S : Rank(S, a) \in 1 .. m /\ M[Rank(S, a)] = q[a].num
  BY <1>6, <1>7
<1> QED
  BY <1>1, <1>8, <1>9, <1>10, <1>11 DEF ListsMessages

(* A list up to a number and one from there on are one list.                *)
LEMMA DueSplits ==
    ASSUME NEW cv, NEW p, NEW lo \in Nat, NEW hi \in Nat, lo =< hi,
           NEW D, D = Due(cv, p, 0, lo), NEW M \in Seq(Nat), Lists(M, cv, p, lo, hi)
    PROVE  D \o M = Due(cv, p, 0, hi)
<1>1. PICK T : T = D \o M
  OBVIOUS
<1>2. /\ D \in Seq(Nat)
      /\ \A i \in 1 .. Len(D) : D[i] \in 1 .. lo /\ Visible(cv, p, D[i])
      /\ \A i, j \in 1 .. Len(D) : i < j => D[i] < D[j]
      /\ \A x \in 1 .. lo : Visible(cv, p, x) => \E i \in 1 .. Len(D) : D[i] = x
  <2>1. 0 \in Nat /\ 0 + 1 = 1
    OBVIOUS
  <2>2. \A x \in 1 .. lo : Visible(cv, p, x) => \E i \in 1 .. Len(D) : D[i] = x
    BY <2>1, DueCovers DEF VisibleFrom
  <2> QED
    BY <2>1, <2>2, DueHas
<1>3. PICK m \in Nat, n \in Nat : m = Len(D) /\ n = Len(M)
  BY <1>2, LenProperties
<1>4. /\ T \in Seq(Nat) /\ Len(T) = m + n
      /\ \A i \in 1 .. m + n : T[i] = IF i =< m THEN D[i] ELSE M[i - m]
  BY <1>1, <1>2, <1>3, ConcatProperties
<1>5. \A i \in 1 .. m : T[i] = D[i] /\ T[i] \in 1 .. lo /\ Visible(cv, p, T[i])
  <2>1. SUFFICES ASSUME NEW i \in 1 .. m
                 PROVE  T[i] = D[i] /\ T[i] \in 1 .. lo /\ Visible(cv, p, T[i])
    OBVIOUS
  <2>2. i \in 1 .. m + n /\ i =< m
    OBVIOUS
  <2>3. T[i] = D[i]
    BY <2>2, <1>4
  <2> QED
    BY <2>3, <1>2, <1>3
<1>6. ASSUME NEW i \in m + 1 .. m + n
      PROVE  /\ i - m \in 1 .. n /\ T[i] = M[i - m]
             /\ T[i] \in lo + 1 .. hi /\ Visible(cv, p, T[i])
  <2>1. i - m \in 1 .. n /\ i \in 1 .. m + n /\ ~(i =< m)
    BY <1>3
  <2>2. T[i] = M[i - m]
    BY <2>1, <1>4
  <2>3. M[i - m] \in lo + 1 .. hi /\ Visible(cv, p, M[i - m])
    BY <2>1, <1>3 DEF Lists
  <2> QED
    BY <2>1, <2>2, <2>3
<1>7. ASSUME NEW i \in 1 .. m + n
      PROVE  T[i] \in 1 .. hi /\ Visible(cv, p, T[i])
  <2>1. CASE i =< m
    <3>1. i \in 1 .. m
      BY <2>1
    <3>2. T[i] \in 1 .. lo /\ Visible(cv, p, T[i])
      BY <3>1, <1>5
    <3> QED
      BY <3>2
  <2>2. CASE ~(i =< m)
    <3>1. i \in m + 1 .. m + n
      BY <2>2
    <3>2. T[i] \in lo + 1 .. hi /\ Visible(cv, p, T[i])
      BY <3>1, <1>6
    <3> QED
      BY <3>2
  <2> QED
    BY <2>1, <2>2
<1>8. ASSUME NEW i \in 1 .. m + n, NEW j \in 1 .. m + n, i < j
      PROVE  T[i] < T[j]
  <2>1. CASE j =< m
    <3>1. i \in 1 .. m /\ j \in 1 .. m
      BY <2>1, <1>8
    <3> QED
      BY <3>1, <1>2, <1>3, <1>5, <1>8
  <2>2. CASE ~(j =< m) /\ i =< m
    <3>1. i \in 1 .. m /\ j \in m + 1 .. m + n
      BY <2>2
    <3>2. T[i] \in 1 .. lo /\ T[j] \in lo + 1 .. hi
      BY <3>1, <1>5, <1>6
    <3> QED
      BY <3>2
  <2>3. CASE ~(i =< m)
    <3>1. i \in m + 1 .. m + n /\ j \in m + 1 .. m + n /\ i - m < j - m
      BY <2>3, <1>8
    <3>2. /\ i - m \in 1 .. n /\ T[i] = M[i - m]
          /\ j - m \in 1 .. n /\ T[j] = M[j - m]
      BY <3>1, <1>6
    <3> QED
      BY <3>1, <3>2, <1>3 DEF Lists
  <2> QED
    BY <2>1, <2>2, <2>3
<1>9. ASSUME NEW x \in 1 .. hi, Visible(cv, p, x)
      PROVE  \E i \in 1 .. m + n : T[i] = x
  <2>1. CASE x =< lo
    <3>1. PICK i \in 1 .. m : D[i] = x
      BY <2>1, <1>2, <1>3, <1>9
    <3>2. i \in 1 .. m + n /\ T[i] = x
      BY <3>1, <1>5
    <3> QED
      BY <3>2
  <2>2. CASE ~(x =< lo)
    <3>1. x \in lo + 1 .. hi
      BY <2>2
    <3>2. PICK i \in 1 .. n : M[i] = x
      BY <3>1, <1>3, <1>9 DEF Lists
    <3>3. PICK j \in m + 1 .. m + n : j = i + m
      OBVIOUS
    <3>4. T[j] = M[j - m] /\ j - m = i /\ j \in 1 .. m + n
      BY <3>3, <1>6
    <3> QED
      BY <3>2, <3>4
  <2> QED
    BY <2>1, <2>2
<1>10. Lists(T, cv, p, 0, hi)
  BY <1>4, <1>7, <1>8, <1>9 DEF Lists
<1>11. 0 \in Nat /\ T \in Seq(Nat)
  BY <1>4
<1> QED
  BY <1>1, <1>10, <1>11, DueIs

LEMMA LinkedIsExact ==
    ASSUME Inv, Linked, Delivered, Len(conv.log) < CountMod
    PROVE  PipelineExact
<1>1. SUFFICES ASSUME NEW c \in Conns, Listening(c), Attached(c)
               PROVE  Peer(c).got \o Nums(Of("message", wire[c] \o conn[c].buf))
                          = Due(conv, conn[c].player, 0, conn[c].cursor)
  BY DEF PipelineExact
<1>2. PICK page, q, k, cv : /\ page = Peer(c) /\ q = wire[c] \o conn[c].buf
                            /\ k = conn[c] /\ cv = conv
  OBVIOUS
<1>3. Sound(c[1])
  BY <1>1, ListenerAttends DEF Sound, Delivered
<1>4. /\ page \in Pages /\ k.player # None /\ q \in Seq(Frames) /\ k \in Connections
      /\ Introduced(page, q, k, cv) /\ PageSound(page, cv) /\ Continued(page, q, k, cv)
  BY <1>1, <1>2, <1>3, ListenerAttends DEF Piped
<1>5. PICK p : p = k.player
  OBVIOUS
<1>6. PICK hi \in Nat : hi = k.cursor
  BY <1>4 DEF Connections
<1>7. PICK lo \in Nat : lo = Latest(page)
  BY <1>4, LatestType
<1>8. page.id = None \/ page.id = p
  BY <1>4, <1>5 DEF Introduced, Means
<1>9. page.got = Due(cv, p, 0, lo)
  <2>1. CASE page.id = None
    <3>1. page.got = << >> /\ lo = 0
      BY <2>1, <1>4, <1>7 DEF PageSound, Latest
    <3> QED
      BY <3>1, DueNothing
  <2>2. CASE page.id # None
    BY <2>2, <1>4, <1>7, <1>8 DEF PageSound
  <2> QED
    BY <2>1, <2>2
<1>10. Follows(page, q, k, cv, p)
  BY <1>4, <1>5 DEF Continued, Means
<1>11. lo =< hi
  BY <1>5, <1>6, <1>7, <1>10 DEF Follows
<1>12. PICK M : M = Nums(Of("message", q))
  OBVIOUS
<1>13. \A i, j \in At("message", q) : i < j => q[i].num < q[j].num
  BY <1>10 DEF Follows
<1>14. ListsMessages(M, q)
  BY <1>4, <1>12, <1>13, NumsOfMessages
<1>15. ASSUME NEW i \in 1 .. Len(M)
       PROVE  M[i] \in lo + 1 .. hi /\ Visible(cv, p, M[i])
  <2>1. PICK a \in At("message", q) : M[i] = q[a].num
    BY <1>14 DEF ListsMessages
  <2>2. q[a].num > lo /\ q[a].num =< hi /\ Visible(cv, p, q[a].num)
    BY <1>5, <1>6, <1>7, <1>10 DEF Follows
  <2>3. M[i] \in Nat
    BY <1>14, ElementOfSeq DEF ListsMessages
  <2> QED
    BY <2>1, <2>2, <2>3
<1>16. ASSUME NEW x \in lo + 1 .. hi, Visible(cv, p, x)
       PROVE  \E i \in 1 .. Len(M) : M[i] = x
  <2>1. PICK a \in At("message", q) : q[a].num = x
    BY <1>5, <1>6, <1>7, <1>10, <1>16 DEF Follows
  <2> QED
    BY <2>1, <1>14 DEF ListsMessages
<1>17. page.got \o M = Due(cv, p, 0, hi)
  <2>1. Lists(M, cv, p, lo, hi) /\ M \in Seq(Nat)
    BY <1>14, <1>15, <1>16 DEF Lists, ListsMessages
  <2> QED
    BY <2>1, <1>9, <1>11, DueSplits
<1> QED
  BY <1>2, <1>5, <1>6, <1>12, <1>17

-----------------------------------------------------------------------------
(* The stream that the conversation promises.                               *)

(* A step that moves the conversation alone lets it speak, or does nothing. *)
LEMMA MovesAreSpeech ==
    ASSUME Inv, Moves(conv, conv'), UNCHANGED client
    PROVE  [Promise!Next]_Promise!vars
<1>1. PICK L, T : /\ L = [i \in DOMAIN conv.log |-> conv.log[i].to]
                  /\ T = [i \in DOMAIN conv'.log |-> conv'.log[i].to]
  OBVIOUS
<1>2. CASE conv'.log = conv.log
  BY <1>2 DEF Promise!vars
<1>3. CASE conv'.log # conv.log
  <2>1. PICK e \in LogEntries : conv'.log = Append(conv.log, e)
    BY <1>3 DEF Moves
  <2>2. PICK s, t, n : s = conv.log /\ t = conv'.log /\ n = Len(s)
    OBVIOUS
  <2>3. s \in Seq(LogEntries) /\ n \in Nat /\ DOMAIN s = 1 .. n
    BY <2>2, LenProperties DEF Inv, Consistent, Conversations
  <2>4. /\ Len(t) = n + 1 /\ DOMAIN t = 1 .. n + 1 /\ t[n + 1] = e
        /\ \A i \in 1 .. n : t[i] = s[i]
    <3>1. t = Append(s, e) /\ t \in Seq(LogEntries)
      BY <2>1, <2>2, <2>3, AppendProperties
    <3>2. Len(t) = n + 1 /\ t[n + 1] = e /\ \A i \in 1 .. n : t[i] = s[i]
      BY <2>2, <2>3, <3>1, AppendProperties
    <3> QED
      BY <3>1, <3>2, LenProperties
  <2>5. e.to \in Players \cup {None}
    BY DEF LogEntries
  <2>6. \A i \in 1 .. n : s[i].to \in Players \cup {None}
    <3>1. \A i \in 1 .. n : s[i] \in LogEntries
      BY <2>2, <2>3, ElementOfSeq
    <3> QED
      BY <3>1 DEF LogEntries
  <2>7. T = Append(L, e.to)
    <3>1. L = [i \in 1 .. n |-> s[i].to] /\ T = [i \in 1 .. n + 1 |-> t[i].to]
      BY <1>1, <2>2, <2>3, <2>4
    <3>2. L \in Seq(Players \cup {None}) /\ Len(L) = n
      <4>1. L \in [1 .. n -> Players \cup {None}]
        BY <3>1, <2>6
      <4> QED
        BY <4>1, <2>3, SeqDef
    <3>3. T \in Seq(Players \cup {None}) /\ Len(T) = n + 1
      <4>1. T \in [1 .. n + 1 -> Players \cup {None}]
        <5>1. ASSUME NEW i \in 1 .. n + 1 PROVE t[i].to \in Players \cup {None}
          <6>1. i \in 1 .. n \/ i = n + 1
            BY <2>3
          <6> QED
            BY <6>1, <2>4, <2>5, <2>6
        <5> QED
          BY <5>1, <3>1
      <4>2. n + 1 \in Nat
        BY <2>3
      <4> QED
        BY <4>1, <4>2, SeqDef
    <3>4. PICK A : A = Append(L, e.to)
      OBVIOUS
    <3>5. /\ A \in Seq(Players \cup {None}) /\ Len(A) = n + 1
          /\ A[n + 1] = e.to /\ \A i \in 1 .. n : A[i] = L[i]
      BY <3>2, <3>4, <2>5, AppendProperties
    <3>6. \A i \in 1 .. n + 1 : T[i] = A[i]
      BY <3>1, <3>5, <2>3, <2>4
    <3> QED
      BY <3>3, <3>4, <3>5, <3>6, SeqEqual
  <2>8. Promise!Speak
    BY <2>5, <2>7, <1>1 DEF Promise!Speak
  <2> QED
    BY <2>8 DEF Promise!Next
<1> QED
  BY <1>2, <1>3

(* What a page reads is handed to it, or makes it its player.               *)
LEMMA ReceiveIsHand ==
    ASSUME Inv, Linked, Delivered, Len(conv.log) < CountMod,
           NEW u \in Clients, Receive(u)
    PROVE  [Promise!Next]_Promise!vars
<1>1. PICK c, page, v, x : /\ c = SocketOf(u) /\ page = client[u]
                           /\ v = wire[c] /\ x = Head(v)
  OBVIOUS
<1>2. PICK g : g = Handled(page, x)
  OBVIOUS
<1>3. /\ Attends(u) /\ v # << >> /\ conv' = conv
      /\ client' = [client EXCEPT ![u] = g]
  BY <1>1, <1>2 DEF Receive, Attends, SocketOf
<1>4. /\ client'[u] = g /\ \A z \in Clients : z # u => client'[z] = client[z]
  BY <1>3 DEF Inv
<1>5. PICK q, k, b, cv : q = Queue(c) /\ k = conn[c] /\ b = k.buf /\ cv = conv
  OBVIOUS
<1>6. Sound(u)
  BY DEF Sound, Delivered
<1>7. /\ v \in Seq(Frames) /\ b \in Seq(Frames) /\ q = v \o b
      /\ q \in Seq(Frames) /\ page \in Pages /\ k \in Connections
      /\ cv \in Conversations /\ Introduced(page, q, k, cv)
      /\ \A p : Means(page, q, k, p) => Is(u, p)
      /\ PageSound(page, cv) /\ Continued(page, q, k, cv)
  BY <1>1, <1>3, <1>5, <1>6, AttendedIs DEF Piped
<1>8. PICK r : r = Tail(q)
  OBVIOUS
<1>9. q # << >> /\ Head(q) = x
  <2>1. v \in Seq(Frames) /\ v # << >> /\ b \in Seq(Frames) /\ q = v \o b
    BY <1>3, <1>7
  <2>2. q # << >> /\ Head(q) = Head(v)
    BY ONLY <2>1, WireThenBuffer
  <2> QED
    BY <2>2, <1>1
<1>10. r \in Seq(Frames) /\ Shifted(q, x, r)
  BY <1>7, <1>8, <1>9, TailIsShifted
<1>11. x \in Frames /\ 1 \in At(x.kind, q) /\ q[1] = x
  BY <1>10 DEF Shifted
<1>12. PICK I, G, J, H : /\ I = [z \in Clients |-> client[z].id]
                         /\ J = [z \in Clients |-> client'[z].id]
                         /\ G = [z \in Clients |-> client[z].got]
                         /\ H = [z \in Clients |-> client'[z].got]
  OBVIOUS
<1>13. CASE x.kind = "notfound"
  <2>1. g.id = page.id /\ g.got = page.got
    BY <1>2, <1>7, <1>13 DEF Handled, Pages
  <2>2. J = I /\ H = G
    BY <2>1, <1>1, <1>4, <1>12
  <2> QED
    BY <2>2, <1>3, <1>12 DEF Promise!vars
<1>14. CASE x.kind # "notfound"
  <2>1. Reads(page, x, g)
    BY <1>2, <1>7, <1>11, <1>14, HandledReads
  <2>2. CASE x.kind = "message"
    <3>1. /\ g.id = page.id /\ g.got = Append(page.got, x.num)
      BY <2>1, <2>2 DEF Reads
    <3>2. /\ page.id # None /\ Latest(page) \in Nat
          /\ x.num \in Latest(page) + 1 .. Len(cv.log)
          /\ Visible(cv, page.id, x.num)
          /\ \A z \in Latest(page) + 1 .. x.num - 1 : ~Visible(cv, page.id, z)
      BY <2>2, <1>7, <1>10, HeadIsNext
    <3>3. J = I /\ H = [G EXCEPT ![u] = Append(@, x.num)]
      BY <3>1, <1>1, <1>4, <1>12
    <3>4. PICK n \in Nat : n = Len(cv.log) /\ DOMAIN cv.log = 1 .. n
      BY <1>7, LenProperties DEF Conversations
    <3>5. PICK L : L = [i \in DOMAIN conv.log |-> conv.log[i].to]
      OBVIOUS
    <3>6. /\ L \in Seq(Players \cup {None}) /\ Len(L) = n
          /\ \A i \in 1 .. n : L[i] = cv.log[i].to
      <4>1. \A i \in 1 .. n : cv.log[i] \in LogEntries
        BY <3>4, <1>7, ElementOfSeq DEF Conversations
      <4>2. L \in [1 .. n -> Players \cup {None}]
        BY <4>1, <3>4, <3>5, <1>5 DEF LogEntries
      <4> QED
        BY <4>2, <3>4, <3>5, <1>5, SeqDef
    <3>7. Promise!Latest(u) = Latest(page) /\ I[u] = page.id
      BY <1>1, <1>12 DEF Promise!Latest, Latest
    <3>8. Promise!IsNext(u, x.num)
      <4>1. L[x.num] \in {I[u], None}
        BY <3>2, <3>4, <3>6, <3>7 DEF Visible
      <4>2. \A z \in Latest(page) + 1 .. x.num - 1 : L[z] \notin {I[u], None}
        BY <3>2, <3>4, <3>6, <3>7, SMTT(30) DEF Visible
      <4> QED
        BY <4>1, <4>2, <3>5, <3>7, <1>12 DEF Promise!IsNext
    <3>9. Promise!Hand(u)
      BY <3>2, <3>3, <3>4, <3>5, <3>6, <3>7, <3>8, <1>3, <1>12 DEF Promise!Hand
    <3> QED
      BY <3>9 DEF Promise!Next
  <2>3. CASE x.kind = "details"
    <3>1. g.id = x.num /\ g.got = page.got
      BY <2>1, <2>3 DEF Reads
    <3>2. x.num \in Players /\ x.num # None
      BY <2>3, <1>11, PlayerAssumption DEF Frames, Players, None
    <3>3. Means(page, q, k, x.num)
      BY <2>3, <3>2, <1>11 DEF Means
    <3>4. CASE page.id = None
      <4>1. \A z \in Clients : client[z].id # x.num
        <5>1. Is(u, x.num)
          BY <3>3, <1>7
        <5>2. \A z \in Clients : client[z].id = x.num => Is(z, x.num)
          BY <3>2 DEF Is
        <5> QED
          BY <5>1, <5>2, <3>2, <3>4, <1>1 DEF Linked
      <4>2. J = [I EXCEPT ![u] = x.num] /\ H = G /\ I[u] = None
        BY <3>1, <3>4, <1>1, <1>4, <1>12
      <4>3. Promise!Become(u, x.num)
        BY <4>1, <4>2, <1>3, <1>12 DEF Promise!Become
      <4> QED
        BY <4>3, <3>2 DEF Promise!Next
    <3>5. CASE page.id # None
      <4>1. page.id = x.num
        BY <3>3, <3>5, <1>7 DEF Introduced, Means
      <4>2. J = I /\ H = G
        BY <4>1, <3>1, <1>1, <1>4, <1>12
      <4> QED
        BY <4>2, <1>3, <1>12 DEF Promise!vars
    <3> QED
      BY <3>4, <3>5
  <2>4. CASE x.kind \notin {"message", "details"}
    <3>1. g.id = page.id /\ g.got = page.got
      BY <2>1, <2>4 DEF Reads
    <3>2. J = I /\ H = G
      BY <3>1, <1>1, <1>4, <1>12
    <3> QED
      BY <3>2, <1>3, <1>12 DEF Promise!vars
  <2> QED
    BY <2>2, <2>3, <2>4
<1> QED
  BY <1>13, <1>14

LEMMA InitIsPromised == Init => Promise!Init
<1> SUFFICES ASSUME Init PROVE Promise!Init
  OBVIOUS
<1>1. conv.log = << >> /\ client = [u \in Clients |-> NewPage]
  BY DEF Init, NewConversation
<1>2. [i \in DOMAIN << >> |-> << >>[i].to] = << >>
  OBVIOUS
<1>3. /\ [u \in Clients |-> client[u].id] = [u \in Clients |-> None]
      /\ [u \in Clients |-> client[u].got] = [u \in Clients |-> << >>]
  BY <1>1 DEF NewPage
<1> QED
  BY <1>1, <1>2, <1>3 DEF Promise!Init

LEMMA NextIsPromised ==
    ASSUME Inv, Linked, Delivered, Len(conv.log) < CountMod, [Next]_vars
    PROVE  [Promise!Next]_Promise!vars
<1>1. Inv'
  BY NextInv
<1>2. CASE UNCHANGED vars
  BY <1>2 DEF vars, Promise!vars
<1>3. CASE \E c \in Conns : Server(c)
  <2>1. PICK c \in Conns : Server(c)
    BY <1>3
  <2>2. Moves(conv, conv')
    BY <2>1, <1>1, ServerStays DEF Stays
  <2>3. UNCHANGED client
    BY <2>1 DEF Server, HandleNewPlayer, HandleNotFound, HandleReconnect, HandleRefused,
                HandleStart, HandleLeave, HandlePing, HandleChat, HandleWrite, Lose
  <2> QED
    BY <2>2, <2>3, MovesAreSpeech
<1>4. CASE Game
  <2>1. Moves(conv, conv')
    BY <1>1, <1>4, GameStays DEF Stays
  <2>2. UNCHANGED client
    BY <1>4, ZenonT(60) DEF Game, GameMessage, GameSideband, GameOver, Expire
  <2> QED
    BY <2>1, <2>2, MovesAreSpeech
<1>5. CASE \E u \in Clients : Page(u)
  <2>1. PICK u \in Clients : Page(u)
    BY <1>5
  <2>2. CASE Receive(u)
    BY <2>2, ReceiveIsHand
  <2>3. CASE Drop(u) \/ Notice(u) \/ \E i \in 1 .. MaxSockets[u] : Connect(u, i)
    <3>1. PICK s : client' = [client EXCEPT ![u].sock = s]
      BY <2>3 DEF Drop, Notice, Connect, Disconnected
    <3>2. conv' = conv
      BY <2>3 DEF Drop, Notice, Connect
    <3>3. \A v \in Clients : client'[v].id = client[v].id /\ client'[v].got = client[v].got
      BY <3>1 DEF Inv, Pages
    <3>4. /\ [v \in Clients |-> client'[v].id] = [v \in Clients |-> client[v].id]
          /\ [v \in Clients |-> client'[v].got] = [v \in Clients |-> client[v].got]
      BY <3>3
    <3> QED
      BY <3>2, <3>4 DEF Promise!vars
  <2> QED
    BY <2>1, <2>2, <2>3 DEF Page
<1> QED
  BY <1>2, <1>3, <1>4, <1>5 DEF Next

-----------------------------------------------------------------------------
(* Every variable holds values of the type the code declares for it,        *)
(* whatever the number of pages, players and messages: in particular the    *)
(* cursor of pcx-connection.c never becomes negative and the page only      *)
(* learns player numbers that exist.                                        *)
THEOREM TypeCorrect == Spec => []TypeOK
BY Invariance, InvImplies, PTL

(* A connection that has something to send is always polled for writing,    *)
(* for every size of the write buffer and any number of connections that    *)
(* listen to the same player.                                               *)
THEOREM NeverLosesWakeup == Spec => []NoLostWakeup
BY Invariance, InvImplies, PTL

(* Whatever is still offered to newcomers passes the assertions of          *)
(* pcx_conversation_add_player, for every game's limits.                    *)
THEOREM OffersAreJoinable == Spec => []OfferedIsJoinable
BY Invariance, InvImplies, PTL

(* What a page has, what is on the wire and what waits in the write buffer  *)
(* are the messages of its player up to the cursor, for any number of       *)
(* sockets that break at any point, every size of the write buffer and      *)
(* every mix of public and private messages, as long as the count with      *)
(* which a page resumes does not wrap.                                      *)
THEOREM NothingLostOrRepeated ==
    Spec => [](Len(conv.log) < CountMod => PipelineExact)
BY Links, LinkedIsExact, PTL

(* No message overtakes the name of a player who was in the game when it    *)
(* was queued, whatever fits into the write buffer and in however many      *)
(* pieces it leaves.                                                        *)
THEOREM NamesComeFirst == Spec => []NamesBeforeMessages
BY Links, LinkedIsNamed, PTL

(* An update of a datum is never forgotten, whatever older values of it are *)
(* still in the buffer or on the wire, and however often the page starts    *)
(* anew.                                                                    *)
THEOREM DataStayCoherent == Spec => []SidebandCoherent
BY Links, LinkedIsCoherent, PTL

(* The conversation with its connections, buffers and resumptions           *)
(* implements the stream that doc/protocol.txt promises: in order, exactly  *)
(* once, to one player a page, as long as the count does not wrap.          *)
THEOREM StreamImplemented ==
    Spec /\ [](Len(conv.log) < CountMod) => ImplementsStream
<1>1. Inv /\ Linked /\ Delivered /\ Len(conv.log) < CountMod /\ [Next]_vars
          => [Promise!Next]_Promise!vars
  BY NextIsPromised
<1> QED
  BY <1>1, InitIsPromised, Links, PTL DEF Spec, ImplementsStream, Promise!Spec
=============================================================================
