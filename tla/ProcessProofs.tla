---------------------------- MODULE ProcessProofs ---------------------------
(***************************************************************************)
(* What the process does for everybody keeps its promises, for every value *)
(* of the constants: the messages and the requests of a Telegram bot, its  *)
(* updates, the log, the loop, and a socket under TLS. Each is a           *)
(* specification of its own with an inductive invariant of its own; at the *)
(* end, what MCProcess says of them all at once.                           *)
(***************************************************************************)
EXTENDS MCProcess, EnumerationProofs, SequenceTheorems, WellFoundedInduction

-----------------------------------------------------------------------------
(* What the Telegram bot sends, for every number of chats, every limit,    *)
(* every period and every behaviour of the clock.                          *)
(*                                                                         *)
(* The queue does not remember all it has sent: get drops what is old, and *)
(* find_chat the whole record of a chat that looks dead.  The invariant is *)
(* that what has been dropped is indeed old, so that the record is the end *)
(* of the history and no more recent message is missing from it.           *)
(*                                                                         *)
(* maybe_start_request has one lemma for each property, in which its       *)
(* callers' state is a parameter; the callers only have to show that what  *)
(* they pass is sound.  That nobody waits for less than the rate asks for  *)
(* rests on the records: the queue computes the delay from what it         *)
(* remembers, the property is about what was sent.                         *)

(* Times s in the order of the clock, none of them in the future.           *)
Ordered(s, t) ==
    /\ \A i, j \in DOMAIN s : i =< j => s[i] =< s[j]
    /\ \A i \in DOMAIN s : s[i] =< t

(* The record r is the end of the history s, and what is missing is old.    *)
Covers(s, r, t) ==
    /\ Len(r) =< Len(s)
    /\ \A i \in 1 .. Len(r) : r[i] = s[Len(s) - Len(r) + i]
    /\ \A i \in 1 .. Len(s) - Len(r) : s[i] + Period =< t

(* The rate, for the history of one chat.                                   *)
Rated(s) ==
    \A i \in DOMAIN s : i > Limit => s[i] - s[i - Limit] >= Period

Recorded(s, r, t) == Ordered(s, t) /\ Covers(s, r, t) /\ Rated(s)

Inv ==
    /\ now \in Nat
    /\ sent \in [Chats -> Seq(Nat)]
    /\ recent \in [Chats -> Seq(Nat)]
    /\ \A c \in Chats : Recorded(sent[c], recent[c], now)

-----------------------------------------------------------------------------
(* The prefix that update_recent_messages drops exists.                     *)
LEMMA OldPrefixProperties ==
    ASSUME NEW r \in Seq(Nat), now \in Nat
    PROVE  /\ OldPrefix(r) \in 0 .. Len(r)
           /\ \A i \in 1 .. OldPrefix(r) : Old(r[i])
           /\ OldPrefix(r) < Len(r) => ~Old(r[OldPrefix(r) + 1])
<1> DEFINE Fits(n) == /\ \A i \in 1 .. n : Old(r[i])
                      /\ n < Len(r) => ~Old(r[n + 1])
<1>1. \E n \in 0 .. Len(r) : Fits(n)
  <2>1. CASE \A i \in 1 .. Len(r) : Old(r[i])
    <3>1. Len(r) \in 0 .. Len(r) /\ Fits(Len(r))
      BY <2>1
    <3> QED
      BY <3>1
  <2>2. CASE \E i \in 1 .. Len(r) : ~Old(r[i])
    <3> DEFINE young == {i \in 1 .. Len(r) : ~Old(r[i])}
    <3>1. young \subseteq Nat /\ young # {}
      BY <2>2
    <3>2. PICK x \in young : \A y \in young : ~ (<<y, x>> \in OpToRel(<, Nat))
      BY <3>1, NatLessThanWellFounded, WFMin, ZenonT(60)
    <3>3. \A y \in young : x =< y
      <4> SUFFICES ASSUME NEW y \in young
                   PROVE  x =< y
        OBVIOUS
      <4>1. x \in Nat /\ y \in Nat /\ ~ (<<y, x>> \in OpToRel(<, Nat))
        BY <3>1, <3>2, ZenonT(60)
      <4>2. ~ (y < x)
        BY <4>1 DEF OpToRel
      <4>3. \A a, b \in Nat : ~ (b < a) => a =< b
        OBVIOUS
      <4> HIDE DEF young
      <4> QED
        BY <4>1, <4>2, <4>3, ZenonT(60)
    <3>4. \A i \in 1 .. x - 1 : Old(r[i])
      BY <3>3
    <3>5. x - 1 \in 0 .. Len(r) /\ Fits(x - 1)
      BY <3>4
    <3> QED
      BY <3>5
  <2> QED
    BY <2>1, <2>2
<1> QED
  BY <1>1 DEF OldPrefix

(* Dropping old messages leaves a record that covers the history.           *)
LEMMA LatelyCovers ==
    ASSUME NEW s \in Seq(Nat), NEW r \in Seq(Nat), now \in Nat, Covers(s, r, now)
    PROVE  Lately(r) \in Seq(Nat) /\ Covers(s, Lately(r), now)
<1> DEFINE n == OldPrefix(r)
<1>1. n \in 0 .. Len(r) /\ \A i \in 1 .. n : Old(r[i])
  BY OldPrefixProperties
<1> HIDE DEF n
<1>2. /\ SubSeq(r, n + 1, Len(r)) \in Seq(Nat)
      /\ Len(SubSeq(r, n + 1, Len(r))) = Len(r) - n
      /\ \A i \in 1 .. Len(r) - n : SubSeq(r, n + 1, Len(r))[i] = r[n + i]
  BY <1>1
<1> DEFINE l == SubSeq(r, n + 1, Len(r))
<1>3. Lately(r) = l
  BY DEF Lately, n
<1> HIDE DEF l
<1>4. l \in Seq(Nat) /\ Len(l) = Len(r) - n /\ \A i \in 1 .. Len(r) - n : l[i] = r[n + i]
  BY <1>2 DEF l
<1>5. Len(r) \in Nat /\ Len(s) \in Nat
  OBVIOUS
<1>6. Len(l) =< Len(s)
  BY <1>1, <1>4, <1>5 DEF Covers
<1>7. ASSUME NEW i \in 1 .. Len(l)
      PROVE  l[i] = s[Len(s) - Len(l) + i]
  <2>1. l[i] = r[n + i] /\ n + i \in 1 .. Len(r)
    <3>1. n \in Nat /\ Len(l) = Len(r) - n /\ i \in 1 .. Len(r) - n
      BY <1>1, <1>4, <1>5
    <3> QED
      BY <1>4, <1>5, <3>1
  <2>2. r[n + i] = s[Len(s) - Len(r) + (n + i)]
    BY <2>1 DEF Covers
  <2>3. Len(s) - Len(r) + (n + i) = Len(s) - Len(l) + i
    BY <1>1, <1>4, <1>5
  <2> QED
    BY <2>1, <2>2, <2>3
<1>8. ASSUME NEW i \in 1 .. Len(s) - Len(l)
      PROVE  s[i] + Period =< now
  <2>1. CASE i =< Len(s) - Len(r)
    BY <2>1, <1>5 DEF Covers
  <2>2. CASE i > Len(s) - Len(r)
    <3> DEFINE k == i - (Len(s) - Len(r))
    <3>1. k \in 1 .. n /\ k \in 1 .. Len(r)
      BY <2>2, <1>1, <1>4, <1>5, SMTT(30)
    <3>2. r[k] = s[Len(s) - Len(r) + k]
      BY <3>1 DEF Covers
    <3>3. Len(s) - Len(r) + k = i
      BY <1>5
    <3>4. Old(r[k])
      BY <3>1, <1>1
    <3> QED
      BY <3>2, <3>3, <3>4 DEF Old
  <2> QED
    BY <2>1, <2>2, <1>4, <1>5
<1> QED
  BY <1>3, <1>4, <1>6, <1>7, <1>8 DEF Covers

(* So does forgetting a record whose last message is old.                   *)
LEMMA ForgettingCovers ==
    ASSUME NEW s \in Seq(Nat), NEW r \in Seq(Nat), now \in Nat, Period \in Nat,
           Ordered(s, now), Covers(s, r, now),
           r # << >> => Old(r[Len(r)])
    PROVE  Covers(s, << >>, now)
<1>1. Len(r) \in Nat /\ Len(s) \in Nat /\ Len(r) =< Len(s)
  BY DEF Covers
<1>2. ASSUME NEW i \in 1 .. Len(s)
      PROVE  s[i] + Period =< now
  <2>1. CASE r = << >>
    BY <2>1 DEF Covers
  <2>2. CASE r # << >>
    <3>1. Len(r) \in 1 .. Len(r)
      BY <2>2, <1>1, EmptySeq
    <3>2. r[Len(r)] = s[Len(s)]
      BY <3>1, <1>1 DEF Covers
    <3>3. s[Len(s)] + Period =< now
      BY <3>2, <2>2 DEF Old
    <3>4. s[i] =< s[Len(s)]
      BY <1>1 DEF Ordered
    <3>5. s[i] \in Nat /\ s[Len(s)] \in Nat
      BY <1>1
    <3> QED
      BY <3>3, <3>4, <3>5
  <2> QED
    BY <2>1, <2>2
<1> QED
  BY <1>1, <1>2 DEF Covers

(* A chat whose record is shorter than the limit may send now.              *)
LEMMA SendingIsRecorded ==
    ASSUME NEW s \in Seq(Nat), NEW r \in Seq(Nat), now \in Nat, Period \in Nat,
           Limit \in Nat \ {0}, Recorded(s, r, now), Len(r) < Limit
    PROVE  Recorded(Append(s, now), Append(r, now), now)
<1> DEFINE S == Append(s, now)
           R == Append(r, now)
<1>1. /\ S \in Seq(Nat) /\ Len(S) = Len(s) + 1 /\ S[Len(s) + 1] = now
      /\ \A i \in 1 .. Len(s) : S[i] = s[i]
  BY AppendProperties
<1>2. /\ R \in Seq(Nat) /\ Len(R) = Len(r) + 1 /\ R[Len(r) + 1] = now
      /\ \A i \in 1 .. Len(r) : R[i] = r[i]
  BY AppendProperties
<1>3. Len(s) \in Nat /\ Len(r) \in Nat /\ Len(r) =< Len(s)
  BY DEF Recorded, Covers
<1>4. DOMAIN S = 1 .. Len(s) + 1 /\ DOMAIN s = 1 .. Len(s)
  BY <1>1, <1>3
<1>5. \A i \in 1 .. Len(s) : s[i] \in Nat /\ s[i] =< now
  BY <1>4 DEF Recorded, Ordered
<1> HIDE DEF S, R
<1>6. Ordered(S, now)
  <2>1. ASSUME NEW i \in DOMAIN S
        PROVE  S[i] =< now
    <3>1. CASE i = Len(s) + 1
      BY <3>1, <1>1
    <3>2. CASE i # Len(s) + 1
      <4>1. i \in 1 .. Len(s)
        BY <3>2, <1>3, <1>4
      <4> QED
        BY <4>1, <1>1, <1>5
    <3> QED
      BY <3>1, <3>2
  <2>2. ASSUME NEW i \in DOMAIN S, NEW j \in DOMAIN S, i =< j
        PROVE  S[i] =< S[j]
    <3>1. CASE j = Len(s) + 1
      BY <3>1, <2>1, <1>1
    <3>2. CASE j # Len(s) + 1
      <4>1. i \in DOMAIN s /\ j \in DOMAIN s
        BY <3>2, <2>2, <1>3, <1>4
      <4>2. s[i] =< s[j]
        BY <4>1, <2>2 DEF Recorded, Ordered
      <4> QED
        BY <4>1, <4>2, <1>1, <1>4
    <3> QED
      BY <3>1, <3>2
  <2> QED
    BY <2>1, <2>2 DEF Ordered
<1>7. Covers(S, R, now)
  <2>1. Len(S) - Len(R) = Len(s) - Len(r)
    BY <1>1, <1>2, <1>3
  <2>2. ASSUME NEW i \in 1 .. Len(R)
        PROVE  R[i] = S[Len(S) - Len(R) + i]
    <3>1. CASE i = Len(r) + 1
      BY <3>1, <2>1, <1>1, <1>2, <1>3
    <3>2. CASE i # Len(r) + 1
      <4>1. i \in 1 .. Len(r) /\ Len(s) - Len(r) + i \in 1 .. Len(s)
        BY <3>2, <1>2, <1>3, SMTT(30)
      <4>2. r[i] = s[Len(s) - Len(r) + i]
        BY <4>1 DEF Recorded, Covers
      <4> QED
        BY <4>1, <4>2, <2>1, <1>1, <1>2
    <3> QED
      BY <3>1, <3>2
  <2>3. ASSUME NEW i \in 1 .. Len(S) - Len(R)
        PROVE  S[i] + Period =< now
    <3>1. i \in 1 .. Len(s) - Len(r) /\ i \in 1 .. Len(s)
      BY <2>1, <1>3
    <3>2. s[i] + Period =< now
      BY <3>1 DEF Recorded, Covers
    <3> QED
      BY <3>1, <3>2, <1>1
  <2> QED
    BY <2>2, <2>3, <1>1, <1>2, <1>3 DEF Covers
<1>8. Rated(S)
  <2> SUFFICES ASSUME NEW i \in DOMAIN S, i > Limit
               PROVE  S[i] - S[i - Limit] >= Period
    BY DEF Rated
  <2>1. i - Limit \in 1 .. Len(s) /\ S[i - Limit] = s[i - Limit]
    BY <1>1, <1>3, <1>4, SMTT(30)
  <2>2. CASE i = Len(s) + 1
    <3>1. i - Limit \in 1 .. Len(s) - Len(r)
      BY <2>1, <2>2, <1>3
    <3>2. s[i - Limit] + Period =< now
      BY <3>1 DEF Recorded, Covers
    <3>3. s[i - Limit] \in Nat
      BY <2>1, <1>5
    <3>4. S[i] = now /\ S[i - Limit] = s[i - Limit]
      BY <2>1, <2>2, <1>1
    <3>5. \A x, y \in Nat : x + Period =< y => y - x >= Period
      OBVIOUS
    <3> QED
      BY <3>2, <3>3, <3>4, <3>5
  <2>3. CASE i # Len(s) + 1
    <3>1. i \in DOMAIN s /\ S[i] = s[i]
      BY <2>3, <1>1, <1>3, <1>4, SMTT(30)
    <3>2. s[i] - s[i - Limit] >= Period
      BY <3>1 DEF Recorded, Rated
    <3> QED
      BY <3>1, <3>2, <2>1
  <2> QED
    BY <2>2, <2>3
<1> QED
  BY <1>6, <1>7, <1>8 DEF Recorded, S, R
-----------------------------------------------------------------------------
(* Looking at the chats in turn keeps the records.                          *)
LEMMA UpdatingIsRecorded ==
    ASSUME now \in Nat, sent \in [Chats -> Seq(Nat)],
           NEW STATE r, r \in [Chats -> Seq(Nat)],
           \A c \in Chats : Recorded(sent[c], r[c], now),
           NEW STATE list, NEW STATE q, NEW n
    PROVE  /\ Updated(list, q, r, n) \in [Chats -> Seq(Nat)]
           /\ \A c \in Chats : Recorded(sent[c], Updated(list, q, r, n)[c], now)
<1>1. \A c \in Chats : Lately(r[c]) \in Seq(Nat) /\ Recorded(sent[c], Lately(r[c]), now)
  <2> SUFFICES ASSUME NEW c \in Chats
               PROVE  Lately(r[c]) \in Seq(Nat) /\ Recorded(sent[c], Lately(r[c]), now)
    OBVIOUS
  <2>1. sent[c] \in Seq(Nat) /\ r[c] \in Seq(Nat) /\ Covers(sent[c], r[c], now)
    BY DEF Recorded
  <2>2. Lately(r[c]) \in Seq(Nat) /\ Covers(sent[c], Lately(r[c]), now)
    BY <2>1, LatelyCovers
  <2> QED
    BY <2>2 DEF Recorded
<1> QED
  BY <1>1 DEF Updated

(* Whatever maybe_start_request does, the records it leaves are right.      *)
LEMMA StartingIsRecorded ==
    ASSUME now \in Nat, sent \in [Chats -> Seq(Nat)],
           NEW STATE r, r \in [Chats -> Seq(Nat)],
           \A c \in Chats : Recorded(sent[c], r[c], now),
           NEW STATE list, NEW STATE q, NEW STATE reqs, NEW STATE inUse,
           MaybeStartRequest(list, q, r, reqs, inUse)
    PROVE  /\ sent' \in [Chats -> Seq(Nat)]
           /\ recent' \in [Chats -> Seq(Nat)]
           /\ \A c \in Chats : Recorded(sent'[c], recent'[c], now)
<1>1. CASE recent' = r /\ UNCHANGED sent
  BY <1>1
<1>2. CASE HoldBack(list, q, r)
  BY <1>2, UpdatingIsRecorded DEF HoldBack
<1>3. CASE TakeMessage(list, q, r)
  <2>1. PICK i \in 1 .. Len(list) :
            /\ Able(list, q, r, i)
            /\ recent' = [Updated(list, q, r, i) EXCEPT ![list[i]] = Append(@, now)]
            /\ sent' = [sent EXCEPT ![list[i]] = Append(@, now)]
    BY <1>3 DEF TakeMessage
  <2> DEFINE c == list[i]
             up == Updated(list, q, r, i)
  <2>2. up \in [Chats -> Seq(Nat)] /\ \A d \in Chats : Recorded(sent[d], up[d], now)
    BY UpdatingIsRecorded
  <2>3. ASSUME c \in Chats
        PROVE  Len(up[c]) < Limit
    <3>1. i \in Waiting(list, q) /\ Len(Lately(r[list[i]])) < Limit
      BY <2>1 DEF Waiting, Able
    <3>2. up[c] = IF \E j \in Waiting(list, q) : j =< i /\ list[j] = c
                  THEN Lately(r[c]) ELSE r[c]
      BY <2>3 DEF Updated
    <3>3. \E j \in Waiting(list, q) : j =< i /\ list[j] = c
      BY <3>1 DEF c
    <3> QED
      BY <3>1, <3>2, <3>3
  <2> HIDE DEF c, up
  <2>4. /\ recent' = [up EXCEPT ![c] = Append(@, now)]
        /\ sent' = [sent EXCEPT ![c] = Append(@, now)]
    BY <2>1 DEF c, up
  <2>5. ASSUME c \in Chats
        PROVE  /\ Append(sent[c], now) \in Seq(Nat)
               /\ Append(up[c], now) \in Seq(Nat)
               /\ Recorded(Append(sent[c], now), Append(up[c], now), now)
    <3>1. sent[c] \in Seq(Nat) /\ up[c] \in Seq(Nat) /\ Recorded(sent[c], up[c], now)
      BY <2>2, <2>5
    <3>2. Len(up[c]) < Limit
      BY <2>3, <2>5
    <3>3. Recorded(Append(sent[c], now), Append(up[c], now), now)
      BY <3>1, <3>2, SendingIsRecorded, LimitAssumption, ClockAssumption
    <3> QED
      BY <3>1, <3>3, AppendProperties
  <2> QED
    BY <2>2, <2>4, <2>5
<1> QED
  BY <1>1, <1>2, <1>3 DEF MaybeStartRequest

(* Dropping the records of dead chats loses nothing that is recent.         *)
LEMMA RememberedIsRecorded ==
    ASSUME Inv, NEW c \in Chats
    PROVE  /\ Remembered(c) \in [Chats -> Seq(Nat)]
           /\ \A d \in Chats : Recorded(sent[d], Remembered(c)[d], now)
<1>1. ASSUME NEW d \in Chats, d \notin Kept(c)
      PROVE  Recorded(sent[d], << >>, now)
  <2>1. recent[d] # << >> => Old(recent[d][Len(recent[d])])
    BY <1>1 DEF Kept, Dead
  <2>2. /\ sent[d] \in Seq(Nat) /\ recent[d] \in Seq(Nat) /\ now \in Nat
        /\ Ordered(sent[d], now) /\ Covers(sent[d], recent[d], now)
    BY <1>1 DEF Inv, Recorded
  <2>3. Covers(sent[d], << >>, now)
    BY <2>1, <2>2, ForgettingCovers, ClockAssumption
  <2> QED
    BY <2>3, <1>1 DEF Inv, Recorded
<1> QED
  BY <1>1 DEF Inv, Remembered

-----------------------------------------------------------------------------
LEMMA InitEstablishesInv == Init => Inv
<1> SUFFICES ASSUME Init
             PROVE  Inv
  OBVIOUS
<1>1. Recorded(<< >>, << >>, 0)
  BY DEF Recorded, Ordered, Covers, Rated
<1> QED
  BY <1>1 DEF Init, Inv

LEMMA NextPreservesInv == Inv /\ [Next]_vars => Inv'
<1> SUFFICES ASSUME Inv, [Next]_vars
             PROVE  Inv'
  OBVIOUS
<1> USE DEF Inv
<1>1. ASSUME NEW c \in Chats, SendMessage(c)
      PROVE  Inv'
  <2>1. now' = now
    BY <1>1 DEF SendMessage
  <2>2. /\ Remembered(c) \in [Chats -> Seq(Nat)]
        /\ \A d \in Chats : Recorded(sent[d], Remembered(c)[d], now)
    BY RememberedIsRecorded
  <2>3. MaybeStartRequest(ListWith(c), [queue EXCEPT ![c] = Append(@, asked[c] + 1)],
                          Remembered(c), requests, busy)
    BY <1>1 DEF SendMessage
  <2>4. /\ sent' \in [Chats -> Seq(Nat)]
        /\ recent' \in [Chats -> Seq(Nat)]
        /\ \A d \in Chats : Recorded(sent'[d], recent'[d], now)
    BY <2>2, <2>3, StartingIsRecorded
  <2> QED
    BY <2>1, <2>4
<1>2. ASSUME SendRequest
      PROVE  Inv'
  <2>1. now' = now
    BY <1>2 DEF SendRequest
  <2>2. MaybeStartRequest(chats, queue, recent, Append(requests, Command), busy)
    BY <1>2 DEF SendRequest
  <2> QED
    BY <2>1, <2>2, StartingIsRecorded
<1>3. CASE StartRequest
  BY <1>3 DEF StartRequest
<1>4. ASSUME Finish
      PROVE  Inv'
  <2>1. now' = now
    BY <1>4 DEF Finish
  <2>2. MaybeStartRequest(chats, queue, recent, requests, FALSE)
    BY <1>4 DEF Finish
  <2> QED
    BY <2>1, <2>2, StartingIsRecorded
<1>5. ASSUME SendDelay
      PROVE  Inv'
  <2>1. now' = now
    BY <1>5 DEF SendDelay
  <2>2. MaybeStartRequest(chats, queue, recent, requests, busy)
    BY <1>5 DEF SendDelay
  <2> QED
    BY <2>1, <2>2, StartingIsRecorded
<1>6. ASSUME Tick
      PROVE  Inv'
  <2>1. now' = now + 1 /\ UNCHANGED <<sent, recent>>
    BY <1>6 DEF Tick
  <2>2. ASSUME NEW c \in Chats
        PROVE  Recorded(sent[c], recent[c], now + 1)
    <3>1. /\ sent[c] \in Seq(Nat) /\ recent[c] \in Seq(Nat)
          /\ Ordered(sent[c], now) /\ Covers(sent[c], recent[c], now) /\ Rated(sent[c])
      BY DEF Recorded
    <3>2. \A i \in DOMAIN sent[c] : sent[c][i] \in Nat
      BY <3>1
    <3>3. Ordered(sent[c], now + 1)
      BY <3>1, <3>2 DEF Ordered
    <3>4. \A i \in 1 .. Len(sent[c]) - Len(recent[c]) : sent[c][i] \in Nat
      BY <3>1, <3>2
    <3>5. Covers(sent[c], recent[c], now + 1)
      BY <3>1, <3>4, ClockAssumption DEF Covers
    <3> QED
      BY <3>1, <3>3, <3>5 DEF Recorded
  <2> QED
    BY <2>1, <2>2
<1>7. CASE UNCHANGED vars
  BY <1>7 DEF vars
<1> QED
  BY <1>1, <1>2, <1>3, <1>4, <1>5, <1>6, <1>7 DEF Next

(* No chat is ever sent more than Limit messages in a Period.               *)
THEOREM KeepsToTheRate == Spec => []RateLimited
<1>1. Inv => RateLimited
  BY DEF Inv, Recorded, Rated, RateLimited
<1> QED
  BY <1>1, InitEstablishesInv, NextPreservesInv, PTL DEF Spec

-----------------------------------------------------------------------------
(* The bot is never idle for nothing, and sends every message in its turn.  *)

Requests == Messages \cup {Command}
Has(list, c) == \E i \in DOMAIN list : list[i] = c

(* A list of chats without repetition.                                      *)
Listed(list) ==
    /\ list \in Seq(Chats)
    /\ \A i, j \in DOMAIN list : list[i] = list[j] => i = j

(* Only chats of the list have messages, new or old.                        *)
OnlyListed(list, q, r) ==
    \A c \in Chats : ~Has(list, c) => q[c] = << >> /\ r[c] = << >>

-----------------------------------------------------------------------------
(* Lists.                                                                   *)

LEMMA ThoseAreListed ==
    ASSUME NEW list, Listed(list), NEW S
    PROVE  /\ Listed(Those(list, S))
           /\ \A c : Has(Those(list, S), c) <=> Has(list, c) /\ c \in S
<1> DEFINE P == {i \in DOMAIN list : list[i] \in S}
           N == Cardinality(P)
           f == Increasing(P)
           those == [k \in 1 .. N |-> list[f[k]]]
<1>1. Len(list) \in Nat /\ DOMAIN list = 1 .. Len(list)
  BY DEF Listed
<1>2. P \in SUBSET Nat /\ IsFiniteSet(P)
  <2>1. P \subseteq 1 .. Len(list) /\ IsFiniteSet(1 .. Len(list))
    BY <1>1, FS_Interval
  <2> QED
    BY <2>1, FS_Subset
<1>3. /\ f \in [1 .. N -> P] /\ N \in Nat
      /\ \A k \in 1 .. N : Rank(P, f[k]) = k
      /\ \A i \in P : f[Rank(P, i)] = i /\ Rank(P, i) \in 1 .. N
  BY <1>2, IncreasingProperties, RankType
<1>4. Those(list, S) = those
  <2>1. DOMAIN f = 1 .. N
    BY <1>3
  <2> HIDE DEF N
  <2> QED
    BY <2>1 DEF Those
<1> HIDE DEF f, N
<1>5. \A k \in 1 .. N : f[k] \in DOMAIN list /\ list[f[k]] \in S /\ list[f[k]] \in Chats
  BY <1>3, <1>1 DEF Listed
<1>6. those \in Seq(Chats) /\ DOMAIN those = 1 .. N /\ Len(those) = N
  BY <1>3, <1>5
<1>7. \A k, l \in 1 .. N : those[k] = those[l] => k = l
  <2> SUFFICES ASSUME NEW k \in 1 .. N, NEW l \in 1 .. N, list[f[k]] = list[f[l]]
               PROVE  k = l
    OBVIOUS
  <2>1. f[k] = f[l]
    BY <1>5 DEF Listed
  <2> QED
    BY <2>1, <1>3
<1>8. ASSUME NEW c, Has(list, c), c \in S
      PROVE  Has(those, c)
  <2>1. PICK i \in P : list[i] = c
    BY <1>8 DEF Has
  <2>2. Rank(P, i) \in 1 .. N /\ f[Rank(P, i)] = i
    BY <1>3
  <2>3. those[Rank(P, i)] = c
    BY <2>1, <2>2
  <2> HIDE DEF those, P
  <2> QED
    BY <2>2, <2>3, <1>6 DEF Has
<1>9. ASSUME NEW c, Has(those, c)
      PROVE  Has(list, c) /\ c \in S
  <2>1. PICK k \in 1 .. N : those[k] = c
    BY <1>9, <1>6 DEF Has
  <2>2. list[f[k]] = c
    BY <2>1
  <2> QED
    BY <2>2, <1>5 DEF Has
<1> HIDE DEF those
<1> QED
  BY <1>4, <1>6, <1>7, <1>8, <1>9 DEF Listed

(* find_chat and pcx_message_queue_add leave a list with c in it and the    *)
(* chats that are not dead.                                                 *)
LEMMA ListWithIsListed ==
    ASSUME Listed(chats), NEW c \in Chats
    PROVE  /\ Listed(ListWith(c))
           /\ \A d : Has(ListWith(c), d) <=> d = c \/ (Known(d) /\ d \in Kept(c))
<1> DEFINE kept == Those(chats, Kept(c))
<1>1. /\ Listed(kept)
      /\ \A d : Has(kept, d) <=> Known(d) /\ d \in Kept(c)
  BY ThoseAreListed DEF Known, Has
<1>2. c \in Kept(c)
  BY DEF Kept
<1>3. CASE Known(c)
  <2>1. ListWith(c) = kept
    BY <1>3 DEF ListWith
  <2> QED
    BY <2>1, <1>1, <1>2, <1>3
<1>4. CASE ~Known(c)
  <2> DEFINE l == << c >> \o kept
  <2>1. ListWith(c) = l
    BY <1>4 DEF ListWith
  <2> HIDE DEF kept
  <2>2. kept \in Seq(Chats) /\ Len(kept) \in Nat /\ DOMAIN kept = 1 .. Len(kept)
    BY <1>1 DEF Listed
  <2>3. /\ l \in Seq(Chats) /\ Len(l) = Len(kept) + 1 /\ DOMAIN l = 1 .. Len(kept) + 1
        /\ l[1] = c
        /\ \A i \in 1 .. Len(kept) : l[i + 1] = kept[i]
    BY <2>2
  <2>4. \A i \in 1 .. Len(kept) + 1 : i = 1 \/ (i - 1 \in 1 .. Len(kept) /\ l[i] = kept[i - 1])
    BY <2>2, <2>3
  <2> HIDE DEF l
  <2>5. \A i \in 1 .. Len(kept) : kept[i] # c
    BY <1>1, <1>4, <2>2 DEF Has
  <2>6. ASSUME NEW i \in DOMAIN l, NEW j \in DOMAIN l, l[i] = l[j]
        PROVE  i = j
    <3>1. CASE i = 1 \/ j = 1
      BY <3>1, <2>3, <2>4, <2>5, <2>6
    <3>2. CASE i # 1 /\ j # 1
      <4>1. i - 1 \in DOMAIN kept /\ j - 1 \in DOMAIN kept /\ kept[i - 1] = kept[j - 1]
        BY <3>2, <2>2, <2>3, <2>4, <2>6
      <4>2. i - 1 = j - 1
        BY <4>1, <1>1 DEF Listed
      <4> QED
        BY <4>2, <2>3
    <3> QED
      BY <3>1, <3>2
  <2>7. ASSUME NEW d
        PROVE  Has(l, d) <=> d = c \/ Has(kept, d)
    <3>1. Has(l, d) => d = c \/ Has(kept, d)
      BY <2>2, <2>3, <2>4 DEF Has
    <3>2. Has(kept, d) => Has(l, d)
      <4>1. \A i \in 1 .. Len(kept) : i + 1 \in 1 .. Len(kept) + 1
        BY <2>2
      <4> QED
        BY <4>1, <2>2, <2>3 DEF Has
    <3>3. Has(l, c)
      <4>1. 1 \in 1 .. Len(kept) + 1
        BY <2>2
      <4> QED
        BY <4>1, <2>3 DEF Has
    <3> QED
      BY <3>1, <3>2, <3>3
  <2> QED
    BY <2>1, <2>3, <2>6, <2>7, <1>1 DEF Listed
<1> QED
  BY <1>3, <1>4

(* A chat that find_chat has removed had nothing to say and is forgotten.   *)
LEMMA OthersAreEmpty ==
    ASSUME Listed(chats), OnlyListed(chats, queue, recent), NEW c \in Chats
    PROVE  \A d \in Chats : ~Has(ListWith(c), d) =>
               d # c /\ queue[d] = << >> /\ Remembered(c)[d] = << >>
<1> SUFFICES ASSUME NEW d \in Chats, ~Has(ListWith(c), d)
             PROVE  d # c /\ queue[d] = << >> /\ Remembered(c)[d] = << >>
  OBVIOUS
<1>1. d # c /\ (~Has(chats, d) \/ d \notin Kept(c))
  BY ListWithIsListed DEF Known, Has
<1>2. Remembered(c)[d] = IF d \in Kept(c) THEN recent[d] ELSE << >>
  BY DEF Remembered
<1>3. CASE ~Has(chats, d)
  BY <1>1, <1>2, <1>3 DEF OnlyListed
<1>4. CASE d \notin Kept(c)
  BY <1>1, <1>2, <1>4 DEF Kept, Dead
<1> QED
  BY <1>1, <1>3, <1>4

-----------------------------------------------------------------------------
(* Waiting for the rate.                                                    *)

(* What is left of a record begins with a message that is not old, and that *)
(* was sent no later than the one the limit is counted from.                *)
LEMMA LatelyBegins ==
    ASSUME NEW s \in Seq(Nat), NEW r \in Seq(Nat), now \in Nat, Limit \in Nat \ {0},
           Period \in Nat, Ordered(s, now), Covers(s, r, now), Len(Lately(r)) >= Limit
    PROVE  /\ Len(s) >= Limit
           /\ Head(Lately(r)) \in Nat
           /\ Head(Lately(r)) + Period > now
           /\ Head(Lately(r)) =< s[Len(s) - Limit + 1]
           /\ s[Len(s) - Limit + 1] \in Nat
<1> DEFINE n == OldPrefix(r)
           l == Lately(r)
<1>1. n \in 0 .. Len(r) /\ (n < Len(r) => ~Old(r[n + 1]))
  BY OldPrefixProperties
<1>2. l \in Seq(Nat) /\ Covers(s, l, now)
  BY LatelyCovers
<1>3. l = SubSeq(r, n + 1, Len(r))
  BY DEF Lately
<1> HIDE DEF n
<1>4. Len(l) = Len(r) - n /\ (n < Len(r) => l[1] = r[n + 1])
  <2>1. Len(r) \in Nat
    OBVIOUS
  <2> QED
    BY <1>1, <1>3, <2>1
<1>5. Len(r) \in Nat /\ Len(s) \in Nat /\ Len(l) \in Nat /\ Len(l) >= Limit
  BY <1>2
<1> HIDE DEF l
<1>6. n < Len(r) /\ Head(l) = l[1] /\ l[1] \in Nat
  <2>1. Len(l) > 0
    BY <1>5
  <2>2. n < Len(r)
    BY <2>1, <1>1, <1>4, <1>5
  <2>3. Head(l) = l[1] /\ l[1] \in Nat
    BY <2>1, <1>2
  <2> QED
    BY <2>2, <2>3
<1>7. l[1] + Period > now
  BY <1>1, <1>4, <1>6, SMTT(30) DEF Old
<1>8. Len(l) =< Len(s) /\ l[1] = s[Len(s) - Len(l) + 1]
  BY <1>2, <1>5 DEF Covers
<1>9. s[Len(s) - Len(l) + 1] =< s[Len(s) - Limit + 1]
  <2>1. /\ Len(s) - Len(l) + 1 \in DOMAIN s /\ Len(s) - Limit + 1 \in DOMAIN s
        /\ Len(s) - Len(l) + 1 =< Len(s) - Limit + 1
    BY <1>5, <1>8, SMTT(30)
  <2> QED
    BY <2>1 DEF Ordered
<1>10. s[Len(s) - Limit + 1] \in Nat
  BY <1>5, <1>8, SMTT(30)
<1>11. /\ Len(s) >= Limit
       /\ Head(l) \in Nat /\ Head(l) + Period > now
       /\ Head(l) =< s[Len(s) - Limit + 1]
  <2>1. Len(s) >= Limit
    BY <1>5, <1>8
  <2> QED
    BY <2>1, <1>6, <1>7, <1>8, <1>9
<1> QED
  BY <1>10, <1>11 DEF l

(* A timer of whole units that ends after a time does so within one unit.   *)
LEMMA RoundedUp ==
    ASSUME NEW t \in Nat, now \in Nat, now =< t, Ms \in Nat \ {0}
    PROVE  /\ now + ((t - now) \div Ms + 1) * Ms \in Nat
           /\ now + ((t - now) \div Ms + 1) * Ms =< t + Ms
<1> DEFINE x == t - now
           d == x \div Ms
<1>1. x \in Nat /\ t = now + x
  OBVIOUS
<1> HIDE DEF x
<1>2. d \in Nat /\ d * Ms =< x
  BY <1>1
<1> HIDE DEF d
<1>3. (d + 1) * Ms \in Nat /\ (d + 1) * Ms =< x + Ms
  BY <1>1, <1>2
<1>4. \A k \in Nat : k =< x + Ms => now + k \in Nat /\ now + k =< t + Ms
  BY <1>1
<1> QED
  BY <1>3, <1>4 DEF d, x

(* When nobody may send, each chat with messages has used up its rate, and  *)
(* the delay ends in time for it.                                           *)
LEMMA HoldingBack ==
    ASSUME now \in Nat, sent \in [Chats -> Seq(Nat)],
           NEW STATE list, Listed(list),
           NEW STATE q, NEW STATE r, r \in [Chats -> Seq(Nat)],
           \A c \in Chats : Recorded(sent[c], r[c], now),
           OnlyListed(list, q, r),
           HoldBack(list, q, r)
    PROVE  /\ delay' \in Nat \cup {Never}
           /\ \A c \in Chats : q[c] # << >> =>
                  /\ Len(sent[c]) >= Limit
                  /\ delay' # Never
                  /\ delay' =< sent[c][Len(sent[c]) - Limit + 1] + Period + Ms
<1> USE LimitAssumption, ClockAssumption
<1> DEFINE W == Waiting(list, q)
           again == [i \in DOMAIN list |-> Head(Lately(r[list[i]])) + Period]
           T == {again[i] : i \in W}
           next == NextSendTime(list, q, r)
<1>1. \A i \in W : i \in DOMAIN list /\ list[i] \in Chats
  BY DEF Listed, Waiting
<1>2. ASSUME NEW i \in W
      PROVE  /\ again[i] \in Nat
             /\ again[i] > now
             /\ Len(sent[list[i]]) >= Limit
             /\ again[i] =< sent[list[i]][Len(sent[list[i]]) - Limit + 1] + Period
             /\ sent[list[i]][Len(sent[list[i]]) - Limit + 1] \in Nat
  <2> DEFINE c == list[i]
  <2>1. c \in Chats /\ i \in DOMAIN list /\ q[c] # << >>
    BY <1>1 DEF Waiting
  <2>2. ~(Len(Lately(r[c])) < Limit)
    BY <2>1 DEF HoldBack, Able
  <2>3. /\ sent[c] \in Seq(Nat) /\ r[c] \in Seq(Nat)
        /\ Ordered(sent[c], now) /\ Covers(sent[c], r[c], now)
    BY <2>1 DEF Recorded
  <2>4. Lately(r[c]) \in Seq(Nat)
    BY <2>3, LatelyCovers
  <2>5. Len(Lately(r[c])) >= Limit
    BY <2>2, <2>4
  <2> HIDE DEF c
  <2>6. /\ Len(sent[c]) >= Limit
        /\ Head(Lately(r[c])) \in Nat
        /\ Head(Lately(r[c])) + Period > now
        /\ Head(Lately(r[c])) =< sent[c][Len(sent[c]) - Limit + 1]
        /\ sent[c][Len(sent[c]) - Limit + 1] \in Nat
    BY <2>3, <2>5, LatelyBegins
  <2>7. again[i] = Head(Lately(r[c])) + Period
    BY <2>1 DEF c
  <2> HIDE DEF again
  <2>8. /\ again[i] \in Nat
        /\ again[i] > now
        /\ again[i] =< sent[c][Len(sent[c]) - Limit + 1] + Period
    <3>1. \A h, m \in Nat : /\ h + Period \in Nat
                            /\ h =< m => h + Period =< m + Period
      BY ClockAssumption
    <3> QED
      BY <2>6, <2>7, <3>1
  <2> QED
    BY <2>6, <2>8 DEF c
<1>3. ASSUME W # {}
      PROVE  /\ next \in T /\ next \in Nat /\ now =< next
             /\ \A i \in W : next =< again[i]
  <2>1. T \in SUBSET Nat /\ T # {}
    BY <1>2, <1>3
  <2>2. Min(T) \in T /\ \A i \in W : Min(T) =< again[i]
    <3>1. Min(T) \in T /\ \A t \in T : Min(T) =< t
      BY <2>1, MinProperties
    <3> QED
      BY <3>1
  <2>3. next = CHOOSE t \in T : \A i \in W : t =< again[i]
    BY <1>1 DEF NextSendTime
  <2>4. next \in T /\ \A i \in W : next =< again[i]
    <3> HIDE DEF T, W, next
    <3> QED
      BY <2>2, <2>3
  <2>5. next \in Nat /\ now =< next
    <3> HIDE DEF W, again, next
    <3>1. PICK i \in W : next = again[i]
      BY <2>4
    <3> QED
      BY <3>1, <1>2
  <2> QED
    BY <2>4, <2>5
<1>4. delay' = IF W = {} THEN Never ELSE now + ((next - now) \div Ms + 1) * Ms
  BY DEF HoldBack
<1>5. W # {} => delay' \in Nat /\ delay' =< next + Ms
  BY <1>3, <1>4, RoundedUp
<1> HIDE DEF next, W
<1>6. ASSUME NEW c \in Chats, q[c] # << >>
      PROVE  /\ Len(sent[c]) >= Limit
             /\ delay' # Never
             /\ delay' =< sent[c][Len(sent[c]) - Limit + 1] + Period + Ms
  <2>1. PICK i \in DOMAIN list : list[i] = c
    BY <1>6 DEF OnlyListed, Has
  <2>2. i \in W
    BY <1>6, <2>1 DEF W, Waiting, Listed
  <2>3. /\ again[i] \in Nat
        /\ Len(sent[c]) >= Limit
        /\ again[i] =< sent[c][Len(sent[c]) - Limit + 1] + Period
        /\ sent[c][Len(sent[c]) - Limit + 1] \in Nat
    BY <1>2, <2>1, <2>2
  <2>4. next \in Nat /\ next =< again[i] /\ delay' \in Nat /\ delay' =< next + Ms
    BY <1>3, <1>5, <2>2
  <2> HIDE DEF again
  <2>5. delay' =< sent[c][Len(sent[c]) - Limit + 1] + Period + Ms
    <3>1. PICK y, a, d : /\ y = sent[c][Len(sent[c]) - Limit + 1]
                         /\ a = again[i] /\ d = delay'
      OBVIOUS
    <3>2. /\ y \in Nat /\ a \in Nat /\ d \in Nat /\ next \in Nat
          /\ Period \in Nat /\ Ms \in Nat
          /\ a =< y + Period /\ next =< a /\ d =< next + Ms
      BY <3>1, <2>3, <2>4 DEF LimitAssumption, ClockAssumption
    <3>3. d =< y + Period + Ms
      BY ONLY <3>2
    <3> QED
      BY <3>1, <3>3
  <2> QED
    BY <2>3, <2>4, <2>5 DEF Never
<1> QED
  BY <1>4, <1>5, <1>6

-----------------------------------------------------------------------------
(* maybe_start_request.                                                     *)

(* What its callers pass to it.                                             *)
Sound(list, q, r, reqs, inUse) ==
    /\ Listed(list)
    /\ q \in [Chats -> Seq(Nat)]
    /\ OnlyListed(list, q, r)
    /\ reqs \in Seq(Requests)
    /\ armed \in BOOLEAN
    /\ inUse \in BOOLEAN
    /\ delay \in Nat \cup {Never}
    /\ armed => ~inUse /\ reqs # << >>
    /\ delay # Never => ~inUse /\ ~armed

(* Those who have messages in q wait for the rate, and for timer d.         *)
Held(q, s, d) ==
    \A c \in Chats : q[c] # << >> =>
        /\ Len(s[c]) >= Limit
        /\ d # Never
        /\ d =< s[c][Len(s[c]) - Limit + 1] + Period + Ms

(* What it leaves behind.                                                   *)
SoundlyStarted(list, inUse) ==
    /\ chats' = list
    /\ queue' \in [Chats -> Seq(Nat)]
    /\ OnlyListed(list, queue', recent')
    /\ requests' \in Seq(Requests)
    /\ armed' \in BOOLEAN
    /\ delay' \in Nat \cup {Never}
    /\ armed' => ~inUse /\ requests' # << >>
    /\ delay' # Never => ~inUse /\ ~armed'
    /\ ~inUse /\ ~armed' => requests' = << >> /\ Held(queue', sent', delay')

LEMMA UpdatingForgetsListed ==
    ASSUME NEW STATE list, NEW STATE q, NEW STATE r, NEW n \in Nat,
           Listed(list), OnlyListed(list, q, r), n =< Len(list)
    PROVE  \A c \in Chats : ~Has(list, c) => Updated(list, q, r, n)[c] = << >>
<1> SUFFICES ASSUME NEW c \in Chats, ~Has(list, c)
             PROVE  Updated(list, q, r, n)[c] = << >>
  OBVIOUS
<1>1. r[c] = << >>
  BY DEF OnlyListed
<1>2. ~ \E i \in Waiting(list, q) : i =< n /\ list[i] = c
  <2>1. DOMAIN list = 1 .. Len(list)
    BY DEF Listed
  <2> QED
    BY <2>1 DEF Has, Waiting
<1> QED
  BY <1>1, <1>2 DEF Updated

LEMMA StartingIsSound ==
    ASSUME now \in Nat, sent \in [Chats -> Seq(Nat)],
           NEW STATE list, NEW STATE q, NEW STATE r, NEW STATE reqs, NEW STATE inUse,
           r \in [Chats -> Seq(Nat)],
           \A c \in Chats : Recorded(sent[c], r[c], now),
           Sound(list, q, r, reqs, inUse),
           MaybeStartRequest(list, q, r, reqs, inUse)
    PROVE  SoundlyStarted(list, inUse)
<1>0. /\ Listed(list) /\ q \in [Chats -> Seq(Nat)] /\ OnlyListed(list, q, r)
      /\ reqs \in Seq(Requests)
      /\ armed \in BOOLEAN /\ inUse \in BOOLEAN /\ delay \in Nat \cup {Never}
      /\ armed => ~inUse /\ reqs # << >>
      /\ delay # Never => ~inUse /\ ~armed
  BY DEF Sound
<1>1. chats' = list
  BY DEF MaybeStartRequest
<1>2. /\ DOMAIN list = 1 .. Len(list) /\ Len(list) \in Nat
      /\ \A i \in 1 .. Len(list) : list[i] \in Chats
  BY <1>0 DEF Listed
<1>3. CASE inUse \/ armed
  <2>1. queue' = q /\ recent' = r /\ requests' = reqs /\ UNCHANGED <<armed, delay, sent>>
    BY <1>3 DEF MaybeStartRequest
  <2> QED
    BY <1>0, <1>1, <1>3, <2>1 DEF SoundlyStarted
<1>4. CASE ~inUse /\ ~armed /\ reqs # << >>
  <2>1. queue' = q /\ recent' = r /\ requests' = reqs /\ armed' = TRUE /\ delay' = Never
    BY <1>4 DEF MaybeStartRequest, Arm
  <2> QED
    BY <1>0, <1>1, <1>4, <2>1 DEF SoundlyStarted
<1>5. CASE ~inUse /\ ~armed /\ reqs = << >> /\ HoldBack(list, q, r)
  <2>1. /\ recent' = Updated(list, q, r, Len(list))
        /\ armed' = armed /\ queue' = q /\ requests' = << >> /\ sent' = sent
    BY <1>5 DEF HoldBack
  <2>2. OnlyListed(list, q, recent')
    <3>1. \A c \in Chats : ~Has(list, c) => Updated(list, q, r, Len(list))[c] = << >>
      <4>1. Len(list) \in Nat /\ Len(list) =< Len(list)
        BY <1>2
      <4> QED
        BY <1>0, <4>1, UpdatingForgetsListed
    <3> QED
      BY <1>0, <2>1, <3>1 DEF OnlyListed
  <2>3. delay' \in Nat \cup {Never} /\ Held(q, sent, delay')
    BY <1>0, <1>5, HoldingBack DEF Held
  <2> QED
    BY <1>0, <1>1, <1>5, <2>1, <2>2, <2>3 DEF SoundlyStarted
<1>6. CASE ~inUse /\ ~armed /\ reqs = << >> /\ TakeMessage(list, q, r)
  <2>1. PICK i \in 1 .. Len(list) :
            /\ Able(list, q, r, i)
            /\ requests' = << [chat |-> list[i], number |-> Head(q[list[i]])] >>
            /\ queue' = [q EXCEPT ![list[i]] = Tail(@)]
            /\ recent' = [Updated(list, q, r, i) EXCEPT ![list[i]] = Append(@, now)]
            /\ armed' = TRUE /\ delay' = Never
    BY <1>6 DEF TakeMessage, Arm
  <2>2. list[i] \in Chats /\ Has(list, list[i])
    BY <1>2 DEF Has
  <2>3. Head(q[list[i]]) \in Nat /\ Tail(q[list[i]]) \in Seq(Nat)
    BY <1>0, <2>1, <2>2 DEF Able
  <2>4. requests' \in Seq(Requests) /\ requests' # << >>
    <3>1. [chat |-> list[i], number |-> Head(q[list[i]])] \in Requests
      BY <2>2, <2>3 DEF Requests, Messages
    <3> QED
      BY <2>1, <3>1
  <2>5. queue' \in [Chats -> Seq(Nat)]
    BY <1>0, <2>1, <2>2, <2>3
  <2>6. ASSUME NEW c \in Chats, ~Has(list, c)
        PROVE  queue'[c] = << >> /\ recent'[c] = << >>
    <3>1. c # list[i] /\ q[c] = << >>
      BY <1>0, <2>2, <2>6 DEF OnlyListed
    <3>2. Updated(list, q, r, i)[c] = << >>
      <4>1. i \in Nat /\ i =< Len(list)
        BY <1>2
      <4> QED
        BY <1>0, <2>6, <4>1, UpdatingForgetsListed
    <3>3. queue'[c] = q[c] /\ recent'[c] = Updated(list, q, r, i)[c]
      BY <1>0, <2>1, <2>6, <3>1 DEF Updated
    <3> QED
      BY <3>1, <3>2, <3>3
  <2> QED
    BY <1>0, <1>1, <1>6, <2>1, <2>4, <2>5, <2>6 DEF OnlyListed, SoundlyStarted
<1> QED
  BY <1>3, <1>4, <1>5, <1>6 DEF MaybeStartRequest

-----------------------------------------------------------------------------
(* The invariant.                                                           *)

Flow ==
    /\ Listed(chats)
    /\ queue \in [Chats -> Seq(Nat)]
    /\ OnlyListed(chats, queue, recent)
    /\ requests \in Seq(Requests)
    /\ armed \in BOOLEAN
    /\ busy \in BOOLEAN
    /\ delay \in Nat \cup {Never}
    /\ asked \in [Chats -> Nat]
    /\ commands \in Nat
    /\ started \in [Chats -> Seq(Nat)]
    /\ NeverIdle

(* A step that calls maybe_start_request with what is sound, and does not   *)
(* say otherwise of the handle, keeps the invariant.                        *)
LEMMA StartingFlows ==
    ASSUME Inv, Flow,
           NEW STATE list, NEW STATE q, NEW STATE r, NEW STATE reqs, NEW STATE inUse,
           r \in [Chats -> Seq(Nat)],
           \A c \in Chats : Recorded(sent[c], r[c], now),
           Sound(list, q, r, reqs, inUse),
           MaybeStartRequest(list, q, r, reqs, inUse),
           busy' = inUse,
           asked' \in [Chats -> Nat], commands' \in Nat, UNCHANGED started
    PROVE  Flow'
<1>1. now \in Nat /\ sent \in [Chats -> Seq(Nat)]
  BY DEF Inv
<1>2. SoundlyStarted(list, inUse)
  BY <1>1, StartingIsSound
<1>3. Listed(chats') /\ OnlyListed(chats', queue', recent')
  BY <1>2 DEF Sound, SoundlyStarted
<1>4. NeverIdle'
  BY <1>2 DEF NeverIdle, Held, SoundlyStarted
<1>5. busy' \in BOOLEAN /\ started' \in [Chats -> Seq(Nat)]
  BY DEF Sound, Flow
<1> QED
  BY <1>2, <1>3, <1>4, <1>5 DEF Flow, Listed, OnlyListed, Has, SoundlyStarted

LEMMA InitFlows == Init => Flow
<1> SUFFICES ASSUME Init
             PROVE  Flow
  OBVIOUS
<1>1. Listed(chats) /\ requests \in Seq(Requests) /\ requests = << >>
  BY DEF Init, Listed
<1>2. NeverIdle
  BY DEF Init, NeverIdle, Never
<1>3. OnlyListed(chats, queue, recent)
  BY DEF Init, OnlyListed
<1>4. /\ queue \in [Chats -> Seq(Nat)] /\ started \in [Chats -> Seq(Nat)]
      /\ asked \in [Chats -> Nat] /\ commands \in Nat
  BY DEF Init
<1>5. armed \in BOOLEAN /\ busy \in BOOLEAN /\ delay \in Nat \cup {Never}
  BY DEF Init
<1> QED
  BY <1>1, <1>2, <1>3, <1>4, <1>5 DEF Flow

LEMMA NextFlows == Inv /\ Flow /\ [Next]_vars => Flow'
<1> SUFFICES ASSUME Inv, Flow, [Next]_vars
             PROVE  Flow'
  OBVIOUS
<1>1. /\ recent \in [Chats -> Seq(Nat)]
      /\ \A c \in Chats : Recorded(sent[c], recent[c], now)
  BY DEF Inv
<1>2. /\ armed => ~busy /\ requests # << >>
      /\ delay # Never => ~busy /\ ~armed
  BY DEF Flow, NeverIdle
<1>3. Sound(chats, queue, recent, requests, busy)
  BY <1>2 DEF Sound, Flow
<1>4. ASSUME NEW c \in Chats, SendMessage(c)
      PROVE  Flow'
  <2> DEFINE q == [queue EXCEPT ![c] = Append(@, asked[c] + 1)]
  <2>1. asked' \in [Chats -> Nat] /\ UNCHANGED <<busy, commands, started>>
    BY <1>4 DEF SendMessage, Flow
  <2>2. MaybeStartRequest(ListWith(c), q, Remembered(c), requests, busy)
    BY <1>4 DEF SendMessage
  <2>3. /\ Remembered(c) \in [Chats -> Seq(Nat)]
        /\ \A d \in Chats : Recorded(sent[d], Remembered(c)[d], now)
    BY RememberedIsRecorded
  <2>4. q \in [Chats -> Seq(Nat)] /\ \A d \in Chats : d # c => q[d] = queue[d]
    BY DEF Flow
  <2>5. Listed(chats) /\ OnlyListed(chats, queue, recent)
    BY DEF Flow
  <2>6. Listed(ListWith(c)) /\ OnlyListed(ListWith(c), q, Remembered(c))
    BY <2>4, <2>5, ListWithIsListed, OthersAreEmpty DEF OnlyListed
  <2> HIDE DEF q
  <2>7. Sound(ListWith(c), q, Remembered(c), requests, busy)
    BY <1>2, <2>4, <2>6 DEF Sound, Flow
  <2>8. commands' \in Nat /\ busy' = busy
    BY <2>1 DEF Flow
  <2> QED
    BY <2>1, <2>2, <2>3, <2>7, <2>8, StartingFlows
<1>5. ASSUME SendRequest
      PROVE  Flow'
  <2>1. MaybeStartRequest(chats, queue, recent, Append(requests, Command), busy)
    BY <1>5 DEF SendRequest
  <2>2. commands' \in Nat /\ UNCHANGED <<busy, asked, started>> /\ asked' \in [Chats -> Nat]
    BY <1>5 DEF SendRequest, Flow
  <2>3. Append(requests, Command) \in Seq(Requests) /\ Append(requests, Command) # << >>
    <3>1. requests \in Seq(Requests) /\ Command \in Requests
      BY DEF Flow, Requests
    <3> QED
      BY <3>1, AppendProperties
  <2>4. Sound(chats, queue, recent, Append(requests, Command), busy)
    BY <1>2, <2>3 DEF Sound, Flow
  <2> QED
    BY <1>1, <2>1, <2>2, <2>4, StartingFlows
<1>6. ASSUME StartRequest
      PROVE  Flow'
  <2>1. /\ armed /\ ~busy /\ requests # << >>
        /\ armed' = FALSE /\ busy' = TRUE /\ requests' = Tail(requests)
        /\ UNCHANGED <<chats, queue, recent, delay, asked, commands>>
    BY <1>6 DEF StartRequest
  <2>2. requests' \in Seq(Requests) /\ Head(requests) \in Requests
    BY <2>1 DEF Flow
  <2>3. Head(requests).number \in Nat
    BY <2>2 DEF Requests, Messages, Command
  <2>4. started' \in [Chats -> Seq(Nat)]
    <3>1. ASSUME NEW c \in Chats
          PROVE  Append(started[c], Head(requests).number) \in Seq(Nat) /\ started[c] \in Seq(Nat)
      BY <2>3 DEF Flow
    <3> QED
      BY <1>6, <3>1 DEF StartRequest
  <2>5. delay = Never
    BY <1>2, <2>1
  <2>6. NeverIdle'
    BY <2>1, <2>5 DEF NeverIdle
  <2> QED
    BY <2>1, <2>2, <2>4, <2>6 DEF Flow, Listed, OnlyListed, Has
<1>7. ASSUME Finish
      PROVE  Flow'
  <2>1. MaybeStartRequest(chats, queue, recent, requests, FALSE)
    BY <1>7, ZenonT(60) DEF Finish
  <2>2. busy' = FALSE /\ UNCHANGED <<asked, commands, started>>
    BY <1>7 DEF Finish
  <2>3. Sound(chats, queue, recent, requests, FALSE)
    BY <1>2 DEF Sound, Flow
  <2>4. asked' \in [Chats -> Nat] /\ commands' \in Nat
    BY <2>2 DEF Flow
  <2> QED
    BY <1>1, <2>1, <2>2, <2>3, <2>4, StartingFlows
<1>8. ASSUME SendDelay
      PROVE  Flow'
  <2>1. MaybeStartRequest(chats, queue, recent, requests, busy)
    BY <1>8 DEF SendDelay
  <2>2. UNCHANGED <<busy, asked, commands, started>>
    BY <1>8 DEF SendDelay
  <2>3. asked' \in [Chats -> Nat] /\ commands' \in Nat
    BY <2>2 DEF Flow
  <2> QED
    BY <1>1, <1>3, <2>1, <2>2, <2>3, StartingFlows
<1>9. CASE Tick \/ UNCHANGED vars
  <2>1. UNCHANGED <<chats, queue, recent, requests, armed, busy, delay,
                    asked, commands, sent, started>>
    BY <1>9 DEF Tick, vars
  <2>2. NeverIdle'
    BY <2>1 DEF NeverIdle, Flow
  <2>3. Listed(chats') /\ OnlyListed(chats', queue', recent')
    BY <2>1 DEF Flow
  <2> QED
    BY <2>1, <2>2, <2>3 DEF Flow, Listed, OnlyListed, Has
<1> QED
  BY <1>4, <1>5, <1>6, <1>7, <1>8, <1>9 DEF Next

-----------------------------------------------------------------------------
(* Every message in its turn.                                               *)

(* The number of the message for c among reqs: only the first request can   *)
(* be a message, since the queue is only asked when there are no requests.  *)
Ahead(reqs, c) ==
    IF reqs # << >> /\ Head(reqs).chat = c THEN << Head(reqs).number >> ELSE << >>

CommandsFollow(reqs) == \A i \in DOMAIN reqs : i # 1 => reqs[i] = Command

(* What maybe_start_request does not change.                                *)
SameTurns(reqs, q) ==
    /\ CommandsFollow(requests')
    /\ \A c \in Chats :
           (started[c] \o Ahead(requests', c)) \o queue'[c]
               = (started[c] \o Ahead(reqs, c)) \o q[c]

InTurn ==
    /\ CommandsFollow(requests)
    /\ \A c \in Chats :
           (started[c] \o Ahead(requests, c)) \o queue[c] = [n \in 1 .. asked[c] |-> n]

LEMMA FirstAndRest ==
    ASSUME NEW s \in Seq(Nat), s # << >>
    PROVE  /\ Head(s) \in Nat /\ Tail(s) \in Seq(Nat)
           /\ << Head(s) >> \o Tail(s) = s
<1>1. 1 \in 1 .. Len(s) /\ Len(s) \in 1 .. Len(s) /\ s[1] = Head(s)
  BY EmptySeq
<1>2. SubSeq(s, 1, Len(s)) = << s[1] >> \o SubSeq(s, 1 + 1, Len(s))
  BY <1>1, SubSeqRecursiveFirst
<1>3. SubSeq(s, 1, Len(s)) = s /\ Tail(s) = SubSeq(s, 2, Len(s))
  BY SubSeqFull, TailIsSubSeq
<1>4. 1 + 1 = 2
  OBVIOUS
<1> QED
  BY <1>1, <1>2, <1>3, <1>4, HeadTailProperties

LEMMA Regroup ==
    ASSUME NEW s \in Seq(Nat), NEW t \in Seq(Nat), NEW u \in Seq(Nat)
    PROVE  (s \o t) \o u = s \o (t \o u)
  BY ConcatAssociative, SMTT(30)

LEMMA OneMore ==
    ASSUME NEW a \in Nat
    PROVE  [k \in 1 .. a |-> k] \o << a + 1 >> = [k \in 1 .. a + 1 |-> k]
<1> DEFINE s == [k \in 1 .. a |-> k]
           t == [k \in 1 .. a + 1 |-> k]
<1>1. s \in Seq(Nat) /\ Len(s) = a /\ \A k \in 1 .. a : s[k] = k
  OBVIOUS
<1>2. t \in Seq(Nat) /\ Len(t) = a + 1 /\ \A k \in 1 .. a + 1 : t[k] = k
  OBVIOUS
<1> HIDE DEF s, t
<1>3. << a + 1 >> \in Seq(Nat) /\ Len(<< a + 1 >>) = 1 /\ << a + 1 >>[1] = a + 1
  OBVIOUS
<1>4. /\ s \o << a + 1 >> \in Seq(Nat) /\ Len(s \o << a + 1 >>) = a + 1
      /\ \A k \in 1 .. a + 1 :
             (s \o << a + 1 >>)[k] = IF k <= a THEN s[k] ELSE << a + 1 >>[k - a]
  BY <1>1, <1>3, ConcatProperties
<1>5. \A k \in 1 .. a + 1 : (s \o << a + 1 >>)[k] = t[k]
  BY <1>1, <1>2, <1>3, <1>4
<1>6. s \o << a + 1 >> = t
  BY <1>2, <1>4, <1>5, SeqEqual
<1> QED
  BY <1>6 DEF s, t

LEMMA AheadType ==
    ASSUME NEW STATE reqs, reqs \in Seq(Requests), NEW c \in Chats
    PROVE  Ahead(reqs, c) \in Seq(Nat)
<1>1. CASE reqs # << >> /\ Head(reqs).chat = c
  <2>1. Head(reqs) \in Requests
    BY <1>1, HeadTailProperties
  <2>2. Head(reqs).number \in Nat
    BY <2>1 DEF Requests, Messages, Command
  <2> QED
    BY <1>1, <2>2 DEF Ahead
<1>2. CASE ~(reqs # << >> /\ Head(reqs).chat = c)
  BY <1>2, EmptySeq DEF Ahead
<1> QED
  BY <1>1, <1>2

LEMMA StartingKeepsTurns ==
    ASSUME NEW STATE list, NEW STATE q, NEW STATE r, NEW STATE reqs, NEW STATE inUse,
           Sound(list, q, r, reqs, inUse),
           started \in [Chats -> Seq(Nat)],
           CommandsFollow(reqs),
           MaybeStartRequest(list, q, r, reqs, inUse)
    PROVE  SameTurns(reqs, q)
<1>0. /\ \A i \in 1 .. Len(list) : list[i] \in Chats
      /\ q \in [Chats -> Seq(Nat)]
  BY DEF Sound, Listed
<1>1. CASE requests' = reqs /\ queue' = q
  BY <1>1 DEF SameTurns
<1>2. CASE reqs = << >> /\ TakeMessage(list, q, r)
  <2>1. PICK i \in 1 .. Len(list) :
            /\ Able(list, q, r, i)
            /\ requests' = << [chat |-> list[i], number |-> Head(q[list[i]])] >>
            /\ queue' = [q EXCEPT ![list[i]] = Tail(@)]
    BY <1>2 DEF TakeMessage
  <2> DEFINE e == list[i]
             m == [chat |-> e, number |-> Head(q[e])]
  <2>2. e \in Chats /\ q[e] \in Seq(Nat) /\ q[e] # << >>
    BY <1>0, <2>1 DEF Able
  <2>3. /\ Head(q[e]) \in Nat /\ Tail(q[e]) \in Seq(Nat)
        /\ << Head(q[e]) >> \o Tail(q[e]) = q[e]
    BY <2>2, FirstAndRest
  <2>4. /\ requests' # << >> /\ Head(requests') = m
        /\ \A j \in DOMAIN requests' : j = 1
    BY <2>1
  <2>5. ASSUME NEW c \in Chats
        PROVE  (started[c] \o Ahead(requests', c)) \o queue'[c]
                   = (started[c] \o Ahead(reqs, c)) \o q[c]
    <3>1. started[c] \in Seq(Nat) /\ Ahead(reqs, c) = << >> /\ started[c] \o << >> = started[c]
      BY <1>2, ConcatEmptySeq DEF Ahead
    <3>2. CASE c = e
      <4>1. Ahead(requests', c) = << Head(q[e]) >> /\ queue'[c] = Tail(q[e])
        BY <1>0, <2>1, <2>2, <2>4, <3>2 DEF Ahead
      <4>2. << Head(q[e]) >> \in Seq(Nat)
        BY <2>3
      <4>3. (started[c] \o << Head(q[e]) >>) \o Tail(q[e])
                = started[c] \o (<< Head(q[e]) >> \o Tail(q[e]))
        BY <2>3, <3>1, <4>2, Regroup
      <4> QED
        BY <2>3, <3>1, <3>2, <4>1, <4>3
    <3>3. CASE c # e
      <4>1. Ahead(requests', c) = << >> /\ queue'[c] = q[c]
        BY <1>0, <2>1, <2>4, <3>3 DEF Ahead
      <4> QED
        BY <3>1, <4>1
    <3> QED
      BY <3>2, <3>3
  <2> QED
    BY <2>4, <2>5 DEF SameTurns, CommandsFollow
<1> QED
  BY <1>1, <1>2 DEF MaybeStartRequest, HoldBack

LEMMA NextKeepsTurns == Inv /\ Flow /\ InTurn /\ [Next]_vars => InTurn'
<1> SUFFICES ASSUME Inv, Flow, InTurn, [Next]_vars
             PROVE  InTurn'
  OBVIOUS
<1>1. /\ queue \in [Chats -> Seq(Nat)] /\ started \in [Chats -> Seq(Nat)]
      /\ asked \in [Chats -> Nat] /\ requests \in Seq(Requests)
      /\ CommandsFollow(requests)
  BY DEF Flow, InTurn
<1>2. /\ armed => ~busy /\ requests # << >>
      /\ delay # Never => ~busy /\ ~armed
  BY DEF Flow, NeverIdle
<1>3. Sound(chats, queue, recent, requests, busy) /\ Sound(chats, queue, recent, requests, FALSE)
  BY <1>2 DEF Sound, Flow
<1>4. ASSUME SameTurns(requests, queue), UNCHANGED <<asked, started>>
      PROVE  InTurn'
  BY <1>4 DEF SameTurns, InTurn
<1>5. ASSUME NEW c \in Chats, SendMessage(c)
      PROVE  InTurn'
  <2> DEFINE n == asked[c] + 1
             q == [queue EXCEPT ![c] = Append(queue[c], n)]
  <2>1. SameTurns(requests, q)
    <3>1. MaybeStartRequest(ListWith(c), q, Remembered(c), requests, busy)
      BY <1>5 DEF SendMessage
    <3>2. q \in [Chats -> Seq(Nat)] /\ \A d \in Chats : d # c => q[d] = queue[d]
      BY <1>1, AppendProperties
    <3>3. Listed(chats) /\ OnlyListed(chats, queue, recent)
      BY DEF Flow
    <3>4. Listed(ListWith(c)) /\ OnlyListed(ListWith(c), q, Remembered(c))
      BY <3>2, <3>3, ListWithIsListed, OthersAreEmpty DEF OnlyListed
    <3> HIDE DEF q
    <3>5. Sound(ListWith(c), q, Remembered(c), requests, busy)
      BY <1>2, <3>2, <3>4 DEF Sound, Flow
    <3> QED
      BY <1>1, <3>1, <3>5, StartingKeepsTurns
  <2>2. asked' = [asked EXCEPT ![c] = n] /\ started' = started
    BY <1>5 DEF SendMessage
  <2>3. ASSUME NEW d \in Chats
        PROVE  (started[d] \o Ahead(requests, d)) \o q[d] = [k \in 1 .. asked'[d] |-> k]
    <3> DEFINE s == started[d] \o Ahead(requests, d)
               all == [k \in 1 .. asked[d] |-> k]
    <3>1. s \in Seq(Nat) /\ queue[d] \in Seq(Nat) /\ asked[d] \in Nat
      BY <1>1, AheadType, ConcatProperties
    <3>2. s \o queue[d] = all
      BY DEF InTurn
    <3> HIDE DEF s
    <3>3. CASE d = c
      <4>1. q[d] = queue[d] \o << n >> /\ << n >> \in Seq(Nat) /\ n \in Nat
        BY <1>1, <3>1, <3>3, AppendIsConcat
      <4>2. s \o q[d] = all \o << n >>
        <5>1. (s \o queue[d]) \o << n >> = s \o (queue[d] \o << n >>)
          BY <3>1, <4>1, Regroup
        <5> HIDE DEF q, n, all
        <5> QED
          BY <3>2, <4>1, <5>1
      <4>3. all \o << n >> = [k \in 1 .. n |-> k]
        BY <3>1, <3>3, OneMore
      <4> QED
        BY <1>1, <2>2, <3>3, <4>2, <4>3 DEF s
    <3>4. CASE d # c
      <4>1. q[d] = queue[d] /\ asked'[d] = asked[d]
        BY <1>1, <2>2, <3>4
      <4> QED
        BY <3>2, <4>1 DEF s
    <3> QED
      BY <3>3, <3>4
  <2> HIDE DEF q
  <2> QED
    BY <2>1, <2>2, <2>3 DEF SameTurns, InTurn
<1>6. ASSUME SendRequest
      PROVE  InTurn'
  <2> DEFINE reqs == Append(requests, Command)
  <2>1. MaybeStartRequest(chats, queue, recent, reqs, busy) /\ UNCHANGED <<asked, started>>
    BY <1>6 DEF SendRequest
  <2>2. /\ reqs \in Seq(Requests) /\ reqs # << >>
        /\ Len(reqs) = Len(requests) + 1
        /\ \A i \in 1 .. Len(requests) : reqs[i] = requests[i]
        /\ reqs[Len(requests) + 1] = Command
    <3>1. Command \in Requests
      BY DEF Requests
    <3> QED
      BY <1>1, <3>1, AppendProperties
  <2>3. CommandsFollow(reqs)
    <3>1. DOMAIN reqs = 1 .. Len(requests) + 1 /\ DOMAIN requests = 1 .. Len(requests)
          /\ Len(requests) \in Nat
      BY <1>1, <2>2, LenProperties
    <3>2. \A i \in DOMAIN reqs : i \in DOMAIN requests \/ i = Len(requests) + 1
      BY <3>1
    <3> QED
      BY <1>1, <2>2, <3>1, <3>2 DEF CommandsFollow
  <2>4. \A c \in Chats : Ahead(reqs, c) = Ahead(requests, c)
    <3>1. Head(reqs) = IF requests = << >> THEN Command ELSE Head(requests)
      BY <1>1, HeadTailAppend
    <3>2. Command.chat \notin Chats
      BY ChatsAssumption DEF Command
    <3> QED
      BY <2>2, <3>1, <3>2 DEF Ahead
  <2>5. Sound(chats, queue, recent, reqs, busy)
    BY <1>2, <2>2 DEF Sound, Flow
  <2> HIDE DEF reqs
  <2>6. SameTurns(reqs, queue)
    BY <1>1, <2>1, <2>3, <2>5, StartingKeepsTurns
  <2> QED
    BY <1>4, <2>1, <2>4, <2>6 DEF SameTurns
<1>7. ASSUME StartRequest
      PROVE  InTurn'
  <2>1. /\ requests # << >> /\ requests' = Tail(requests)
        /\ UNCHANGED <<queue, asked>>
    BY <1>7 DEF StartRequest
  <2>2. \A i \in DOMAIN requests' : requests'[i] = Command
    <3>1. /\ Len(requests) \in Nat /\ DOMAIN requests = 1 .. Len(requests)
          /\ DOMAIN requests' = 1 .. Len(requests) - 1
          /\ \A i \in DOMAIN requests' : requests'[i] = requests[i + 1]
      BY <1>1, <2>1, HeadTailProperties, LenProperties
    <3>2. \A i \in DOMAIN requests' : i + 1 \in DOMAIN requests /\ i + 1 # 1
      BY <3>1
    <3> QED
      BY <1>1, <3>1, <3>2 DEF CommandsFollow
  <2>3. requests' \in Seq(Requests)
    BY <1>1, <2>1, HeadTailProperties
  <2>4. ASSUME NEW c \in Chats
        PROVE  started'[c] \o Ahead(requests', c) = started[c] \o Ahead(requests, c)
    <3>1. Ahead(requests', c) = << >>
      <4>1. requests' # << >> => 1 \in DOMAIN requests' /\ Head(requests') = requests'[1]
        BY <2>3, EmptySeq, LenProperties
      <4>2. requests' # << >> => Head(requests').chat = "none"
        BY <2>2, <4>1 DEF Command
      <4> QED
        BY <4>2, ChatsAssumption DEF Ahead
    <3>2. started[c] \in Seq(Nat) /\ Ahead(requests, c) \in Seq(Nat)
      BY <1>1, AheadType
    <3>3. started'[c] = started[c] \o Ahead(requests, c)
      <4>1. CASE Head(requests).chat = c
        <5>1. Ahead(requests, c) = << Head(requests).number >>
          BY <2>1, <4>1 DEF Ahead
        <5>2. Head(requests) \in Requests
          BY <1>1, <2>1, HeadTailProperties
        <5>3. Head(requests).number \in Nat
          BY <5>2 DEF Requests, Messages, Command
        <5>4. started'[c] = Append(started[c], Head(requests).number)
          BY <1>7, <4>1 DEF StartRequest
        <5> QED
          BY <3>2, <5>1, <5>3, <5>4, AppendIsConcat
      <4>2. CASE Head(requests).chat # c
        <5>1. started'[c] = started[c] /\ Ahead(requests, c) = << >>
          BY <1>7, <4>2 DEF StartRequest, Ahead
        <5> QED
          BY <3>2, <5>1, ConcatEmptySeq
      <4> QED
        BY <4>1, <4>2
    <3>4. started[c] \o Ahead(requests, c) \in Seq(Nat)
      BY <3>2, ConcatProperties
    <3> QED
      BY <3>1, <3>3, <3>4, ConcatEmptySeq
  <2> QED
    BY <2>1, <2>2, <2>4 DEF InTurn, CommandsFollow
<1>8. ASSUME Finish
      PROVE  InTurn'
  <2>1. MaybeStartRequest(chats, queue, recent, requests, FALSE) /\ UNCHANGED <<asked, started>>
    BY <1>8, ZenonT(60) DEF Finish
  <2> QED
    BY <1>1, <1>3, <1>4, <2>1, StartingKeepsTurns
<1>9. ASSUME SendDelay
      PROVE  InTurn'
  <2>1. MaybeStartRequest(chats, queue, recent, requests, busy) /\ UNCHANGED <<asked, started>>
    BY <1>9 DEF SendDelay
  <2> QED
    BY <1>1, <1>3, <1>4, <2>1, StartingKeepsTurns
<1>10. CASE Tick \/ UNCHANGED vars
  <2>1. UNCHANGED <<queue, requests, asked, started>>
    BY <1>10 DEF Tick, vars
  <2> QED
    BY <2>1 DEF InTurn
<1> QED
  BY <1>5, <1>6, <1>7, <1>8, <1>9, <1>10 DEF Next

LEMMA RequestedIsAhead ==
    ASSUME requests \in Seq(Requests), CommandsFollow(requests), NEW c \in Chats
    PROVE  Requested(c) = Ahead(requests, c)
<1> DEFINE P == {i \in DOMAIN requests : requests[i].chat = c}
           f == Increasing(P)
<1>1. /\ Len(requests) \in Nat /\ DOMAIN requests = 1 .. Len(requests)
      /\ requests # << >> => 1 \in DOMAIN requests /\ Head(requests) = requests[1]
  BY EmptySeq, LenProperties
<1>2. \A i \in P : i = 1
  BY ChatsAssumption DEF CommandsFollow, Command
<1>3. Requested(c) = [k \in DOMAIN f |-> requests[f[k]].number]
  BY DEF Requested
<1>4. CASE requests # << >> /\ Head(requests).chat = c
  <2>1. P = {1}
    BY <1>1, <1>2, <1>4
  <2>2. {1} \in SUBSET Nat /\ IsFiniteSet({1}) /\ Cardinality({1}) = 1
    <3>1. IsFiniteSet({1}) /\ Cardinality({1}) = 1
      BY FS_Singleton
    <3> QED
      BY <3>1
  <2>3. Increasing({1}) \in [1 .. 1 -> {1}]
    BY <2>2, IncreasingProperties
  <2>4. DOMAIN f = 1 .. 1 /\ \A k \in 1 .. 1 : f[k] = 1
    BY <2>1, <2>3
  <2> HIDE DEF f
  <2>5. Requested(c) = [k \in 1 .. 1 |-> Head(requests).number]
    BY <1>1, <1>3, <1>4, <2>4
  <2> QED
    BY <1>4, <2>5 DEF Ahead
<1>5. CASE ~(requests # << >> /\ Head(requests).chat = c)
  <2>1. P = {}
    BY <1>1, <1>2, <1>5, EmptySeq
  <2>2. {} \in SUBSET Nat /\ IsFiniteSet({}) /\ Cardinality({}) = 0
    BY FS_EmptySet
  <2>3. Increasing({}) \in [1 .. 0 -> {}]
    BY <2>2, IncreasingProperties
  <2>4. DOMAIN f = 1 .. 0
    BY <2>1, <2>3
  <2> HIDE DEF f
  <2>5. Requested(c) = << >>
    BY <1>3, <2>4
  <2> QED
    BY <1>5, <2>5 DEF Ahead
<1> QED
  BY <1>4, <1>5

-----------------------------------------------------------------------------
(* Every variable keeps its type, a chat is listed once, and only chats in  *)
(* the list of the message queue have messages.                             *)
THEOREM QueueTypeCorrect == Spec => []TypeOK
<1>1. Inv /\ Flow => TypeOK
  BY DEF Inv, Flow, TypeOK, Listed, OnlyListed, Has, Known, Requests
<1> QED
  BY <1>1, InitEstablishesInv, NextPreservesInv, InitFlows, NextFlows, PTL DEF Spec

(* Whenever no request is on its way or about to start, every chat with     *)
(* messages has used up its rate, and the delay of the bot ends in time.    *)
THEOREM NeverIdleForNothing == Spec => []NeverIdle
<1>1. Flow => NeverIdle
  BY DEF Flow
<1> QED
  BY <1>1, InitEstablishesInv, NextPreservesInv, InitFlows, NextFlows, PTL DEF Spec

(* What curl was given for a chat, the request that waits for the handle    *)
(* and the queue of the chat are, in this order, the messages the games     *)
(* wanted sent to it.                                                       *)
THEOREM EveryMessageInItsTurn == Spec => []NothingLost
<1>1. Init => InTurn
  <2> SUFFICES ASSUME Init
               PROVE  InTurn
    OBVIOUS
  <2>1. CommandsFollow(requests)
    BY DEF Init, CommandsFollow
  <2>2. ASSUME NEW c \in Chats
        PROVE  (started[c] \o Ahead(requests, c)) \o queue[c] = [n \in 1 .. asked[c] |-> n]
    <3>1. started[c] = << >> /\ queue[c] = << >> /\ asked[c] = 0 /\ Ahead(requests, c) = << >>
      BY DEF Init, Ahead
    <3>2. << >> \o << >> = << >>
      BY EmptySeq, ConcatEmptySeq
    <3>3. [n \in 1 .. 0 |-> n] = << >>
      OBVIOUS
    <3> QED
      BY <3>1, <3>2, <3>3
  <2> QED
    BY <2>1, <2>2 DEF InTurn
<1>2. Flow /\ InTurn => NothingLost
  BY RequestedIsAhead DEF Flow, InTurn, NothingLost
<1> QED
  BY <1>1, <1>2, InitEstablishesInv, NextPreservesInv, InitFlows, NextFlows,
     NextKeepsTurns, PTL DEF Spec

-----------------------------------------------------------------------------
(* A Telegram bot processes every update that Telegram forgets, in order   *)
(* and, between two of its deaths, once: for any number of updates, lost   *)
(* requests, deaths and sizes of a reply, also when update_ids start anew. *)
(*                                                                         *)
(* Telegram knows ids and the bot remembers one of them; the games know    *)
(* the updates by their number in the order in which they were sent. The   *)
(* two orders agree on what is pending, so that last_update_id cuts the    *)
(* pending updates exactly behind the last one that was processed. Each    *)
(* reply sets it back to 0, which is right only because what was processed *)
(* before has been confirmed by the request of that reply.                 *)

(* The last update that was processed since the bot started, or 0.          *)
LastHandled == IF handled = << >> THEN 0 ELSE handled[Len(handled)]

UpdatesTypeOK ==
    /\ content \in Seq(Contents)
    /\ pending \in Seq(Update) /\ reply \in Seq(Update)
    /\ \A i \in 1 .. Len(pending) : pending[i].number =< Len(content)
    /\ top \in Nat /\ quiet \in BOOLEAN
    /\ poll \in Polls /\ offset \in Nat /\ last_update_id \in Nat
    /\ handled \in Seq(Nat) /\ LastHandled =< Len(content)

(* Telegram keeps updates in the order in which they came, which is the one *)
(* of their ids.                                                            *)
PendingInOrder ==
    \A i \in 1 .. Len(pending) :
        /\ pending[i].id =< top
        /\ \A j \in 1 .. i - 1 : /\ pending[j].id < pending[i].id
                                 /\ pending[j].number < pending[i].number

(* The next id is above what the bot remembers or is about to confirm.      *)
OffsetKept ==
    /\ last_update_id =< top
    /\ poll = "asked" => offset = Offset
    /\ quiet => pending = << >> /\ last_update_id = 0

(* The bot remembers an id behind which begins what it has not processed.   *)
CutRight ==
    /\ \A i \in 1 .. Len(pending) :
           pending[i].number =< LastHandled <=> pending[i].id =< last_update_id
    /\ poll \in {"seen", "answered"} =>
           \A i \in 1 .. Len(pending) : LastHandled < pending[i].number

(* The reply is what follows, without a gap.                                *)
ReplyFrom(k) ==
    /\ k + Len(reply) =< Len(pending)
    /\ \A i \in 1 .. k : pending[i].number =< LastHandled
    /\ \A i \in 1 .. Len(reply) :
           reply[i] = pending[k + i] /\ LastHandled < reply[i].number

ReplyFollows ==
    /\ poll \notin {"answered", "processing"} => reply = << >>
    /\ reply # << >> => \E k \in 0 .. Len(pending) : ReplyFrom(k)

Done(n) == n \in ever /\ (content[n] \in Users => content[n] \in known_file)

AllDone ==
    /\ known = known_file
    /\ \A n \in 1 .. Len(content) : n =< LastHandled => Done(n)

(* The inductive invariant.                                                 *)
UpdatesInv ==
    /\ UpdatesTypeOK
    /\ PendingInOrder
    /\ OffsetKept
    /\ CutRight
    /\ ReplyFollows
    /\ AllDone
    /\ InOrderOnce
    /\ ConfirmedIsDone

-----------------------------------------------------------------------------
(* What the games do to the known ids, whatever a player sends.             *)
Remembers == known' = known_file' /\ known_file \subseteq known_file'

LEMMA MessageRemembers ==
    ASSUME known = known_file, NEW u, NEW chat, Games!Message(u, chat)
    PROVE  Remembers /\ (chat = u => u \in known_file')
  BY DEF Games!Message, Games!Greet, Games!Unknown, Remembers

LEMMA GamesRemember == known = known_file /\ BotNext => Remembers
<1> SUFFICES ASSUME known = known_file, BotNext
             PROVE  Remembers
  OBVIOUS
<1>1. CASE Polling /\ UNCHANGED gameVars
  BY <1>1 DEF gameVars, Remembers
<1>2. CASE Process
  <2>1. ASSUME NEW u, NEW chat, Games!Message(u, chat)
        PROVE  Remembers
    BY <2>1, MessageRemembers
  <2>2. ASSUME NEW u, NEW chat, Games!CreateCallback(u, chat)
        PROVE  Remembers
    BY <2>2 DEF Games!CreateCallback, Remembers
  <2>3. ASSUME NEW u, Games!GameCallback(u)
        PROVE  Remembers
    BY <2>3 DEF Games!GameCallback, Remembers
  <2> QED
    BY <1>2, <2>1, <2>2, <2>3 DEF Process
<1>3. CASE Timers
  BY <1>3 DEF Timers, Games!TimedOut, Games!GameTimesOut, Games!GameOver, Games!Tick,
         Remembers
<1>4. CASE Die
  BY <1>4 DEF Die, Games!Restart, Games!CrashInSave, Games!Renamed, Games!RestartWith,
         Remembers
<1> QED
  BY <1>1, <1>2, <1>3, <1>4 DEF BotNext

(* What is done stays done.                                                 *)
LEMMA StaysDone ==
    ASSUME Remembers, ever \subseteq ever', NEW n, content'[n] = content[n], Done(n)
    PROVE  Done(n)'
  BY DEF Remembers, Done

(* The updates of a list have ids and numbers.                              *)
LEMMA Elements ==
    ASSUME NEW s \in Seq(Update)
    PROVE  /\ Len(s) \in Nat /\ DOMAIN s = 1 .. Len(s)
           /\ \A i \in 1 .. Len(s) : /\ s[i] \in Update
                                     /\ s[i].id \in Nat /\ 0 < s[i].id
                                     /\ s[i].number \in Nat /\ 0 < s[i].number
<1>1. /\ Len(s) \in Nat /\ DOMAIN s = 1 .. Len(s)
      /\ \A i \in 1 .. Len(s) : s[i] \in Update
  BY LenProperties, ElementOfSeq
<1>2. \A u \in Update : u.id \in Nat /\ 0 < u.id /\ u.number \in Nat /\ 0 < u.number
  BY DEF Update
<1> QED
  BY <1>1, <1>2

-----------------------------------------------------------------------------
(* The invariant holds at the start, and every step keeps it.               *)
LEMMA UpdatesBegin == BotInit => UpdatesInv
<1> SUFFICES ASSUME BotInit
             PROVE  UpdatesInv
  OBVIOUS
<1>1. /\ content = << >> /\ pending = << >> /\ reply = << >> /\ handled = << >>
      /\ top = 0 /\ quiet = FALSE /\ poll = "asked" /\ offset = 0 /\ last_update_id = 0
      /\ known = known_file
  BY DEF BotInit, UpdatesInit, Games!Init
<1>2. /\ content \in Seq(Contents) /\ pending \in Seq(Update) /\ reply \in Seq(Update)
      /\ handled \in Seq(Nat)
      /\ Len(content) = 0 /\ Len(pending) = 0 /\ Len(handled) = 0
  BY <1>1
<1>3. LastHandled = 0
  BY <1>1 DEF LastHandled
<1>4. /\ 1 .. Len(pending) = {} /\ 1 .. Len(content) = {} /\ 1 .. Len(handled) - 1 = {}
      /\ 0 \in Nat /\ 0 =< Len(content) /\ FALSE \in BOOLEAN
  BY <1>2
<1>5. UpdatesTypeOK
  <2>2. poll \in Polls
    BY <1>1 DEF Polls
  <2> QED
    BY <1>1, <1>2, <1>3, <1>4, <2>2, Zenon DEF UpdatesTypeOK
<1> QED
  BY <1>1, <1>4, <1>5
  DEF UpdatesInv, PendingInOrder, OffsetKept, Offset, CutRight, ReplyFollows, AllDone,
      InOrderOnce, ConfirmedIsDone

(* Steps that change neither the pending updates nor what was processed,    *)
(* and give up the reply if it changes.                                     *)
LEMMA QuietStep ==
    ASSUME UpdatesInv, Remembers, UNCHANGED <<content, pending, top, history>>,
           quiet' \in BOOLEAN, poll' \in Polls, offset' \in Nat, last_update_id' \in Nat,
           reply' \in Seq(Update), OffsetKept', CutRight', ReplyFollows'
    PROVE  UpdatesInv'
<1>1. LastHandled' = LastHandled
  BY DEF history, LastHandled
<1>2. UpdatesTypeOK' /\ PendingInOrder' /\ InOrderOnce'
  BY <1>1 DEF UpdatesInv, UpdatesTypeOK, PendingInOrder, InOrderOnce, history
<1>3. AllDone'
  <2>1. known' = known_file'
    BY DEF Remembers
  <2>2. \A n \in 1 .. Len(content) : Done(n) => Done(n)'
    BY StaysDone DEF history
  <2> QED
    BY <1>1, <2>1, <2>2 DEF UpdatesInv, AllDone
<1>4. ConfirmedIsDone'
  BY DEF UpdatesInv, ConfirmedIsDone, Pending, Remembers, history
<1> QED
  BY <1>2, <1>3, <1>4 DEF UpdatesInv

LEMMA HandledType == UpdatesInv => LastHandled \in Nat
<1> SUFFICES ASSUME UpdatesInv
             PROVE  LastHandled \in Nat
  OBVIOUS
<1>1. handled \in Seq(Nat)
  BY DEF UpdatesInv, UpdatesTypeOK
<1>2. CASE handled = << >>
  BY <1>2 DEF LastHandled
<1>3. CASE handled # << >>
  <2>1. Len(handled) \in 1 .. Len(handled)
    BY <1>1, <1>3, EmptySeq, LenProperties
  <2> QED
    BY <1>1, <1>3, <2>1, ElementOfSeq DEF LastHandled
<1> QED
  BY <1>2, <1>3

LEMMA AnswerKeeps == UpdatesInv /\ Remembers /\ Answer => UpdatesInv'
<1> SUFFICES ASSUME UpdatesInv, Remembers, Answer
             PROVE  UpdatesInv'
  OBVIOUS
<1> DEFINE n == IF Len(pending) < BatchSize THEN Len(pending) ELSE BatchSize
<1>1. pending \in Seq(Update) /\ Len(pending) \in Nat /\ BatchSize \in Nat
  BY BatchAssumption DEF UpdatesInv, UpdatesTypeOK
<1>2. n \in 0 .. Len(pending)
  BY <1>1
<1>3. reply' = SubSeq(pending, 1, n)
  BY DEF Answer
<1> HIDE DEF n
<1>4. /\ reply' \in Seq(Update) /\ Len(reply') = n
      /\ \A i \in 1 .. n : reply'[i] = pending[i]
  BY <1>1, <1>2, <1>3, SubSeqProperties
<1>5. /\ UNCHANGED <<content, pending, top, quiet, offset, last_update_id, history>>
      /\ poll = "seen" /\ poll' = "answered"
  BY DEF Answer, service
<1>6. LastHandled' = LastHandled
  BY <1>5 DEF history, LastHandled
<1>7. OffsetKept' /\ CutRight'
  BY <1>5, <1>6 DEF UpdatesInv, OffsetKept, CutRight
<1>8. ReplyFollows'
  <2>1. ReplyFrom(0)'
    BY <1>1, <1>2, <1>4, <1>5, <1>6 DEF ReplyFrom, UpdatesInv, CutRight
  <2> QED
    BY <1>1, <1>5, <2>1 DEF ReplyFollows
<1> QED
  BY <1>4, <1>5, <1>7, <1>8, QuietStep DEF Polls, UpdatesInv, UpdatesTypeOK

(* What has been processed is confirmed by now: the bot may forget the id.  *)
LEMMA ReplyArrivesKeeps == UpdatesInv /\ Remembers /\ ReplyArrives => UpdatesInv'
<1> SUFFICES ASSUME UpdatesInv, Remembers, ReplyArrives
             PROVE  UpdatesInv'
  OBVIOUS
<1>1. /\ UNCHANGED <<content, pending, top, offset, reply, history>>
      /\ poll = "answered" /\ poll' = "processing" /\ last_update_id' = 0
      /\ quiet' \in BOOLEAN /\ (quiet' => pending = << >>)
  BY DEF ReplyArrives, Reset
<1>2. LastHandled' = LastHandled
  BY <1>1 DEF history, LastHandled
<1>3. /\ pending \in Seq(Update) /\ top \in Nat /\ LastHandled \in Nat
      /\ \A i \in 1 .. Len(pending) : pending[i].id \in Nat /\ 0 < pending[i].id
                                      /\ pending[i].number \in Nat
  BY Elements, HandledType DEF UpdatesInv, UpdatesTypeOK
<1>4. OffsetKept'
  BY <1>1, <1>3 DEF OffsetKept
<1>5. CutRight'
  BY <1>1, <1>2, <1>3 DEF UpdatesInv, CutRight
<1>6. ReplyFollows'
  <2>1. \A k \in 0 .. Len(pending) : ReplyFrom(k) => ReplyFrom(k)'
    BY <1>1, <1>2 DEF ReplyFrom
  <2> QED
    BY <1>1, <2>1 DEF UpdatesInv, ReplyFollows
<1> QED
  BY <1>1, <1>4, <1>5, <1>6, QuietStep DEF Polls, UpdatesInv, UpdatesTypeOK

LEMMA FinishUpdatesKeeps == UpdatesInv /\ Remembers /\ FinishUpdates => UpdatesInv'
<1> SUFFICES ASSUME UpdatesInv, Remembers, FinishUpdates
             PROVE  UpdatesInv'
  OBVIOUS
<1>1. /\ UNCHANGED <<content, pending, top, quiet, offset, reply, last_update_id, history>>
      /\ poll' = "waiting" /\ reply = << >>
  BY DEF FinishUpdates, service
<1>2. LastHandled' = LastHandled
  BY <1>1 DEF history, LastHandled
<1>3. OffsetKept' /\ CutRight' /\ ReplyFollows'
  BY <1>1, <1>2 DEF UpdatesInv, OffsetKept, CutRight, ReplyFollows
<1> QED
  BY <1>1, <1>3, QuietStep DEF Polls, UpdatesInv, UpdatesTypeOK

LEMMA FailKeeps == UpdatesInv /\ Remembers /\ Fail => UpdatesInv'
<1> SUFFICES ASSUME UpdatesInv, Remembers, Fail
             PROVE  UpdatesInv'
  OBVIOUS
<1>1. /\ UNCHANGED <<content, pending, top, quiet, offset, last_update_id, history>>
      /\ poll' = "waiting" /\ reply' = << >>
  BY DEF Fail, service
<1>2. LastHandled' = LastHandled
  BY <1>1 DEF history, LastHandled
<1>3. OffsetKept' /\ CutRight' /\ ReplyFollows'
  BY <1>1, <1>2 DEF UpdatesInv, OffsetKept, CutRight, ReplyFollows
<1>4. reply' \in Seq(Update)
  BY <1>1
<1> QED
  BY <1>1, <1>3, <1>4, QuietStep DEF Polls, UpdatesInv, UpdatesTypeOK

LEMMA RestartUpdatesKeeps == UpdatesInv /\ Remembers /\ RestartUpdates => UpdatesInv'
<1> SUFFICES ASSUME UpdatesInv, Remembers, RestartUpdates
             PROVE  UpdatesInv'
  OBVIOUS
<1>1. /\ UNCHANGED <<content, pending, top, quiet, reply, last_update_id, history>>
      /\ poll = "waiting" /\ poll' = "asked" /\ offset' = Offset
  BY DEF RestartUpdates, service
<1>2. LastHandled' = LastHandled /\ Offset' = Offset /\ Offset \in Nat
  BY <1>1 DEF history, LastHandled, Offset, UpdatesInv, UpdatesTypeOK
<1>3. OffsetKept' /\ CutRight' /\ ReplyFollows'
  BY <1>1, <1>2 DEF UpdatesInv, OffsetKept, CutRight, ReplyFollows
<1> QED
  BY <1>1, <1>2, <1>3, QuietStep DEF Polls, UpdatesInv, UpdatesTypeOK

(* A new update comes behind all others, in both orders.                    *)
LEMMA SendKeeps == UpdatesInv /\ Remembers /\ Send => UpdatesInv'
<1> SUFFICES ASSUME UpdatesInv, Remembers, Send
             PROVE  UpdatesInv'
  OBVIOUS
<1>1. PICK c \in Contents, id \in NextIds :
        /\ content' = Append(content, c)
        /\ pending' = Append(pending, [id |-> id, number |-> Len(content')])
        /\ top' = id
  BY DEF Send
<1>2. UNCHANGED <<bot, history>> /\ quiet' = FALSE
  BY DEF Send
<1>3. UpdatesTypeOK
  BY DEF UpdatesInv
<1>4. /\ content' \in Seq(Contents) /\ Len(content') = Len(content) + 1
      /\ Len(content) \in Nat
      /\ \A n \in 1 .. Len(content) : content'[n] = content[n]
  BY <1>1, <1>3, AppendProperties DEF UpdatesTypeOK
<1>5. /\ id \in Nat \ {0} /\ last_update_id < id
      /\ \A i \in 1 .. Len(pending) : pending[i].id < id
  <2>1. /\ pending \in Seq(Update) /\ top \in Nat /\ last_update_id \in Nat
        /\ last_update_id =< top /\ (quiet => Len(pending) = 0 /\ last_update_id = 0)
        /\ \A i \in 1 .. Len(pending) : pending[i].id \in Nat /\ pending[i].id =< top
    BY <1>3, Elements DEF UpdatesInv, UpdatesTypeOK, OffsetKept, PendingInOrder
  <2>2. id = top + 1 \/ (quiet /\ id = 1)
    BY DEF NextIds
  <2> QED
    BY <2>1, <2>2
<1>6. PICK new \in Update : /\ pending' = Append(pending, new)
                            /\ new.id = id /\ new.number = Len(content) + 1
  BY <1>1, <1>4, <1>5, SMTT(30) DEF Update
<1>7. /\ pending' \in Seq(Update) /\ Len(pending') = Len(pending) + 1
      /\ Len(pending) \in Nat
      /\ \A i \in 1 .. Len(pending) : pending'[i] = pending[i]
      /\ pending'[Len(pending) + 1] = new
  BY <1>3, <1>6, AppendProperties DEF UpdatesTypeOK
<1>8. /\ LastHandled' = LastHandled /\ LastHandled =< Len(content) /\ LastHandled \in Nat
      /\ last_update_id' = last_update_id /\ poll' = poll /\ offset' = offset
      /\ reply' = reply /\ ever' = ever /\ handled' = handled
  BY <1>2, <1>3, HandledType DEF history, bot, LastHandled, UpdatesTypeOK
<1>9. \A i \in 1 .. Len(pending) : /\ pending[i].id \in Nat /\ pending[i].number \in Nat
                                   /\ pending[i].number =< Len(content)
  BY <1>3, Elements DEF UpdatesTypeOK
<1>10. \A i \in 1 .. Len(pending') :
          \/ i \in 1 .. Len(pending)
          \/ i = Len(pending) + 1 /\ pending'[i].id = id
                                 /\ pending'[i].number = Len(content) + 1
  BY <1>6, <1>7
<1>11. UpdatesTypeOK'
  <2>1. ASSUME NEW i \in 1 .. Len(pending')
        PROVE  pending'[i].number =< Len(content')
    <3>1. Len(content') = Len(content) + 1 /\ Len(content) \in Nat
      BY <1>4
    <3>2. CASE i \in 1 .. Len(pending)
      <4>1. pending'[i] = pending[i]
        BY <3>2, <1>7
      <4>2. pending[i].number \in Nat /\ pending[i].number =< Len(content)
        BY <3>2, <1>9
      <4> QED
        BY <3>1, <4>1, <4>2
    <3>3. CASE i = Len(pending) + 1 /\ pending'[i].number = Len(content) + 1
      BY <3>1, <3>3
    <3> QED
      BY <3>2, <3>3, <1>10
  <2>2. LastHandled' =< Len(content')
    BY <1>4, <1>8
  <2>3. UNCHANGED <<poll, offset, reply, last_update_id, handled>>
    BY <1>2 DEF bot, history
  <2>4. top' \in Nat
    BY <1>1, <1>5
  <2> QED
    BY <1>2, <1>3, <1>4, <1>7, <2>1, <2>2, <2>3, <2>4 DEF UpdatesTypeOK
<1>12. PendingInOrder'
  <2> SUFFICES ASSUME NEW i \in 1 .. Len(pending')
               PROVE  /\ pending'[i].id =< top'
                      /\ \A j \in 1 .. i - 1 : /\ pending'[j].id < pending'[i].id
                                               /\ pending'[j].number < pending'[i].number
    BY DEF PendingInOrder
  <2>1. CASE i \in 1 .. Len(pending)
    BY <1>1, <1>5, <1>7, <1>9, <2>1 DEF UpdatesInv, PendingInOrder
  <2>2. CASE i = Len(pending) + 1
    BY <1>1, <1>4, <1>5, <1>6, <1>7, <1>9, <2>2
  <2> QED
    BY <1>7, <2>1, <2>2
<1>13. OffsetKept'
  <2>1. last_update_id' =< top'
    BY <1>1, <1>3, <1>5, <1>8 DEF UpdatesTypeOK
  <2> QED
    BY <1>2, <1>8, <2>1 DEF UpdatesInv, OffsetKept, Offset
<1>14. CutRight'
  <2>1. ASSUME NEW i \in 1 .. Len(pending')
        PROVE  /\ pending'[i].number =< LastHandled <=> pending'[i].id =< last_update_id
               /\ poll \in {"seen", "answered"} => LastHandled < pending'[i].number
    <3>1. CASE i \in 1 .. Len(pending)
      BY <1>7, <3>1 DEF UpdatesInv, CutRight
    <3>2. CASE i = Len(pending) + 1
      BY <1>3, <1>4, <1>5, <1>6, <1>7, <1>8, <3>2 DEF UpdatesTypeOK
    <3> QED
      BY <1>7, <3>1, <3>2
  <2> QED
    BY <1>8, <2>1 DEF CutRight
<1>15. ReplyFollows'
  <2>1. ASSUME NEW k \in 0 .. Len(pending), ReplyFrom(k)
        PROVE  ReplyFrom(k)'
    <3>1. Len(reply) \in Nat /\ k + Len(reply) =< Len(pending)
      BY <1>3, <2>1 DEF ReplyFrom, UpdatesTypeOK
    <3>2. \A i \in 1 .. k : pending'[i] = pending[i]
      BY <1>7
    <3>3. \A i \in 1 .. Len(reply) : pending'[k + i] = pending[k + i]
      BY <1>7, <3>1
    <3>4. k + Len(reply') =< Len(pending')
      BY <1>7, <1>8, <3>1
    <3> QED
      BY <1>8, <2>1, <3>2, <3>3, <3>4 DEF ReplyFrom
  <2>2. \A k \in 0 .. Len(pending) : k \in 0 .. Len(pending')
    BY <1>7
  <2> QED
    BY <1>8, <2>1, <2>2 DEF UpdatesInv, ReplyFollows
<1>16. \A n \in 1 .. Len(content) : Done(n) => Done(n)'
  BY <1>4, <1>8, StaysDone
<1>17. AllDone'
  BY <1>4, <1>8, <1>16 DEF UpdatesInv, AllDone, Remembers
<1>18. ConfirmedIsDone'
  <2>1. \A n \in 1 .. Len(content) : Pending(n) => Pending(n)'
    <3>1. DOMAIN pending = 1 .. Len(pending) /\ DOMAIN pending \subseteq DOMAIN pending'
      BY <1>3, <1>7, Elements DEF UpdatesTypeOK
    <3> QED
      BY <1>7, <3>1 DEF Pending
  <2>2. ASSUME NEW n \in 1 .. Len(content'), n \notin 1 .. Len(content)
        PROVE  Pending(n)'
    <3>1. n = Len(content) + 1
      BY <1>4, <2>2
    <3>2. Len(pending) + 1 \in DOMAIN pending'
      BY <1>7
    <3> QED
      BY <1>6, <1>7, <3>1, <3>2 DEF Pending
  <2>3. \A n \in 1 .. Len(content) : Pending(n) \/ Done(n)
    BY DEF UpdatesInv, ConfirmedIsDone, Done
  <2>4. \A n \in 1 .. Len(content') : Pending(n)' \/ Done(n)'
    BY <1>4, <1>16, <2>1, <2>2, <2>3
  <2> QED
    BY <2>4 DEF ConfirmedIsDone, Done
<1>19. InOrderOnce'
  BY <1>8 DEF UpdatesInv, InOrderOnce
<1> QED
  BY <1>11, <1>12, <1>13, <1>14, <1>15, <1>17, <1>18, <1>19 DEF UpdatesInv

(* What is confirmed is done: what the offset of the request has behind it  *)
(* is what last_update_id has.                                              *)
LEMMA ConfirmKeeps == UpdatesInv /\ Remembers /\ Confirm => UpdatesInv'
<1> SUFFICES ASSUME UpdatesInv, Remembers, Confirm
             PROVE  UpdatesInv'
  OBVIOUS
<1>1. PICK n \in 0 .. Len(pending) :
        /\ \A i \in DOMAIN pending : i =< n <=> pending[i].id < offset
        /\ pending' = SubSeq(pending, n + 1, Len(pending))
  BY DEF Confirm
<1>2. /\ UNCHANGED <<content, top, quiet, offset, reply, last_update_id, history>>
      /\ poll = "asked" /\ poll' = "seen"
  BY DEF Confirm
<1>3. UpdatesTypeOK /\ LastHandled' = LastHandled /\ LastHandled \in Nat
  BY <1>2, HandledType DEF UpdatesInv, history, LastHandled
<1>4. /\ pending \in Seq(Update) /\ Len(pending) \in Nat
      /\ DOMAIN pending = 1 .. Len(pending)
      /\ \A i \in 1 .. Len(pending) : /\ pending[i].id \in Nat /\ 0 < pending[i].id
                                      /\ pending[i].number \in Nat
                                      /\ 0 < pending[i].number
                                      /\ pending[i].number =< Len(content)
  BY <1>3, Elements DEF UpdatesTypeOK
<1>5. /\ pending' \in Seq(Update) /\ Len(pending') = Len(pending) - n
      /\ \A i \in 1 .. Len(pending) - n : pending'[i] = pending[n + i]
  <2>1. \A i \in n + 1 .. Len(pending) : pending[i] \in Update
    BY <1>4, ElementOfSeq
  <2>2. n + 1 \in Int /\ Len(pending) \in Int
    BY <1>4
  <2>3. /\ pending' \in Seq(Update)
        /\ Len(pending') = IF n + 1 <= Len(pending) THEN Len(pending) - (n + 1) + 1 ELSE 0
        /\ \A i \in 1 .. Len(pending) - (n + 1) + 1 : pending'[i] = pending[(n + 1) + i - 1]
    BY <1>1, <2>1, <2>2, SubSeqProperties
  <2>4. n \in Nat /\ Len(pending) \in Nat /\ n =< Len(pending)
    BY <1>4
  <2>5. /\ Len(pending) - (n + 1) + 1 = Len(pending) - n
        /\ \A i \in 1 .. Len(pending) - n : (n + 1) + i - 1 = n + i
        /\ (IF n + 1 <= Len(pending) THEN Len(pending) - (n + 1) + 1 ELSE 0) = Len(pending) - n
    BY <2>4
  <2> QED
    BY <2>3, <2>5
<1>6. \A i \in 1 .. Len(pending') : /\ n + i \in 1 .. Len(pending)
                                   /\ pending'[i] = pending[n + i]
  BY <1>4, <1>5
<1>7. \A i \in 1 .. Len(pending) :
          i =< n <=> pending[i].number =< LastHandled
  <2>1. offset = Offset /\ last_update_id \in Nat
    BY <1>2, <1>3 DEF UpdatesInv, OffsetKept, UpdatesTypeOK
  <2>2. \A i \in 1 .. Len(pending) : pending[i].id < offset <=> pending[i].id =< last_update_id
    BY <1>4, <2>1 DEF Offset
  <2> QED
    BY <1>1, <1>4, <2>2 DEF UpdatesInv, CutRight
<1>8. UpdatesTypeOK'
  BY <1>2, <1>3, <1>4, <1>5, <1>6 DEF UpdatesTypeOK, Polls, history
<1>9. PendingInOrder'
  <2> SUFFICES ASSUME NEW i \in 1 .. Len(pending')
               PROVE  /\ pending'[i].id =< top
                      /\ \A j \in 1 .. i - 1 : /\ pending'[j].id < pending'[i].id
                                               /\ pending'[j].number < pending'[i].number
    BY <1>2 DEF PendingInOrder
  <2>1. \A j \in 1 .. i - 1 : /\ j \in 1 .. Len(pending') /\ n + j \in 1 .. (n + i) - 1
    BY <1>4, <1>5
  <2> QED
    BY <1>6, <2>1 DEF UpdatesInv, PendingInOrder
<1>10. OffsetKept'
  <2>1. pending = << >> => pending' = << >>
    BY <1>4, <1>5, EmptySeq
  <2> QED
    BY <1>2, <2>1 DEF UpdatesInv, OffsetKept
<1>11. CutRight'
  <2>1. \A i \in 1 .. Len(pending') : LastHandled < pending'[i].number
    <3> SUFFICES ASSUME NEW i \in 1 .. Len(pending')
                 PROVE  LastHandled < pending'[i].number
      OBVIOUS
    <3>1. ~(n + i =< n)
      BY <1>4, <1>5
    <3> QED
      BY <1>3, <1>4, <1>6, <1>7, <3>1
  <2> QED
    BY <1>2, <1>3, <1>6, <2>1 DEF UpdatesInv, CutRight
<1>12. ReplyFollows'
  BY <1>2 DEF UpdatesInv, ReplyFollows
<1>13. \A m \in 1 .. Len(content) : Done(m) => Done(m)'
  BY <1>2, StaysDone DEF history
<1>14. AllDone'
  BY <1>2, <1>3, <1>13 DEF UpdatesInv, AllDone, Remembers
<1>15. ConfirmedIsDone'
  <2>1. ASSUME NEW m \in 1 .. Len(content), Pending(m)
        PROVE  Pending(m)' \/ Done(m)
    <3>1. PICK i \in 1 .. Len(pending) : pending[i].number = m
      BY <1>4, <2>1 DEF Pending
    <3>2. CASE i =< n
      BY <1>7, <3>1, <3>2 DEF UpdatesInv, AllDone
    <3>3. CASE ~(i =< n)
      <4>1. i - n \in 1 .. Len(pending') /\ n + (i - n) = i
        BY <1>4, <1>5, <3>3
      <4>2. pending'[i - n].number = m
        BY <1>6, <3>1, <4>1
      <4>3. i - n \in DOMAIN pending'
        BY <1>5, <4>1, Elements
      <4> QED
        BY <4>2, <4>3 DEF Pending
    <3> QED
      BY <3>2, <3>3
  <2>2. \A m \in 1 .. Len(content) : Pending(m) \/ Done(m)
    BY DEF UpdatesInv, ConfirmedIsDone, Done
  <2>3. \A m \in 1 .. Len(content) : Pending(m)' \/ Done(m)'
    BY <1>13, <2>1, <2>2
  <2> QED
    BY <1>2, <2>3 DEF ConfirmedIsDone, Done
<1>16. InOrderOnce'
  BY <1>2 DEF UpdatesInv, InOrderOnce, history
<1> QED
  BY <1>8, <1>9, <1>10, <1>11, <1>12, <1>14, <1>15, <1>16 DEF UpdatesInv

(* The next update of the reply comes right behind the last one processed:  *)
(* all before it is done or confirmed, and its id is the largest so far.    *)
LEMMA ProcessKeeps ==
    ASSUME UpdatesInv, Remembers, ProcessUpdate,
           Said(Head(reply)) \in Users => Said(Head(reply)) \in known_file'
    PROVE  UpdatesInv'
<1>0. PICK u \in Update : u = Head(reply)
  <2>1. reply \in Seq(Update) /\ reply # << >>
    BY DEF ProcessUpdate, UpdatesInv, UpdatesTypeOK
  <2> QED
    BY <2>1, HeadTailProperties
<1>1. /\ poll = "processing" /\ reply # << >>
      /\ last_update_id' = (IF u.id > last_update_id THEN u.id ELSE last_update_id)
      /\ reply' = Tail(reply)
      /\ handled' = Append(handled, u.number)
      /\ ever' = ever \cup {u.number}
      /\ UNCHANGED <<content, pending, top, quiet, poll, offset>>
  BY <1>0 DEF ProcessUpdate, Noted, service
<1>2. UpdatesTypeOK /\ LastHandled \in Nat
  BY HandledType DEF UpdatesInv
<1>3. PICK k \in 0 .. Len(pending) : ReplyFrom(k)
  BY <1>1 DEF UpdatesInv, ReplyFollows
<1>4. /\ reply \in Seq(Update) /\ Len(reply) \in Nat /\ Len(reply) # 0
      /\ reply' \in Seq(Update) /\ Len(reply') = Len(reply) - 1
      /\ \A i \in 1 .. Len(reply') : reply'[i] = reply[i + 1]
      /\ u = reply[1]
  BY <1>0, <1>1, <1>2, HeadTailProperties, EmptySeq, LenProperties DEF UpdatesTypeOK
<1>5. /\ pending \in Seq(Update) /\ Len(pending) \in Nat
      /\ \A i \in 1 .. Len(pending) : /\ pending[i] \in Update
                                      /\ pending[i].id \in Nat /\ 0 < pending[i].id
                                      /\ pending[i].number \in Nat
                                      /\ 0 < pending[i].number
                                      /\ pending[i].number =< Len(content)
  BY <1>2, Elements DEF UpdatesTypeOK
<1>6. /\ k + 1 \in 1 .. Len(pending) /\ u = pending[k + 1] /\ LastHandled < u.number
      /\ \A i \in 1 .. k : pending[i].number =< LastHandled
  <2>1. 1 \in 1 .. Len(reply)
    BY <1>4
  <2>2. k + Len(reply) =< Len(pending) /\ \A i \in 1 .. k : pending[i].number =< LastHandled
    BY <1>3 DEF ReplyFrom
  <2>3. reply[1] = pending[k + 1] /\ LastHandled < reply[1].number
    BY <1>3, <2>1 DEF ReplyFrom
  <2>4. k \in Nat /\ Len(reply) \in Nat /\ Len(reply) # 0 /\ Len(pending) \in Nat
    BY <1>3, <1>4, <1>5
  <2>5. k + 1 \in 1 .. Len(pending)
    BY <2>2, <2>4
  <2> QED
    BY <1>4, <2>2, <2>3, <2>5
<1>7. u.id \in Nat /\ u.number \in Nat /\ 0 < u.number /\ u.number =< Len(content)
  BY <1>5, <1>6
<1>8. last_update_id' = u.id /\ last_update_id \in Nat
  <2>1. ~(u.id =< last_update_id) /\ last_update_id \in Nat
    <3>1. pending[k + 1].number =< LastHandled <=> pending[k + 1].id =< last_update_id
      BY <1>6 DEF UpdatesInv, CutRight
    <3>2. LastHandled \in Nat /\ last_update_id \in Nat
      BY HandledType DEF UpdatesInv, UpdatesTypeOK
    <3> QED
      BY <1>6, <1>7, <3>1, <3>2
  <2> QED
    BY <1>1, <1>7, <2>1
<1>9. /\ handled \in Seq(Nat) /\ handled' \in Seq(Nat)
      /\ Len(handled) \in Nat /\ Len(handled') = Len(handled) + 1
      /\ \A i \in 1 .. Len(handled) : handled'[i] = handled[i]
      /\ handled'[Len(handled) + 1] = u.number
  BY <1>1, <1>2, <1>7, AppendProperties DEF UpdatesTypeOK
<1>10. LastHandled' = u.number
  <2>1. handled' # << >>
    BY <1>9
  <2> QED
    BY <1>9, <2>1 DEF LastHandled
<1>11. \A i \in 1 .. Len(pending) :
           /\ i =< k + 1 <=> pending[i].number =< u.number
           /\ i =< k + 1 <=> pending[i].id =< u.id
  <2> SUFFICES ASSUME NEW i \in 1 .. Len(pending)
               PROVE  /\ i =< k + 1 <=> pending[i].number =< u.number
                      /\ i =< k + 1 <=> pending[i].id =< u.id
    OBVIOUS
  <2>1. CASE i < k + 1
    <3>1. i \in 1 .. (k + 1) - 1
      BY <2>1
    <3> QED
      BY <1>5, <1>6, <2>1, <3>1 DEF UpdatesInv, PendingInOrder
  <2>2. CASE i = k + 1
    BY <1>6, <1>7, <2>2
  <2>3. CASE k + 1 < i
    <3>1. k + 1 \in 1 .. i - 1
      BY <2>3
    <3> QED
      BY <1>5, <1>6, <2>3, <3>1 DEF UpdatesInv, PendingInOrder
  <2> QED
    BY <2>1, <2>2, <2>3
<1>12. UpdatesTypeOK'
  BY <1>1, <1>2, <1>4, <1>7, <1>8, <1>9, <1>10 DEF UpdatesTypeOK
<1>13. PendingInOrder'
  BY <1>1 DEF UpdatesInv, PendingInOrder
<1>14. OffsetKept'
  <2>1. u.id =< top
    BY <1>6 DEF UpdatesInv, PendingInOrder
  <2>2. ~quiet
    BY <1>5, <1>6, EmptySeq DEF UpdatesInv, OffsetKept
  <2> QED
    BY <1>1, <1>8, <2>1, <2>2 DEF OffsetKept
<1>15. CutRight'
  <2>1. \A i \in 1 .. Len(pending) : pending[i].number =< u.number <=> pending[i].id =< u.id
    BY <1>11
  <2> QED
    BY <1>1, <1>8, <1>10, <2>1 DEF CutRight
<1>16. ReplyFollows'
  <2>1. ReplyFrom(k + 1)'
    <3>1. (k + 1) + Len(reply') =< Len(pending')
      BY <1>1, <1>3, <1>4 DEF ReplyFrom
    <3>2. \A i \in 1 .. k + 1 : pending'[i].number =< LastHandled'
      <4>1. \A i \in 1 .. k + 1 : i \in 1 .. Len(pending) /\ i =< k + 1
        BY <1>5, <1>6
      <4>2. \A i \in 1 .. k + 1 : pending[i].number =< u.number
        BY <1>11, <4>1
      <4> QED
        BY <1>1, <1>10, <4>2
    <3>3. ASSUME NEW i \in 1 .. Len(reply')
          PROVE  reply'[i] = pending'[(k + 1) + i] /\ LastHandled' < reply'[i].number
      <4>1. i + 1 \in 1 .. Len(reply) /\ k + (i + 1) = (k + 1) + i
        BY <1>4
      <4>2. reply'[i] = pending[(k + 1) + i]
        BY <1>3, <1>4, <4>1 DEF ReplyFrom
      <4>3. (k + 1) + i \in 1 .. Len(pending) /\ ~((k + 1) + i =< k + 1)
        BY <1>3, <1>4, <1>5, <4>1 DEF ReplyFrom
      <4>4. u.number < pending[(k + 1) + i].number
        BY <1>5, <1>7, <1>11, <4>3
      <4> QED
        BY <1>1, <1>10, <4>2, <4>4
    <3> QED
      BY <3>1, <3>2, <3>3 DEF ReplyFrom
  <2>2. k + 1 \in 0 .. Len(pending')
    BY <1>1, <1>6
  <2> QED
    BY <1>1, <2>1, <2>2 DEF ReplyFollows
<1>17. \A m \in 1 .. Len(content) : Done(m) => Done(m)'
  BY <1>1, StaysDone
<1>18. Done(u.number)'
  BY <1>0, <1>1 DEF Done, Said
<1>19. ConfirmedIsDone'
  BY <1>1, <1>17 DEF UpdatesInv, ConfirmedIsDone, Pending, Done
<1>20. AllDone'
  <2>1. ASSUME NEW m \in 1 .. Len(content), m =< u.number
        PROVE  Done(m)'
    <3>1. CASE Pending(m)
      <4>1. PICK i \in 1 .. Len(pending) : pending[i].number = m
        BY <1>5, <3>1, Elements DEF Pending
      <4>2. i =< k + 1
        BY <1>5, <1>7, <1>11, <2>1, <4>1
      <4>3. CASE i \in 1 .. k
        BY <1>6, <1>17, <4>1, <4>3 DEF UpdatesInv, AllDone
      <4>4. CASE i = k + 1
        BY <1>6, <1>18, <4>1, <4>4
      <4> QED
        BY <4>2, <4>3, <4>4
    <3>2. CASE ~Pending(m)
      BY <1>17, <3>2 DEF UpdatesInv, ConfirmedIsDone, Done
    <3> QED
      BY <3>1, <3>2
  <2> QED
    BY <1>1, <1>10, <2>1 DEF AllDone, Remembers
<1>21. InOrderOnce'
  <2> SUFFICES ASSUME NEW i \in 1 .. Len(handled') - 1
               PROVE  handled'[i] < handled'[i + 1]
    BY DEF InOrderOnce
  <2>1. CASE i \in 1 .. Len(handled) - 1
    <3>1. i \in 1 .. Len(handled) /\ i + 1 \in 1 .. Len(handled)
      BY <1>9, <2>1
    <3> QED
      BY <1>9, <2>1, <3>1 DEF UpdatesInv, InOrderOnce
  <2>2. CASE i = Len(handled)
    <3>1. Len(handled) # 0 /\ LastHandled = handled[Len(handled)]
      BY <1>9, <2>2, EmptySeq DEF LastHandled
    <3> QED
      BY <1>6, <1>9, <2>2, <3>1
  <2> QED
    BY <1>9, <2>1, <2>2
<1> QED
  BY <1>12, <1>13, <1>14, <1>15, <1>16, <1>19, <1>20, <1>21 DEF UpdatesInv

(* After its death the bot knows nothing, and all that is pending comes     *)
(* behind nothing.                                                          *)
LEMMA CrashKeeps == UpdatesInv /\ Remembers /\ Crash => UpdatesInv'
<1> SUFFICES ASSUME UpdatesInv, Remembers, Crash
             PROVE  UpdatesInv'
  OBVIOUS
<1>1. /\ poll' = "asked" /\ offset' = 0 /\ reply' = << >> /\ last_update_id' = 0
      /\ handled' = << >>
      /\ UNCHANGED <<content, pending, top, quiet, ever>>
  BY DEF Crash, service
<1>2. UpdatesTypeOK
  BY DEF UpdatesInv
<1>3. LastHandled' = 0 /\ Len(handled') = 0 /\ handled' \in Seq(Nat) /\ reply' \in Seq(Update)
  BY <1>1 DEF LastHandled
<1>4. /\ Len(content) \in Nat /\ top \in Nat
      /\ \A i \in 1 .. Len(pending) : /\ pending[i].id \in Nat /\ 0 < pending[i].id
                                      /\ pending[i].number \in Nat
                                      /\ 0 < pending[i].number
  BY <1>2, Elements, LenProperties DEF UpdatesTypeOK
<1>5. UpdatesTypeOK'
  <2>1. UNCHANGED <<content, pending, top, quiet>> /\ last_update_id' = 0 /\ offset' = 0
    BY <1>1
  <2>2. poll' \in Polls
    BY <1>1 DEF Polls
  <2>3. LastHandled' =< Len(content)
    BY <1>3, <1>4
  <2> QED
    BY <1>2, <1>3, <2>1, <2>2, <2>3 DEF UpdatesTypeOK
<1>6. PendingInOrder' /\ ReplyFollows'
  BY <1>1 DEF UpdatesInv, PendingInOrder, ReplyFollows
<1>7. OffsetKept' /\ CutRight'
  BY <1>1, <1>3, <1>4 DEF UpdatesInv, OffsetKept, Offset, CutRight
<1>8. AllDone'
  <2>1. \A n \in 1 .. Len(content) : ~(n =< LastHandled')
    BY <1>3
  <2> QED
    BY <1>1, <2>1 DEF AllDone, Remembers
<1>9. ConfirmedIsDone'
  BY <1>1 DEF UpdatesInv, ConfirmedIsDone, Pending, Remembers
<1>10. InOrderOnce'
  BY <1>3 DEF InOrderOnce
<1> QED
  BY <1>5, <1>6, <1>7, <1>8, <1>9, <1>10 DEF UpdatesInv

-----------------------------------------------------------------------------
LEMMA UpdatesStep == UpdatesInv /\ BotNext => UpdatesInv'
<1> SUFFICES ASSUME UpdatesInv, BotNext
             PROVE  UpdatesInv'
  OBVIOUS
<1>1. Remembers /\ known = known_file
  BY GamesRemember DEF UpdatesInv, AllDone
<1>2. CASE Polling
  BY <1>1, <1>2, SendKeeps, ConfirmKeeps, AnswerKeeps, ReplyArrivesKeeps,
     FinishUpdatesKeeps, FailKeeps, RestartUpdatesKeeps DEF Polling
<1>3. CASE Process
  <2>1. Said(Head(reply)) \in Users => Said(Head(reply)) \in known_file'
    <3>1. CASE Games!Message(Said(Head(reply)), Said(Head(reply)))
      BY <1>1, <3>1, MessageRemembers
    <3> QED
      BY <1>3, <3>1, ContentsAssumption DEF Process
  <2> QED
    BY <1>1, <1>3, <2>1, ProcessKeeps DEF Process
<1>4. CASE Timers
  <2>1. UNCHANGED <<content, pending, top, quiet, poll, offset, reply, last_update_id,
                    history>>
    BY <1>4 DEF Timers, updateVars, service, bot
  <2>2. LastHandled' = LastHandled /\ Offset' = Offset
    BY <2>1 DEF LastHandled, Offset, history
  <2>3. OffsetKept' /\ CutRight'
    BY <2>1, <2>2 DEF UpdatesInv, OffsetKept, CutRight
  <2>4. ReplyFollows'
    <3>1. \A k \in 0 .. Len(pending) : ReplyFrom(k) => ReplyFrom(k)'
      BY <2>1, <2>2 DEF ReplyFrom
    <3> QED
      BY <2>1, <3>1 DEF UpdatesInv, ReplyFollows
  <2> QED
    BY <1>1, <2>1, <2>3, <2>4, QuietStep DEF UpdatesInv, UpdatesTypeOK
<1>5. CASE Die
  BY <1>1, <1>5, CrashKeeps DEF Die
<1> QED
  BY <1>2, <1>3, <1>4, <1>5 DEF BotNext

LEMMA UpdatesStutter == UpdatesInv /\ UNCHANGED botVars => UpdatesInv'
<1> SUFFICES ASSUME UpdatesInv, UNCHANGED botVars
             PROVE  UpdatesInv'
  OBVIOUS
<1>1. UNCHANGED <<content, pending, top, quiet, poll, offset, reply, last_update_id,
                  handled, ever, known, known_file>>
  BY DEF botVars, updateVars, service, bot, history, gameVars
<1> QED
  BY <1>1
  DEF UpdatesInv, UpdatesTypeOK, PendingInOrder, OffsetKept, Offset, CutRight,
      ReplyFollows, ReplyFrom, AllDone, Done, LastHandled, InOrderOnce, ConfirmedIsDone,
      Pending

LEMMA UpdatesInvariance == BotSpec => []UpdatesInv
<1>1. UpdatesInv /\ [BotNext]_botVars => UpdatesInv'
  BY UpdatesStep, UpdatesStutter
<1> QED
  BY UpdatesBegin, <1>1, PTL DEF BotSpec

(* No update gets lost: Telegram forgets one only when the bot has          *)
(* processed it, and has saved who wrote it if it was a private message.    *)
THEOREM NoUpdateIsLost == BotSpec => []ConfirmedIsDone
<1>1. UpdatesInv => ConfirmedIsDone
  BY DEF UpdatesInv
<1> QED
  BY UpdatesInvariance, <1>1, PTL

(* No update is processed twice, or after a later one, until the bot dies.  *)
THEOREM NoUpdateTwice == BotSpec => []InOrderOnce
<1>1. UpdatesInv => InOrderOnce
  BY DEF UpdatesInv
<1> QED
  BY UpdatesInvariance, <1>1, PTL

(* What the bot does with its updates is what Bot describes, one update     *)
(* after the other: what is proved of the games holds whatever Telegram and *)
(* the network do to the requests.                                          *)
THEOREM GamesAsDescribed == BotSpec => Games!Spec
<1>1. BotInit => Games!Init
  BY DEF BotInit
<1>2. [BotNext]_botVars => [Games!Next]_Games!vars
  <2> SUFFICES ASSUME [BotNext]_botVars
               PROVE  [Games!Next]_Games!vars
    OBVIOUS
  <2>1. CASE Process
    <3>1. CASE Said(Head(reply)) \in Users
               /\ Games!Message(Said(Head(reply)), Said(Head(reply)))
      BY <3>1 DEF Games!Next
    <3>2. CASE \E u \in Users :
                  \/ \E chat \in Groups : \/ Games!Message(u, chat)
                                          \/ Games!CreateCallback(u, chat)
                  \/ Games!GameCallback(u)
      BY <3>2 DEF Games!Next
    <3> QED
      BY <2>1, <3>1, <3>2 DEF Process
  <2>2. CASE Timers
    BY <2>2 DEF Timers, Games!Next
  <2>3. CASE Die
    BY <2>3 DEF Die, Games!Next
  <2>4. CASE (Polling /\ UNCHANGED gameVars) \/ UNCHANGED botVars
    BY <2>4 DEF gameVars, botVars, Games!vars
  <2> QED
    BY <2>1, <2>2, <2>3, <2>4 DEF BotNext
<1> QED
  BY <1>1, <1>2, PTL DEF BotSpec, Games!Spec

-----------------------------------------------------------------------------
(* The log of pcx-log.c loses no line and changes no order, for any number *)
(* of lines and whatever the thread is doing when they are logged or the   *)
(* log is closed.                                                          *)
(*                                                                         *)
(* What is in the file, in the buffer of the thread and in the buffer of   *)
(* main, one after the other, is the history since the file was set; each  *)
(* step only moves the borders. For this the thread's buffer must be empty *)
(* whenever it is not writing, or Swap would give main a buffer with old   *)
(* lines in it; and the thread may go only when nothing is left, since     *)
(* Close forgets what is in the buffer.                                    *)

All == file \o alternate \o buffer

(* Lines in their order, none that was not logged yet.                      *)
InOrder == /\ Ascending(All)
           /\ \A i \in 1 .. Len(All) : All[i] =< said

(* The lines from the one after n to the m-th, without a gap.               *)
Complete(s, n, m) == /\ Len(s) = m - n
                     /\ \A i \in 1 .. m - n : s[i] = n + i

(* Who may have what, by where the thread and the main thread are.          *)
Borders ==
    /\ thread # "writing" => alternate = << >>
    /\ caller \in {"running", "joining"} <=> thread # "none"
    /\ caller = "starting" => file = << >> /\ ~failed
    /\ caller = "closed" => buffer = << >>
    /\ thread = "gone" => buffer = << >> /\ caller = "joining"
    /\ pcx_log_finished => caller \in {"joining", "closed"}
    /\ had_error => failed
    /\ dropped =< said

(* The inductive invariant.                                                 *)
LogInv ==
    /\ LogTypeOK
    /\ Borders
    /\ InOrder
    /\ ~failed => Complete(All, dropped, said)

-----------------------------------------------------------------------------
LEMMA Empty == << >> \in Seq(Nat) /\ Len(<< >>) = 0
  OBVIOUS

(* Three sequences one after the other.                                     *)
LEMMA Joined ==
    ASSUME NEW f \in Seq(Nat), NEW a \in Seq(Nat), NEW b \in Seq(Nat)
    PROVE  /\ f \o a \o b \in Seq(Nat)
           /\ Len(f \o a \o b) = Len(f) + Len(a) + Len(b)
           /\ \A i \in 1 .. Len(f) : (f \o a \o b)[i] = f[i]
           /\ \A i \in 1 .. Len(a) : (f \o a \o b)[Len(f) + i] = a[i]
           /\ \A i \in 1 .. Len(b) : (f \o a \o b)[Len(f) + Len(a) + i] = b[i]
  OBVIOUS

(* A line that is logged comes after all the others.                        *)
LEMMA JoinedAppend ==
    ASSUME NEW f \in Seq(Nat), NEW a \in Seq(Nat), NEW b \in Seq(Nat), NEW x \in Nat
    PROVE  f \o a \o Append(b, x) = Append(f \o a \o b, x)
  OBVIOUS

(* What is not moved beyond another line stays where it is.                 *)
LEMMA JoinedMoved ==
    ASSUME NEW f \in Seq(Nat), NEW a \in Seq(Nat), NEW b \in Seq(Nat)
    PROVE  /\ (f \o a) \o << >> \o b = f \o a \o b
           /\ f \o b \o << >> = f \o << >> \o b
           /\ f \o a \in Seq(Nat)
<1>1. f \o a \in Seq(Nat) /\ f \o b \in Seq(Nat)
  BY ConcatProperties
<1>2. (f \o a) \o << >> = f \o a /\ (f \o b) \o << >> = f \o b /\ f \o << >> = f
  BY <1>1, ConcatEmptySeq
<1> QED
  BY <1>1, <1>2

(* Without the end of a and without b, if it goes too, the order remains.   *)
LEMMA Dropping ==
    ASSUME NEW f \in Seq(Nat), NEW a \in Seq(Nat), NEW b \in Seq(Nat),
           NEW n \in 0 .. Len(a), NEW c \in {b, << >>}, NEW last \in Nat,
           Ascending(f \o a \o b),
           \A i \in 1 .. Len(f \o a \o b) : (f \o a \o b)[i] =< last
    PROVE  LET s == f \o Prefix(a, n) \o c
           IN /\ s \in Seq(Nat)
              /\ Ascending(s)
              /\ \A i \in 1 .. Len(s) : s[i] =< last
<1> DEFINE all == f \o a \o b
           p == Prefix(a, n)
           s == f \o p \o c
           At(i) == IF i =< Len(f) + n THEN i ELSE i + Len(a) - n
<1> HIDE DEF all, p, s, At
<1>1. p \in Seq(Nat) /\ Len(p) = n /\ \A i \in 1 .. n : p[i] = a[i]
  <2>1. n \in Nat /\ \A i \in 1 .. n : a[i] \in Nat
    OBVIOUS
  <2>2. /\ SubSeq(a, 1, n) \in Seq(Nat)
        /\ Len(SubSeq(a, 1, n)) = IF 1 =< n THEN n - 1 + 1 ELSE 0
        /\ \A i \in 1 .. n - 1 + 1 : SubSeq(a, 1, n)[i] = a[1 + i - 1]
    BY <2>1, SubSeqProperties
  <2> QED
    BY <2>1, <2>2 DEF Prefix, p
<1>2. c \in Seq(Nat) /\ Len(c) =< Len(b) /\ \A i \in 1 .. Len(c) : c[i] = b[i]
  <2>1. CASE c = b
    BY <2>1
  <2>2. CASE c = << >>
    <3>1. \A i \in 1 .. 0 : c[i] = b[i]
      OBVIOUS
    <3> QED
      BY <2>2, <3>1, Empty
  <2> QED
    BY <2>1, <2>2
<1>3. /\ s \in Seq(Nat)
      /\ Len(s) = Len(f) + n + Len(c)
      /\ \A i \in 1 .. Len(f) : s[i] = f[i]
      /\ \A i \in 1 .. n : s[Len(f) + i] = p[i]
      /\ \A i \in 1 .. Len(c) : s[Len(f) + n + i] = c[i]
  <2>1. /\ f \o p \o c \in Seq(Nat)
        /\ Len(f \o p \o c) = Len(f) + Len(p) + Len(c)
        /\ \A i \in 1 .. Len(f) : (f \o p \o c)[i] = f[i]
        /\ \A i \in 1 .. Len(p) : (f \o p \o c)[Len(f) + i] = p[i]
        /\ \A i \in 1 .. Len(c) : (f \o p \o c)[Len(f) + Len(p) + i] = c[i]
    <3>1. p \in Seq(Nat) /\ c \in Seq(Nat)
      BY <1>1, <1>2
    <3> QED
      BY ONLY f \in Seq(Nat), <3>1, Joined
  <2> QED
    BY <2>1, <1>1 DEF s
<1>4. /\ all \in Seq(Nat)
      /\ Len(all) = Len(f) + Len(a) + Len(b)
      /\ \A i \in 1 .. Len(f) : all[i] = f[i]
      /\ \A i \in 1 .. Len(a) : all[Len(f) + i] = a[i]
      /\ \A i \in 1 .. Len(b) : all[Len(f) + Len(a) + i] = b[i]
  BY Joined DEF all
<1>5. \A i \in 1 .. Len(s) : At(i) \in 1 .. Len(all) /\ s[i] = all[At(i)]
  <2> SUFFICES ASSUME NEW i \in 1 .. Len(s)
               PROVE  At(i) \in 1 .. Len(all) /\ s[i] = all[At(i)]
    OBVIOUS
  <2>1. Len(f) \in Nat /\ Len(a) \in Nat /\ Len(b) \in Nat /\ Len(c) \in Nat /\ n \in Nat
    BY <1>2
  <2> USE DEF At
  <2>2. CASE i =< Len(f)
    <3>1. i \in 1 .. Len(f) /\ i \in 1 .. Len(all) /\ At(i) = i
      <4>1. Len(all) = Len(f) + Len(a) + Len(b) /\ i \in Nat /\ i # 0
        BY <1>4
      <4> QED
        BY <2>1, <2>2, <4>1
    <3> QED
      BY <3>1, <1>3, <1>4
  <2>3. CASE i > Len(f) /\ i =< Len(f) + n
    <3>1. i - Len(f) \in 1 .. n /\ i - Len(f) \in 1 .. Len(a) /\ i = Len(f) + (i - Len(f))
      BY <2>1, <2>3
    <3>2. At(i) = i /\ i \in 1 .. Len(all)
      BY <2>1, <2>3, <1>4
    <3>3. s[i] = p[i - Len(f)] /\ all[i] = a[i - Len(f)] /\ p[i - Len(f)] = a[i - Len(f)]
      BY <3>1, <1>1, <1>3, <1>4
    <3> QED
      BY <3>2, <3>3
  <2>4. CASE i > Len(f) + n
    <3> DEFINE j == i - (Len(f) + n)
    <3>1. j \in 1 .. Len(c) /\ j \in 1 .. Len(b) /\ i = Len(f) + n + j
          /\ At(i) = Len(f) + Len(a) + j
      <4>1. Len(s) = Len(f) + n + Len(c) /\ i \in 1 .. Len(s)
        BY <1>3
      <4>2. j \in 1 .. Len(c)
        BY <2>1, <2>4, <4>1
      <4>3. Len(c) =< Len(b)
        BY <1>2
      <4>4. j \in 1 .. Len(b)
        BY <2>1, <4>2, <4>3
      <4> QED
        BY <2>1, <2>4, <4>1, <4>2, <4>4
    <3> HIDE DEF j, At
    <3>2. s[i] = c[j] /\ all[At(i)] = b[j] /\ c[j] = b[j]
      BY <3>1, <1>2, <1>3, <1>4
    <3>3. At(i) \in 1 .. Len(all)
      <4>1. Len(all) = Len(f) + Len(a) + Len(b)
        BY <1>4
      <4> QED
        BY <3>1, <4>1, <2>1, SMTT(30)
    <3> QED
      BY <3>2, <3>3
  <2> QED
    BY <2>1, <2>2, <2>3, <2>4
<1>6. \A i, j \in 1 .. Len(s) : i < j => At(i) < At(j)
  <2>1. Len(f) \in Nat /\ Len(a) \in Nat /\ Len(s) \in Nat /\ n \in Nat /\ n =< Len(a)
    BY <1>3
  <2> QED
    BY <2>1 DEF At
<1>7. Ascending(s)
  <2>1. Ascending(all)
    BY DEF all
  <2> QED
    BY <2>1, <1>5, <1>6 DEF Ascending
<1>8. \A i \in 1 .. Len(s) : s[i] =< last
  <2>1. \A i \in 1 .. Len(all) : all[i] =< last
    BY DEF all
  <2> QED
    BY <2>1, <1>5
<1> QED
  BY <1>3, <1>7, <1>8 DEF s, p

-----------------------------------------------------------------------------
(* The invariant holds at first, and the property follows from it.          *)
LEMMA LogInitInv == LogInit => LogInv
<1> SUFFICES ASSUME LogInit PROVE LogInv
  OBVIOUS
<1>1. All = << >>
  BY DEF LogInit, All
<1>2. LogTypeOK
  BY Empty DEF LogInit, LogTypeOK
<1>4. Borders
  BY DEF LogInit, Borders
<1>3. InOrder /\ Complete(All, dropped, said)
  BY <1>1 DEF LogInit, InOrder, Ascending, Complete
<1> QED
  BY <1>2, <1>3, <1>4 DEF LogInv

LEMMA LogInvIsWhole == LogInv => LogWhole
<1> SUFFICES ASSUME LogInv PROVE LogWhole
  OBVIOUS
<1> USE DEF LogInv, LogTypeOK
<1>1. Ascending(file)
  <2>1. /\ Len(All) = Len(file) + Len(alternate) + Len(buffer)
        /\ \A i \in 1 .. Len(file) : All[i] = file[i]
    BY Joined DEF All
  <2> QED
    BY <2>1 DEF InOrder, Ascending
<1>2. ~failed => /\ Len(file \o alternate \o buffer) = said - dropped
                 /\ \A i \in 1 .. said - dropped :
                       (file \o alternate \o buffer)[i] = dropped + i
  BY DEF All, Complete
<1>3. caller = "closed" /\ ~failed => Len(file) = said - dropped
  <2> SUFFICES ASSUME caller = "closed", ~failed PROVE Len(file) = said - dropped
    OBVIOUS
  <2>1. buffer = << >> /\ alternate = << >>
    BY DEF Borders
  <2>2. Len(file \o alternate \o buffer) = Len(file)
    BY <2>1
  <2> QED
    BY <1>2, <2>2
<1> QED
  BY <1>1, <1>2, <1>3 DEF LogWhole

(* Nothing is logged, and the lines are the same.                           *)
LEMMA SameLines ==
    ASSUME LogInv, LogTypeOK', Borders', All' = All, said' = said, dropped' = dropped,
           failed' = failed
    PROVE  LogInv'
  BY DEF LogInv, InOrder, Ascending, Complete

(* Some lines are gone after a failure.                                     *)
LEMMA FewerLines ==
    ASSUME LogInv, LogTypeOK', Borders', failed', said' = said,
           NEW n \in 0 .. Len(alternate), NEW c \in {buffer, << >>},
           All' = file \o Prefix(alternate, n) \o c
    PROVE  LogInv'
<1>1. /\ Ascending(All')
      /\ \A i \in 1 .. Len(All') : All'[i] =< said
  BY Dropping, ZenonT(60) DEF LogInv, LogTypeOK, InOrder, All
<1>2. InOrder'
  BY <1>1 DEF InOrder, Ascending
<1> QED
  BY <1>2 DEF LogInv

(* The log is begun again, or closed without a thread.                      *)
LEMMA NoLines ==
    ASSUME LogInv, LogTypeOK', Borders', All' = << >>, said' = said, dropped' = said
    PROVE  LogInv'
<1>1. InOrder' /\ Complete(All, dropped, said)'
  BY DEF LogInv, LogTypeOK, InOrder, Ascending, Complete
<1> QED
  BY <1>1 DEF LogInv

-----------------------------------------------------------------------------
(* The steps of the main thread.                                            *)
LEMMA LogLine == LogInv /\ pcx_log => LogInv'
<1> SUFFICES ASSUME LogInv, pcx_log PROVE LogInv'
  OBVIOUS
<1> USE DEF LogInv, pcx_log, Signal
<1>1. LogTypeOK'
  BY DEF LogTypeOK
<1>2. Borders'
  BY DEF LogTypeOK, Borders
<1>3. All \in Seq(Nat) /\ All' = Append(All, said + 1)
  <2>1. said + 1 \in Nat /\ file \in Seq(Nat) /\ alternate \in Seq(Nat)
        /\ buffer \in Seq(Nat)
    BY DEF LogTypeOK
  <2>2. All' = file \o alternate \o Append(buffer, said + 1)
    BY DEF All
  <2> QED
    <3>1. file \o alternate \o Append(buffer, said + 1) = Append(file \o alternate \o buffer, said + 1)
      BY <2>1, JoinedAppend
    <3>2. file \o alternate \o buffer \in Seq(Nat)
      BY <2>1, Joined
    <3> QED
      BY <2>2, <3>1, <3>2 DEF All
<1>4. Len(All') = Len(All) + 1 /\ Len(All) \in Nat
      /\ \A i \in 1 .. Len(All') : All'[i] = IF i =< Len(All) THEN All[i] ELSE said + 1
  BY <1>3
<1> HIDE DEF pcx_log
<1>5. said \in Nat /\ dropped \in Nat /\ dropped =< said /\ said' = said + 1
      /\ dropped' = dropped /\ failed' = failed
  BY DEF LogTypeOK, Borders, pcx_log
<1>6. \A i \in 1 .. Len(All) : All[i] \in Nat
  BY <1>3
<1>7. InOrder'
  <2>1. \A i \in 1 .. Len(All') : All'[i] =< said + 1
    BY <1>4, <1>5, <1>6 DEF InOrder
  <2>2. Ascending(All')
    BY <1>4, <1>5, <1>6 DEF InOrder, Ascending
  <2> QED
    BY <2>1, <2>2, <1>5 DEF InOrder, Ascending
<1>8. ~failed' => Complete(All', dropped', said')
  BY <1>4, <1>5, SMTT(30) DEF Complete
<1> QED
  BY <1>1, <1>2, <1>7, <1>8 DEF Complete

LEMMA LogSetFile == LogInv /\ pcx_log_set_file => LogInv'
<1> SUFFICES ASSUME LogInv, pcx_log_set_file PROVE LogInv'
  OBVIOUS
<1> USE DEF pcx_log_set_file
<1>1. LogTypeOK' /\ Borders'
  <2>1. LogTypeOK'
    BY Empty DEF LogInv, LogTypeOK
  <2>2. Borders'
    BY DEF LogInv, LogTypeOK, Borders
  <2> QED
    BY <2>1, <2>2
<1>2. All' = << >>
  BY DEF LogInv, Borders, All
<1> QED
  BY <1>1, <1>2, NoLines

LEMMA LogStart == LogInv /\ pcx_log_start => LogInv'
<1> SUFFICES ASSUME LogInv, pcx_log_start PROVE LogInv'
  OBVIOUS
<1> USE DEF pcx_log_start
<1>1. LogTypeOK' /\ Borders'
  BY Empty DEF LogInv, LogTypeOK, Borders
<1> QED
  BY <1>1, SameLines DEF All

LEMMA LogAsk == LogInv /\ AskToFinish => LogInv'
<1> SUFFICES ASSUME LogInv, AskToFinish PROVE LogInv'
  OBVIOUS
<1> USE DEF AskToFinish, Signal
<1>1. LogTypeOK' /\ Borders'
  BY Empty DEF LogInv, LogTypeOK, Borders
<1> QED
  BY <1>1, SameLines DEF All

LEMMA LogClose == LogInv /\ Close => LogInv'
<1> SUFFICES ASSUME LogInv, Close PROVE LogInv'
  OBVIOUS
<1> USE DEF Close
<1>1. LogTypeOK' /\ Borders'
  BY Empty DEF LogInv, LogTypeOK, Borders
<1>2. CASE caller = "starting"
  <2>1. All' = << >> /\ dropped' = said
    BY <1>2 DEF LogInv, Borders, All
  <2> QED
    BY <1>1, <2>1, NoLines
<1>3. CASE caller = "joining"
  <2>1. buffer = << >> /\ dropped' = dropped
    BY <1>3 DEF LogInv, Borders
  <2> QED
    BY <1>1, <2>1, SameLines DEF All
<1> QED
  BY <1>2, <1>3

-----------------------------------------------------------------------------
(* The steps of the thread.                                                 *)
LEMMA LogIgnore == LogInv /\ Ignore => LogInv'
<1> SUFFICES ASSUME LogInv, Ignore PROVE LogInv'
  OBVIOUS
<1> USE DEF Ignore
<1>1. LogTypeOK' /\ Borders' /\ failed'
  BY Empty DEF LogInv, LogTypeOK, Borders
<1>2. alternate = << >> /\ Prefix(alternate, 0) = << >> /\ 0 \in 0 .. Len(alternate)
  BY DEF LogInv, Borders, Prefix
<1>3. All' = file \o Prefix(alternate, 0) \o << >>
  BY <1>2 DEF All
<1> QED
  BY <1>1, <1>2, <1>3, FewerLines

LEMMA LogSwap == LogInv /\ Swap => LogInv'
<1> SUFFICES ASSUME LogInv, Swap PROVE LogInv'
  OBVIOUS
<1> USE DEF Swap
<1>1. LogTypeOK' /\ Borders'
  BY Empty DEF LogInv, LogTypeOK, Borders
<1>2. All' = All
  BY JoinedMoved DEF LogInv, LogTypeOK, Borders, All
<1> QED
  BY <1>1, <1>2, SameLines

LEMMA LogWrite == LogInv /\ Write => LogInv'
<1> SUFFICES ASSUME LogInv, Write PROVE LogInv'
  OBVIOUS
<1>1. CASE file' = file \o alternate /\ UNCHANGED <<failed, had_error>>
  <2>1. LogTypeOK' /\ Borders'
    BY <1>1, Empty DEF LogInv, LogTypeOK, Borders, Write
  <2>2. All' = All
    BY <1>1, JoinedMoved DEF LogInv, LogTypeOK, All, Write
  <2> QED
    BY <2>1, <2>2, <1>1, SameLines DEF Write
<1>2. CASE /\ \E n \in 0 .. Len(alternate) - 1 : file' = file \o Prefix(alternate, n)
           /\ failed' = TRUE /\ had_error' \in {had_error, TRUE}
  <2>1. PICK n \in 0 .. Len(alternate) - 1 : file' = file \o Prefix(alternate, n)
    BY <1>2
  <2>2. n \in 0 .. Len(alternate) /\ alternate \in Seq(Nat) /\ file \in Seq(Nat)
        /\ buffer \in Seq(Nat)
    BY DEF LogInv, LogTypeOK
  <2>3. Prefix(alternate, n) \in Seq(Nat)
    BY <2>2 DEF Prefix
  <2>6. file' \in Seq(Nat) /\ failed' \in BOOLEAN /\ had_error' \in BOOLEAN
    BY <1>2, <2>1, <2>2, <2>3, ConcatProperties DEF LogInv, LogTypeOK
  <2>7. LogTypeOK'
    BY <2>6, Empty DEF LogInv, LogTypeOK, Write
  <2>8. Borders'
    BY <1>2 DEF LogInv, LogTypeOK, Borders, Write
  <2>4. LogTypeOK' /\ Borders'
    BY <2>7, <2>8
  <2>5. All' = file \o Prefix(alternate, n) \o buffer
    BY <2>1, <2>2, <2>3, JoinedMoved DEF All, Write
  <2> QED
    BY <1>2, <2>2, <2>4, <2>5, FewerLines DEF Write
<1> QED
  BY <1>1, <1>2 DEF Write

LEMMA LogThread == LogInv /\ Thread => LogInv'
<1> SUFFICES ASSUME LogInv, Thread PROVE LogInv'
  OBVIOUS
<1>1. CASE Leave
  <2>1. LogTypeOK' /\ Borders'
    BY <1>1 DEF LogInv, LogTypeOK, Borders, Leave, Leaves
  <2> QED
    BY <1>1, <2>1, SameLines DEF All, Leave
<1>2. CASE Wait
  <2>1. LogTypeOK' /\ Borders'
    BY <1>2 DEF LogInv, LogTypeOK, Borders, Wait
  <2> QED
    BY <1>2, <2>1, SameLines DEF All, Wait
<1>3. CASE WakeForNothing
  <2>1. LogTypeOK' /\ Borders'
    BY <1>3 DEF LogInv, LogTypeOK, Borders, WakeForNothing
  <2> QED
    BY <1>3, <2>1, SameLines DEF All, WakeForNothing
<1> QED
  BY <1>1, <1>2, <1>3, LogIgnore, LogSwap, LogWrite DEF Thread

-----------------------------------------------------------------------------
LEMMA LogInvariance == LogSpec => []LogInv
<1>1. LogInv /\ [LogNext]_logVars => LogInv'
  <2> SUFFICES ASSUME LogInv, [LogNext]_logVars PROVE LogInv'
    OBVIOUS
  <2>1. CASE UNCHANGED logVars
    <3>1. LogTypeOK' /\ Borders'
      BY <2>1 DEF LogInv, LogTypeOK, Borders, logVars
    <3> QED
      BY <2>1, <3>1, SameLines DEF logVars, All
  <2> QED
    BY <2>1, LogLine, LogSetFile, LogStart, LogAsk, LogClose, LogThread DEF LogNext
<1> QED
  BY <1>1, LogInitInv, PTL DEF LogSpec

(* Until a write fails the log is whole, in its order, and all of it is in  *)
(* the file when it is closed; and whatever fails, no line is out of its    *)
(* place (pcx-log.c).                                                       *)
THEOREM LogIsWhole == LogSpec => []LogWhole
  BY LogInvariance, LogInvIsWhole, PTL

-----------------------------------------------------------------------------
(* The loop of pcx-main-context.c keeps its promises, for any number of    *)
(* sockets and timers and any delays, whatever callbacks do to the sources *)
(* that the loop is about to look at.                                      *)
(*                                                                         *)
(* The part that is not obvious is the time. The clock that the loop has   *)
(* remembered is old by no more than what callbacks have spent since poll  *)
(* returned, so the end of a new timer is not too early by more than that; *)
(* and a timer that was due when poll returned has left the list before a  *)
(* callback looks at it. Between these two moments, at "results", nothing  *)
(* can be said of how late a timer is.                                     *)

LoopTypeOK ==
    /\ polls \in [DOMAIN polls -> BOOLEAN]
    /\ poll_array \in [DOMAIN poll_array -> BOOLEAN]
    /\ poll_array_dirty \in BOOLEAN
    /\ timers \in [DOMAIN timers -> Nat]
    /\ to_emit \in [DOMAIN to_emit -> BOOLEAN]
    /\ moment \in Nat /\ spent \in Nat
    /\ clock \in Nat \cup {Invalid} /\ wake \in Nat \cup {NoEnd}
    /\ at \in {"loop", "poll", "results", "timers", "fatal", "left"}

(* The list of the timers and that of those that are being emitted.         *)
ListsApart ==
    /\ DOMAIN timers \cap DOMAIN to_emit = {}
    /\ called \subseteq DOMAIN to_emit
    /\ at # "timers" => DOMAIN to_emit = {}

(* The array, and the results that are still to come.                       *)
ArrayKept ==
    /\ ~poll_array_dirty => poll_array = polls
    /\ at = "poll" => ~poll_array_dirty

ResultsKnown ==
    /\ results # {} => at \in {"results", "fatal"}
    /\ results \ DOMAIN polls \subseteq CurlSockets
    /\ \A fd \in results : running # Socket(fd)

(* A callback runs when there are results or timers to handle.              *)
CallbackRuns ==
    /\ running # Nobody => at \in {"results", "timers"}
    /\ \A id \in 1 .. MaxTimers : running = Timer(id) => at = "timers"

(* The clock is as old as the callbacks were long.                          *)
ClockRecent ==
    /\ clock =< moment
    /\ at # "poll" /\ clock # Invalid => moment =< clock + spent

InTime ==
    /\ at \in {"loop", "poll", "timers", "left"} =>
           \A id \in DOMAIN timers : moment =< timers[id] + spent
    /\ at = "poll" => \A id \in DOMAIN timers :
           wake # NoEnd /\ wake =< timers[id] + spent

(* The inductive invariant.                                                 *)
LoopInv ==
    /\ LoopTypeOK
    /\ ListsApart
    /\ TimersHeld
    /\ ArrayKept
    /\ ResultsKnown
    /\ CallbackRuns
    /\ ClockRecent
    /\ InTime

-----------------------------------------------------------------------------
(* The earliest end of a timer is the one that poll waits for.              *)
LEMMA EarliestEnd ==
    ASSUME NEW S \in SUBSET Nat, S # {}
    PROVE  \E x \in S : \A y \in S : x =< y
<1>1. PICK x \in S : \A y \in S : ~ (<<y, x>> \in OpToRel(<, Nat))
  BY NatLessThanWellFounded, WFMin, ZenonT(60)
<1>2. SUFFICES ASSUME NEW y \in S
               PROVE  x =< y
  OBVIOUS
<1>3. ~ (y < x)
  BY <1>1 DEF OpToRel
<1> QED
  BY <1>3

-----------------------------------------------------------------------------
(* The invariant holds at the start, and every step keeps it: first those   *)
(* of the loop itself.                                                      *)
LEMMA LoopBegins == LoopInit => LoopInv
  BY DEF LoopInit, Only, Nobody, Socket, Timer, Invalid, NoEnd,
         LoopInv, LoopTypeOK, ListsApart, TimersHeld, ArrayKept, ResultsKnown,
         CallbackRuns, ClockRecent, InTime

LEMMA PollKeeps == LoopInv /\ Poll => LoopInv'
<1> SUFFICES ASSUME LoopInv, Poll
             PROVE  LoopInv'
  OBVIOUS
<1> USE DEF Poll, Clock, timerVars, callbackVars, signalVars, NoEnd, Invalid
<1>1. ASSUME DOMAIN timers # {}
      PROVE  /\ wake' \in Nat
             /\ \A id \in DOMAIN timers : wake' =< timers[id] + spent
  <2>1. Ends \in SUBSET Nat /\ Ends # {}
    BY <1>1 DEF Ends, LoopInv, LoopTypeOK
  <2>2. PICK e \in Ends : \A f \in Ends : e =< f
    BY <2>1, EarliestEnd
  <2>3. CASE \E f \in Ends : f =< Clock
    <3>1. wake' = moment
      BY <1>1, <2>3 DEF Timeout, LoopInv, LoopTypeOK
    <3> QED
      BY <3>1 DEF LoopInv, LoopTypeOK, InTime
  <2>4. CASE \A f \in Ends : ~(f =< Clock)
    <3> DEFINE first == CHOOSE f \in Ends : \A g \in Ends : f =< g
    <3>1. first \in Ends /\ \A g \in Ends : first =< g
      BY <2>2
    <3>2. wake' = moment + (first - Clock)
      BY <1>1, <2>4 DEF Timeout
    <3>3. first \in Nat /\ Clock \in Nat /\ Clock < first
          /\ Clock =< moment /\ moment =< Clock + spent
      BY <2>1, <2>4, <3>1 DEF LoopInv, LoopTypeOK, ClockRecent
    <3>4. \A id \in DOMAIN timers : timers[id] \in Nat /\ first =< timers[id]
      BY <3>1 DEF Ends, LoopInv, LoopTypeOK
    <3> HIDE DEF first
    <3> QED
      BY <3>2, <3>3, <3>4 DEF LoopInv, LoopTypeOK
  <2> QED
    BY <2>3, <2>4
<1>2. InTime'
  <2>1. \A id \in DOMAIN timers : wake' \in Nat /\ wake' =< timers[id] + spent
    BY <1>1
  <2> QED
    BY <2>1 DEF LoopInv, LoopTypeOK, InTime
<1>3. LoopTypeOK'
  <2>1. CASE DOMAIN timers = {}
    BY <2>1 DEF LoopInv, LoopTypeOK
  <2>2. CASE DOMAIN timers # {}
    BY <1>1, <2>2 DEF LoopInv, LoopTypeOK
  <2> QED
    BY <2>1, <2>2
<1> QED
  BY <1>2, <1>3 DEF LoopInv, LoopTypeOK, ListsApart, TimersHeld, ArrayKept, ResultsKnown,
         CallbackRuns, ClockRecent

LEMMA PollReturnsKeeps == LoopInv /\ PollReturns => LoopInv'
  BY DEF PollReturns, MayBeReady, socketVars, timerVars, callbackVars, signalVars, Nobody, Socket, Timer,
         Invalid, NoEnd,
         LoopInv, LoopTypeOK, ListsApart, TimersHeld, ArrayKept, ResultsKnown,
         CallbackRuns, ClockRecent, InTime

LEMMA RaiseKeeps == LoopInv /\ Raise => LoopInv'
  BY DEF Raise, socketVars, timerVars, callbackVars, signalVars, arrayVars, Nobody, Timer,
         Invalid, NoEnd,
         LoopInv, LoopTypeOK, ListsApart, TimersHeld, ArrayKept, ResultsKnown,
         CallbackRuns, ClockRecent, InTime

LEMMA ResultForNobodyKeeps == LoopInv /\ ResultForNobody => LoopInv'
  BY DEF ResultForNobody, Idle, socketVars, timerVars, callbackVars, signalVars, arrayVars, clockVars,
         LoopInv, LoopTypeOK, ListsApart, TimersHeld, ArrayKept, ResultsKnown,
         CallbackRuns, ClockRecent, InTime

LEMMA HandleResultKeeps == LoopInv /\ HandleResult => LoopInv'
  BY DEF HandleResult, Idle, socketVars, timerVars, callbackVars, signalVars, clockVars,
         Nobody, Socket, Timer,
         LoopInv, LoopTypeOK, ListsApart, TimersHeld, ArrayKept, ResultsKnown,
         CallbackRuns, ClockRecent, InTime

LEMMA HandleSignalKeeps == LoopInv /\ HandleSignal => LoopInv'
  BY DEF HandleSignal, Idle, socketVars, timerVars, callbackVars, signalVars, clockVars,
         LoopInv, LoopTypeOK, ListsApart, TimersHeld, ArrayKept, ResultsKnown,
         CallbackRuns, ClockRecent, InTime

LEMMA CheckTimerSourcesKeeps == LoopInv /\ CheckTimerSources => LoopInv'
  BY DEF CheckTimerSources, Idle, Only, Clock, socketVars, timerVars, callbackVars, signalVars, arrayVars,
         Nobody, Timer, Invalid, NoEnd,
         LoopInv, LoopTypeOK, ListsApart, TimersHeld, ArrayKept, ResultsKnown,
         CallbackRuns, ClockRecent, InTime

LEMMA EmitTimerKeeps == LoopInv /\ EmitTimer => LoopInv'
  BY DEF EmitTimer, Idle, socketVars, timerVars, callbackVars, signalVars, arrayVars, clockVars,
         Nobody, Socket, Timer,
         LoopInv, LoopTypeOK, ListsApart, TimersHeld, ArrayKept, ResultsKnown,
         CallbackRuns, ClockRecent, InTime

LEMMA FreeEmittedKeeps == LoopInv /\ FreeEmitted => LoopInv'
  BY DEF FreeEmitted, Idle, Only, socketVars, timerVars, callbackVars, signalVars, arrayVars, clockVars,
         Nobody, Timer, Invalid, NoEnd,
         LoopInv, LoopTypeOK, ListsApart, TimersHeld, ArrayKept, ResultsKnown,
         CallbackRuns, ClockRecent, InTime

LEMMA ReturnKeeps == LoopInv /\ Return => LoopInv'
  BY DEF Return, socketVars, timerVars, callbackVars, signalVars, arrayVars, clockVars,
         Nobody, Socket, Timer,
         LoopInv, LoopTypeOK, ListsApart, TimersHeld, ArrayKept, ResultsKnown,
         CallbackRuns, ClockRecent, InTime

LEMMA TimeGoesOnKeeps == LoopInv /\ TimeGoesOn => LoopInv'
  BY SMTT(30)
    DEF TimeGoesOn, socketVars, timerVars, callbackVars, signalVars, arrayVars, Invalid, NoEnd,
         LoopInv, LoopTypeOK, ListsApart, TimersHeld, ArrayKept, ResultsKnown,
         CallbackRuns, ClockRecent, InTime

-----------------------------------------------------------------------------
(* What a callback does: what a change of the sockets must not do, and a    *)
(* change of the timers.                                                    *)
Running == running # Nobody /\ UNCHANGED <<arrayVars, at, running, signalVars>>

LEMMA SocketsChange ==
    ASSUME LoopInv, Running, UNCHANGED <<timerVars, clockVars>>,
           polls' \in [DOMAIN polls' -> BOOLEAN], poll_array_dirty' \in BOOLEAN,
           poll_array_dirty' \/ (~poll_array_dirty /\ polls' = polls),
           results \ DOMAIN polls' \subseteq CurlSockets
    PROVE  LoopInv'
  BY DEF Running, arrayVars, timerVars, clockVars, signalVars, Socket, Timer,
         LoopInv, LoopTypeOK, ListsApart, TimersHeld, ArrayKept, ResultsKnown,
         CallbackRuns, ClockRecent, InTime

(* A change of the flags of a socket that is polled.                        *)
LEMMA FlagsChange ==
    ASSUME LoopInv, NEW fd \in DOMAIN polls, NEW on \in BOOLEAN, ModifyPoll(fd, on)
    PROVE  /\ polls' \in [DOMAIN polls -> BOOLEAN] /\ poll_array_dirty' \in BOOLEAN
           /\ poll_array_dirty' \/ (~poll_array_dirty /\ polls' = polls)
<1>1. polls \in [DOMAIN polls -> BOOLEAN] /\ poll_array_dirty \in BOOLEAN
  BY DEF LoopInv, LoopTypeOK
<1>2. polls' = With(polls, fd, on)
  BY DEF ModifyPoll
<1>3. /\ polls' \in [DOMAIN polls -> BOOLEAN] /\ polls'[fd] = on
      /\ \A y \in DOMAIN polls : y # fd => polls'[y] = polls[y]
  BY <1>1, <1>2 DEF With
<1>4. polls[fd] = on => polls' = polls
  BY <1>1, <1>3
<1> QED
  BY <1>1, <1>3, <1>4 DEF ModifyPoll

LEMMA AcceptKeeps == LoopInv /\ Running /\ Accept => LoopInv'
<1> SUFFICES ASSUME LoopInv, Running, Accept
             PROVE  LoopInv'
  OBVIOUS
<1>1. /\ polls \in [DOMAIN polls -> BOOLEAN]
      /\ results \ DOMAIN polls \subseteq CurlSockets
      /\ Listener \in DOMAIN polls /\ Listener \notin results
      /\ UNCHANGED <<timerVars, clockVars>>
  BY DEF Accept, LoopInv, LoopTypeOK, ResultsKnown
<1>2. ASSUME NEW fd \in Conns, AddPoll(fd)
      PROVE  LoopInv'
  BY <1>1, <1>2, SocketsChange DEF AddPoll, With
<1>3. ASSUME ModifyPoll(Listener, FALSE)
      PROVE  LoopInv'
  BY <1>1, <1>3, FlagsChange, SocketsChange
<1>4. ASSUME RemovePoll(Listener)
      PROVE  LoopInv'
  BY <1>1, <1>4, SocketsChange DEF RemovePoll, Without
<1> QED
  BY <1>2, <1>3, <1>4 DEF Accept

LEMMA ChangeFlagsKeeps == LoopInv /\ Running /\ ChangeFlags => LoopInv'
<1> SUFFICES ASSUME LoopInv, Running, ChangeFlags
             PROVE  LoopInv'
  OBVIOUS
<1>1. PICK fd \in Conns \cap DOMAIN polls, on \in BOOLEAN : ModifyPoll(fd, on)
  BY DEF ChangeFlags
<1>2. results \ DOMAIN polls \subseteq CurlSockets /\ UNCHANGED <<timerVars, clockVars>>
  BY DEF ChangeFlags, LoopInv, ResultsKnown
<1>3. /\ polls' \in [DOMAIN polls -> BOOLEAN] /\ poll_array_dirty' \in BOOLEAN
      /\ poll_array_dirty' \/ (~poll_array_dirty /\ polls' = polls)
  BY <1>1, FlagsChange
<1> QED
  BY <1>2, <1>3, SocketsChange

(* The socket that goes is the one whose result is being handled, or there  *)
(* are no results any more.                                                 *)
LEMMA RemoveClientKeeps == LoopInv /\ Running /\ RemoveClient => LoopInv'
<1> SUFFICES ASSUME LoopInv, Running, RemoveClient
             PROVE  LoopInv'
  OBVIOUS
<1>1. PICK fd \in Conns \cap DOMAIN polls :
        /\ running \in {Socket(fd)} \cup {Timer(id) : id \in 1 .. MaxTimers}
        /\ polls' = [s \in DOMAIN Without(polls, fd) |->
                        s = Listener \/ Without(polls, fd)[s]]
  BY DEF RemoveClient
<1>2. /\ polls \in [DOMAIN polls -> BOOLEAN]
      /\ results \ DOMAIN polls \subseteq CurlSockets
      /\ fd \notin results
  BY <1>1 DEF LoopInv, LoopTypeOK, ResultsKnown, CallbackRuns
<1>3. polls' \in [DOMAIN polls' -> BOOLEAN] /\ DOMAIN polls' = DOMAIN polls \ {fd}
  BY <1>1, <1>2 DEF Without
<1>4. poll_array_dirty' = TRUE /\ UNCHANGED <<timerVars, clockVars>>
  BY DEF RemoveClient
<1> QED
  BY <1>2, <1>3, <1>4, SocketsChange

LEMMA CurlSocketKeeps == LoopInv /\ Running /\ CurlSocket => LoopInv'
<1> SUFFICES ASSUME LoopInv, Running, CurlSocket
             PROVE  LoopInv'
  OBVIOUS
<1>1. /\ polls \in [DOMAIN polls -> BOOLEAN]
      /\ results \ DOMAIN polls \subseteq CurlSockets
      /\ UNCHANGED <<timerVars, clockVars>>
  BY DEF CurlSocket, LoopInv, LoopTypeOK, ResultsKnown
<1>2. ASSUME NEW fd \in CurlSockets, RemovePoll(fd)
      PROVE  LoopInv'
  BY <1>1, <1>2, SocketsChange DEF RemovePoll, Without
<1>3. ASSUME NEW fd \in CurlSockets, AddPoll(fd)
      PROVE  LoopInv'
  BY <1>1, <1>3, SocketsChange DEF AddPoll, With
<1> QED
  BY <1>2, <1>3 DEF CurlSocket

(* A new timer ends no earlier than the clock that the loop remembers.      *)
LEMMA AddTimeoutKeeps == LoopInv /\ Running /\ AddTimeout => LoopInv'
<1> SUFFICES ASSUME LoopInv, Running, AddTimeout
             PROVE  LoopInv'
  OBVIOUS
<1>1. PICK id \in 1 .. MaxTimers, ms \in Delays :
        /\ id \notin Existing
        /\ timers' = With(timers, id, Clock + ms)
        /\ held' = held \cup {id}
  BY DEF AddTimeout
<1>2. /\ ms \in Nat /\ Clock \in Nat /\ clock' = Clock
      /\ Clock =< moment /\ (at # "poll" => moment =< Clock + spent)
      /\ timers \in [DOMAIN timers -> Nat]
      /\ UNCHANGED <<socketVars, to_emit, called, moment, wake, spent>>
  BY TimesAssumption DEF AddTimeout, Clock, Invalid, LoopInv, LoopTypeOK, ClockRecent
<1>3. at \in {"results", "timers"}
  BY DEF Running, LoopInv, CallbackRuns
<1>4. /\ timers' \in [DOMAIN timers' -> Nat]
      /\ DOMAIN timers' = DOMAIN timers \cup {id}
      /\ timers'[id] = Clock + ms
      /\ \A y \in DOMAIN timers : y # id => timers'[y] = timers[y]
  BY <1>1, <1>2 DEF With
<1>5. LoopTypeOK' /\ ClockRecent' /\ InTime'
  BY <1>2, <1>3, <1>4
  DEF Running, arrayVars, socketVars, signalVars, LoopInv, LoopTypeOK, ClockRecent, InTime
<1>6. ListsApart' /\ TimersHeld'
  BY <1>1, <1>2, <1>4
  DEF Running, Existing, LoopInv, ListsApart, TimersHeld
<1>7. ArrayKept' /\ ResultsKnown' /\ CallbackRuns'
  BY <1>2, <1>3
  DEF Running, arrayVars, socketVars, signalVars, LoopInv, ArrayKept, ResultsKnown, CallbackRuns
<1> QED
  BY <1>5, <1>6, <1>7 DEF LoopInv

(* A timer that is removed is forgotten, also if it is about to be called.  *)
LEMMA RemoveTimerKeeps == LoopInv /\ Running /\ RemoveTimer => LoopInv'
<1> SUFFICES ASSUME LoopInv, Running, RemoveTimer
             PROVE  LoopInv'
  OBVIOUS
<1> USE DEF Running, arrayVars, socketVars, clockVars, signalVars
<1>1. PICK id \in held :
        /\ held' = held \ {id}
        /\ IF id \in DOMAIN to_emit
           THEN to_emit' = With(to_emit, id, TRUE) /\ UNCHANGED timers
           ELSE timers' = Without(timers, id) /\ UNCHANGED to_emit
  BY DEF RemoveTimer
<1>2. /\ timers \in [DOMAIN timers -> Nat] /\ to_emit \in [DOMAIN to_emit -> BOOLEAN]
      /\ UNCHANGED <<socketVars, called, clockVars>>
  BY DEF RemoveTimer, LoopInv, LoopTypeOK
<1>3. ArrayKept' /\ ResultsKnown' /\ CallbackRuns' /\ ClockRecent'
  BY <1>2 DEF LoopInv, ArrayKept, ResultsKnown, CallbackRuns, ClockRecent
<1>4. CASE id \in DOMAIN to_emit
  <2>1. /\ timers' = timers /\ to_emit' \in [DOMAIN to_emit' -> BOOLEAN]
        /\ DOMAIN to_emit' = DOMAIN to_emit /\ to_emit'[id]
        /\ \A y \in DOMAIN to_emit : y # id => to_emit'[y] = to_emit[y]
    BY <1>1, <1>2, <1>4 DEF With
  <2>2. LoopTypeOK' /\ InTime'
    BY <1>2, <2>1 DEF LoopInv, LoopTypeOK, InTime
  <2>3. ListsApart' /\ TimersHeld'
    BY <1>1, <1>2, <1>4, <2>1 DEF LoopInv, ListsApart, TimersHeld
  <2> QED
    BY <1>3, <2>2, <2>3 DEF LoopInv
<1>5. CASE id \notin DOMAIN to_emit
  <2>1. /\ to_emit' = to_emit /\ timers' \in [DOMAIN timers' -> Nat]
        /\ DOMAIN timers' = DOMAIN timers \ {id}
        /\ \A y \in DOMAIN timers : y # id => timers'[y] = timers[y]
    BY <1>1, <1>2, <1>5 DEF Without
  <2>2. LoopTypeOK' /\ InTime'
    BY <1>2, <2>1 DEF LoopInv, LoopTypeOK, InTime
  <2>3. ListsApart' /\ TimersHeld'
    BY <1>1, <1>2, <1>5, <2>1 DEF LoopInv, ListsApart, TimersHeld
  <2> QED
    BY <1>3, <2>2, <2>3 DEF LoopInv
<1> QED
  BY <1>4, <1>5

LEMMA CallbackKeeps == LoopInv /\ Callback => LoopInv'
<1>1. Callback => Running
  BY DEF Callback, Running
<1> QED
  BY <1>1, AddTimeoutKeeps, RemoveTimerKeeps, AcceptKeeps, ChangeFlagsKeeps,
     RemoveClientKeeps, CurlSocketKeeps DEF Callback

-----------------------------------------------------------------------------
LEMMA StutterKeeps == LoopInv /\ UNCHANGED loopVars => LoopInv'
  BY DEF loopVars, LoopInv, LoopTypeOK, ListsApart, TimersHeld, ArrayKept, ResultsKnown,
         CallbackRuns, ClockRecent, InTime

LEMMA LoopInvariance == LoopSpec => []LoopInv
<1>1. LoopInv /\ [LoopNext]_loopVars => LoopInv'
  BY PollKeeps, PollReturnsKeeps, ResultForNobodyKeeps, HandleResultKeeps,
     HandleSignalKeeps, CheckTimerSourcesKeeps, EmitTimerKeeps, FreeEmittedKeeps,
     ReturnKeeps, CallbackKeeps, RaiseKeeps, TimeGoesOnKeeps, StutterKeeps
  DEF LoopNext, Loop
<1> QED
  BY LoopBegins, <1>1, PTL DEF LoopSpec

(* The loop runs exactly the timers that somebody still waits for, as late  *)
(* as the callbacks were long and no later; it polls the sources there are; *)
(* and only libcurl can make a result come for nobody.                      *)
THEOREM LoopIsSound == LoopSpec => []LoopSound
<1>1. LoopInv => LoopSound
  <2> SUFFICES ASSUME LoopInv
               PROVE  LoopSound
    OBVIOUS
  <2>1. TimersHeld
    BY DEF LoopInv
  <2>2. ArrayIsFresh
    BY DEF LoopInv, ArrayKept, ArrayIsFresh
  <2>3. NeverLate
    BY DEF LoopInv, InTime, NeverLate
  <2>4. FatalOnlyByCurl
    BY DEF LoopInv, ResultsKnown, FatalOnlyByCurl
  <2> QED
    BY <2>1, <2>2, <2>3, <2>4 DEF LoopSound
<1> QED
  BY LoopInvariance, <1>1, PTL

-----------------------------------------------------------------------------
(* The types of the process                                                 *)

(* The games of the bot, as in BotProofs without what only the games need.  *)
GamesTyped ==
    /\ games \subseteq Games!Game
    /\ timeouts \subseteq Games!Timer
    /\ known \subseteq Users /\ known_file \subseteq Users
    /\ \A g, h \in games : g.address = h.address => g = h

LEMMA TimeoutInRange ==
    ASSUME NEW begun \in BOOLEAN
    PROVE  Games!Timeout(begun) \in 0 .. Games!InGameTimeout
BY GameTimeoutAssumption DEF Games!Timeout, Games!InGameTimeout

(* A game that is changed, or created where there is none, has its type.    *)
LEMMA GameTyped ==
    ASSUME GamesTyped, NEW old, NEW new \in Games!Game,
           \A h \in games \ {old} : h.address # new.address,
           Games!Update(old, new), known' \subseteq Users, known_file' \subseteq Users
    PROVE  GamesTyped'
<1>1. games' = (games \ {old}) \cup {new}
  BY DEF Games!Update
<1>2. timeouts' = Games!OtherTimers(new)
                      \cup {[game |-> new.address, left |-> Games!Timeout(new.started)]}
  BY DEF Games!Update, Games!SetGameTimeout
<1>3. new.address \in Addresses /\ new.started \in BOOLEAN
  BY DEF Games!Game
<1>4. [game |-> new.address, left |-> Games!Timeout(new.started)] \in Games!Timer
  BY <1>3, TimeoutInRange DEF Games!Timer
<1>5. timeouts' \subseteq Games!Timer
  BY <1>2, <1>4 DEF GamesTyped, Games!OtherTimers
<1>6. games' \subseteq Games!Game
  BY <1>1 DEF GamesTyped
<1>7. \A g, h \in games' : g.address = h.address => g = h
  BY <1>1 DEF GamesTyped
<1> QED
  BY <1>5, <1>6, <1>7 DEF GamesTyped

LEMMA GameRemovedTyped ==
    ASSUME GamesTyped, NEW g, Games!RemoveGame(g),
           known' \subseteq Users, known_file' \subseteq Users
    PROVE  GamesTyped'
BY DEF GamesTyped, Games!RemoveGame, Games!OtherTimers

LEMMA GameStartedTyped ==
    ASSUME GamesTyped, NEW g \in games, Games!StartGame(g),
           known' \subseteq Users, known_file' \subseteq Users
    PROVE  GamesTyped'
<1>1. PICK new : new = [g EXCEPT !.started = TRUE]
  OBVIOUS
<1>2. new \in Games!Game /\ new.address = g.address
  BY <1>1 DEF GamesTyped, Games!Game
<1>3. \A h \in games \ {g} : h.address # new.address
  BY <1>2 DEF GamesTyped
<1>4. Games!Update(g, new)
  BY <1>1 DEF Games!StartGame
<1> QED
  BY <1>2, <1>3, <1>4, GameTyped

LEMMA GamePlayedTyped ==
    ASSUME GamesTyped, NEW g \in games, Games!Play(g),
           known' \subseteq Users, known_file' \subseteq Users
    PROVE  GamesTyped'
<1>1. g \in Games!Game /\ \A h \in games \ {g} : h.address # g.address
  BY DEF GamesTyped
<1>2. CASE Games!Update(g, g)
  BY <1>1, <1>2, GameTyped
<1>3. CASE Games!RemoveGame(g)
  BY <1>3, GameRemovedTyped
<1> QED
  BY <1>2, <1>3 DEF Games!Play

LEMMA JoinedIsGame ==
    ASSUME NEW g \in Games!Game, NEW u \in Users
    PROVE  Games!Joined(g, u) \in Games!Game /\ Games!Joined(g, u).address = g.address
<1>1. PICK players : players = Append(g.players, u)
  OBVIOUS
<1>2. players \in Seq(Users)
  BY <1>1 DEF Games!Game
<1>3. PICK new : new = [g EXCEPT !.players = players]
  OBVIOUS
<1>4. new \in Games!Game /\ new.address = g.address
  BY <1>2, <1>3 DEF Games!Game
<1>5. Games!Joined(g, u) = [new EXCEPT !.started = Games!Full(new)]
  BY <1>1, <1>3 DEF Games!Joined
<1>6. Games!Full(new) \in BOOLEAN
  BY DEF Games!Full
<1> QED
  BY <1>4, <1>5, <1>6 DEF Games!Game

LEMMA GameCreatedTyped ==
    ASSUME GamesTyped, NEW u \in Users, NEW chat, NEW t \in Types,
           Games!CreateGame(u, chat, t),
           known' \subseteq Users, known_file' \subseteq Users
    PROVE  GamesTyped'
<1>1. PICK address \in Addresses :
          /\ \A g \in games : g.address # address
          /\ LET g == [address |-> address, chat |-> chat, type |-> t,
                       players |-> << >>, started |-> FALSE]
             IN  Games!Update(g, Games!Joined(g, u))
  BY DEF Games!CreateGame
<1>2. PICK g : g = [address |-> address, chat |-> chat, type |-> t,
                    players |-> << >>, started |-> FALSE]
  OBVIOUS
<1>3. g \in Games!Game /\ g.address = address
  BY <1>1, <1>2 DEF Games!CreateGame, Games!Game
<1>4. PICK new : new = Games!Joined(g, u)
  OBVIOUS
<1>5. new \in Games!Game /\ new.address = address
  BY <1>3, <1>4, JoinedIsGame
<1>6. Games!Update(g, new)
  BY <1>1, <1>2, <1>4
<1> QED
  BY <1>1, <1>5, <1>6, GameTyped

LEMMA MessageTyped ==
    ASSUME GamesTyped, NEW u \in Users, NEW chat, Games!Message(u, chat)
    PROVE  GamesTyped'
<1>1. known' \subseteq Users /\ known_file' \subseteq Users
  BY DEF Games!Message, Games!Greet, GamesTyped
<1>2. CASE \E t \in Types : Games!CreateGame(u, chat, t)
  BY <1>1, <1>2, GameCreatedTyped
<1>3. CASE Games!Join(u, chat)
  <2>1. PICK g \in games : Games!Update(g, Games!Joined(g, u))
    BY <1>3 DEF Games!Join
  <2>2. PICK new : new = Games!Joined(g, u)
    OBVIOUS
  <2>3. g \in Games!Game
    BY <2>1 DEF GamesTyped
  <2>4. new \in Games!Game /\ new.address = g.address
    BY <2>2, <2>3, JoinedIsGame
  <2>5. \A h \in games \ {g} : h.address # new.address
    BY <2>1, <2>4 DEF GamesTyped
  <2> QED
    BY <1>1, <2>1, <2>2, <2>4, <2>5, GameTyped
<1>4. CASE Games!Start(u, chat)
  BY <1>1, <1>4, GameStartedTyped DEF Games!Start
<1>5. CASE Games!Cancel(u, chat)
  BY <1>1, <1>5, GameRemovedTyped DEF Games!Cancel
<1>6. CASE Games!GameMessage(u, chat)
  BY <1>1, <1>6, GamePlayedTyped DEF Games!GameMessage
<1>7. CASE UNCHANGED <<games, timeouts>>
  BY <1>1, <1>7 DEF GamesTyped
<1> QED
  BY <1>2, <1>3, <1>4, <1>5, <1>6, <1>7 DEF Games!Message

LEMMA GamesTypedKeeps == GamesTyped /\ BotNext => GamesTyped'
<1> SUFFICES ASSUME GamesTyped, BotNext
             PROVE  GamesTyped'
  OBVIOUS
<1>1. CASE Polling /\ UNCHANGED gameVars
  BY <1>1 DEF gameVars, GamesTyped
<1>2. CASE Process
  <2>1. ASSUME NEW u \in Users, NEW chat, Games!CreateCallback(u, chat)
        PROVE  GamesTyped'
    BY <2>1, GameCreatedTyped DEF Games!CreateCallback, GamesTyped
  <2>2. ASSUME NEW u \in Users, Games!GameCallback(u)
        PROVE  GamesTyped'
    BY <2>2, GamePlayedTyped DEF Games!GameCallback, GamesTyped
  <2> QED
    BY <1>2, <2>1, <2>2, MessageTyped DEF Process
<1>3. CASE Timers
  <2>1. CASE Games!TimedOut
    <3>1. PICK t : Games!GameTimesOut(t)
      BY <2>1 DEF Games!TimedOut
    <3>2. known' \subseteq Users /\ known_file' \subseteq Users
      BY <3>1 DEF Games!GameTimesOut, GamesTyped
    <3> QED
      BY <3>1, <3>2, GameStartedTyped, GameRemovedTyped DEF Games!GameTimesOut
  <2>2. CASE Games!GameOver
    BY <2>2, GameRemovedTyped DEF Games!GameOver, GamesTyped
  <2>3. CASE Games!Tick
    <3>1. \A t \in timeouts : [t EXCEPT !.left = @ - 1] \in Games!Timer
      BY <2>3, GameTimeoutAssumption
      DEF Games!Tick, GamesTyped, Games!Timer, Games!InGameTimeout
    <3> QED
      BY <2>3, <3>1 DEF Games!Tick, GamesTyped
  <2> QED
    BY <1>3, <2>1, <2>2, <2>3 DEF Timers
<1>4. CASE Die
  <2>1. ASSUME NEW ids, ids \subseteq Users, Games!RestartWith(ids)
        PROVE  GamesTyped'
    BY <2>1 DEF Games!RestartWith, GamesTyped
  <2>2. CASE Games!Restart
    BY <2>1, <2>2 DEF Games!Restart, GamesTyped
  <2>3. CASE \E u \in Users : Games!CrashInSave(u)
    BY <2>1, <2>3 DEF Games!CrashInSave, Games!Renamed, GamesTyped
  <2> QED
    BY <1>4, <2>2, <2>3 DEF Die
<1> QED
  BY <1>1, <1>2, <1>3, <1>4 DEF BotNext

(* What was processed is what was sent, and no bound is exceeded.           *)
ProcessedWasSent ==
    /\ handled \in Seq(Nat \ {0}) /\ ever \subseteq 1 .. Len(content)
    /\ failures \in 0 .. MaxFailures /\ crashes \in 0 .. MaxCrashes

LEMMA RepliesWereSent ==
    ASSUME UpdatesInv
    PROVE  \A i \in DOMAIN reply : reply[i].number =< Len(content)
<1> SUFFICES ASSUME NEW i \in DOMAIN reply
             PROVE  reply[i].number =< Len(content)
  OBVIOUS
<1>1. reply \in Seq(Update) /\ pending \in Seq(Update)
  BY DEF UpdatesInv, UpdatesTypeOK
<1>2. i \in 1 .. Len(reply) /\ Len(reply) \in Nat /\ reply # << >>
  BY <1>1
<1>3. PICK k \in 0 .. Len(pending) : ReplyFrom(k)
  BY <1>2 DEF UpdatesInv, ReplyFollows
<1>4. reply[i] = pending[k + i] /\ k + Len(reply) =< Len(pending)
  BY <1>2, <1>3 DEF ReplyFrom
<1>5. k + i \in 1 .. Len(pending)
  BY <1>1, <1>2, <1>3, <1>4
<1> QED
  BY <1>4, <1>5 DEF UpdatesInv, UpdatesTypeOK

LEMMA ProcessedWasSentKeeps ==
    UpdatesInv /\ ProcessedWasSent /\ BotNext => ProcessedWasSent'
<1> SUFFICES ASSUME UpdatesInv, ProcessedWasSent, BotNext
             PROVE  ProcessedWasSent'
  OBVIOUS
<1>1. content \in Seq(Contents) /\ Len(content) \in Nat
  BY DEF UpdatesInv, UpdatesTypeOK
<1>2. CASE Send
  <2>1. PICK c \in Contents : content' = Append(content, c)
    BY <1>2 DEF Send
  <2>2. Len(content') = Len(content) + 1
    BY <1>1, <2>1
  <2>3. UNCHANGED <<handled, ever, failures, crashes>>
    BY <1>2 DEF Send, history, bounds
  <2> QED
    BY <1>1, <2>2, <2>3 DEF ProcessedWasSent
<1>3. CASE Confirm \/ Answer \/ ReplyArrives \/ FinishUpdates \/ RestartUpdates
  BY <1>3 DEF Confirm, Answer, ReplyArrives, FinishUpdates, RestartUpdates, service, history,
     bounds, ProcessedWasSent
<1>4. CASE Fail
  BY <1>4, FailuresAssumption DEF Fail, service, history, ProcessedWasSent
<1>5. CASE Process
  <2>1. Head(reply).number \in Nat \ {0} /\ Head(reply).number =< Len(content)
    <3>1. reply \in Seq(Update) /\ reply # << >>
      BY <1>5 DEF Process, ProcessUpdate, UpdatesInv, UpdatesTypeOK
    <3>2. 1 \in DOMAIN reply /\ Head(reply) = reply[1] /\ reply[1] \in Update
      BY <3>1
    <3> QED
      BY <3>2, RepliesWereSent DEF Update
  <2>2. PICK n \in 1 .. Len(content) : n = Head(reply).number
    BY <1>1, <2>1
  <2>3. handled' = Append(handled, n) /\ ever' = ever \cup {n} /\ content' = content
    BY <1>5, <2>2 DEF Process, ProcessUpdate, service
  <2>4. failures' = failures /\ crashes' = crashes
    BY <1>5 DEF Process, ProcessUpdate, bounds
  <2>5. n \in Nat \ {0}
    BY <1>1
  <2>6. handled' \in Seq(Nat \ {0})
    BY <2>3, <2>5 DEF ProcessedWasSent
  <2>7. ever' \subseteq 1 .. Len(content')
    BY <2>3 DEF ProcessedWasSent
  <2> QED
    BY <2>4, <2>6, <2>7 DEF ProcessedWasSent
<1>6. CASE Timers
  BY <1>6 DEF Timers, updateVars, service, history, bounds, ProcessedWasSent
<1>7. CASE Die
  <2>1. handled' = << >> /\ UNCHANGED <<content, ever, failures>>
    BY <1>7 DEF Die, Crash, service
  <2>2. crashes' \in 0 .. MaxCrashes
    BY <1>7, FailuresAssumption DEF Die, Crash, ProcessedWasSent
  <2>3. << >> \in Seq(Nat \ {0})
    OBVIOUS
  <2> QED
    BY <2>1, <2>2, <2>3 DEF ProcessedWasSent
<1> QED
  BY <1>2, <1>3, <1>4, <1>5, <1>6, <1>7 DEF BotNext, Polling

BotTypeInv == UpdatesInv /\ GamesTyped /\ ProcessedWasSent

LEMMA BotTypesHold == BotSpec => []BotTypeInv
<1>1. BotInit => GamesTyped
  BY DEF BotInit, Games!Init, GamesTyped
<1>2. BotInit => ProcessedWasSent
  <2>1. << >> \in Seq(Nat \ {0}) /\ Len(<< >>) = 0
    OBVIOUS
  <2> QED
    BY <2>1, FailuresAssumption DEF BotInit, UpdatesInit, ProcessedWasSent
<1>3. GamesTyped /\ ProcessedWasSent /\ UNCHANGED botVars
          => GamesTyped' /\ ProcessedWasSent'
  BY DEF botVars, gameVars, updateVars, service, history, bounds, GamesTyped, ProcessedWasSent
<1>4. BotTypeInv /\ [BotNext]_botVars => BotTypeInv'
  BY <1>3, UpdatesStep, UpdatesStutter, GamesTypedKeeps, ProcessedWasSentKeeps DEF BotTypeInv
<1>5. BotInit => BotTypeInv
  BY <1>1, <1>2, UpdatesBegin DEF BotTypeInv
<1> QED
  BY <1>4, <1>5, PTL DEF BotSpec

LEMMA BotTypes == BotTypeInv => BotTypeOK
<1> SUFFICES ASSUME BotTypeInv
             PROVE  BotTypeOK
  OBVIOUS
<1>1. UpdatesInv /\ GamesTyped /\ ProcessedWasSent
  BY DEF BotTypeInv
<1>2. Games!TypeOK
  BY <1>1 DEF GamesTyped, Games!TypeOK
<1>3. \A i \in DOMAIN reply : reply[i].number =< Len(content)
  BY <1>1, RepliesWereSent
<1>4. pending \in Seq(Update) /\ \A i \in 1 .. Len(pending) : pending[i].number =< Len(content)
  BY <1>1 DEF UpdatesInv, UpdatesTypeOK
<1>5. \A i \in DOMAIN pending : pending[i].number =< Len(content)
  BY <1>4
<1> QED
  BY <1>1, <1>2, <1>3, <1>5 DEF BotTypeOK, UpdatesInv, UpdatesTypeOK, ProcessedWasSent

-----------------------------------------------------------------------------
(* The sockets of the web server                                            *)
(*                                                                          *)
(* What OpenSSL is told to try again is what it could not do, since nothing *)
(* is added to the write buffer in between: a socket with a write under way *)
(* is never found ready for writing alone, because it was polled for what   *)
(* the read or the write waits for, and those are looked at first.          *)

(* What a connection waits for before it reads or writes again.             *)
Awaited == {{}, {POLL_IN}, {POLL_OUT}}

TlsState ==
    [ssl_read_block : Awaited, ssl_write_block : Awaited, ssl_write_block_size : Nat,
     write_buf_pos : Nat, unsaid : Nat, said : Nat, flags : SUBSET {POLL_IN, POLL_OUT},
     polled : SUBSET {POLL_IN, POLL_OUT}, again : Nat, refused : BOOLEAN,
     closed : BOOLEAN]

(* A write is under way, or none is.                                        *)
WriteKept(c) ==
    /\ c \in TlsState
    /\ ~c.refused
    /\ c.write_buf_pos =< WriteBuf
    /\ c.again =< c.write_buf_pos
    /\ c.again > 0 <=> c.ssl_write_block # {}
    /\ c.again > 0 => c.ssl_write_block_size = c.again

(* The flags are those of update_poll_flags, and what was polled is among   *)
(* them: so a socket with a write under way is never found ready for        *)
(* anything else than what the read or the write waits for, or for reading. *)
FlagsKept(c) ==
    ~c.closed => /\ c.polled \subseteq c.flags
                 /\ c.flags = UpdatePollFlags(c).flags

SocketKept(c) == WriteKept(c) /\ FlagsKept(c)

LEMMA Settled ==
    ASSUME NEW c, WriteKept(c), c.polled \subseteq UpdatePollFlags(c).flags
    PROVE  SocketKept(UpdatePollFlags(c))
<1>1. PICK flags \in SUBSET {POLL_IN, POLL_OUT} :
          UpdatePollFlags(c) = [c EXCEPT !.flags = flags]
  BY DEF UpdatePollFlags, WriteKept, TlsState, Awaited
<1>2. PICK d : d = [c EXCEPT !.flags = flags]
  OBVIOUS
<1>3. /\ d \in TlsState /\ d.flags = flags /\ d.polled = c.polled /\ d.refused = c.refused
      /\ d.again = c.again /\ d.write_buf_pos = c.write_buf_pos /\ d.unsaid = c.unsaid
      /\ d.ssl_read_block = c.ssl_read_block /\ d.ssl_write_block = c.ssl_write_block
      /\ d.ssl_write_block_size = c.ssl_write_block_size
  BY <1>1, <1>2 DEF WriteKept, TlsState
<1>4. WriteKept(d)
  BY <1>3 DEF WriteKept
<1>5. UpdatePollFlags(d).flags = flags
  <2>1. UpdatePollFlags(c).flags = flags
    BY <1>1 DEF WriteKept, TlsState
  <2>2. UpdatePollFlags(c).flags =
            (IF c.ssl_read_block # {} THEN c.ssl_read_block ELSE {POLL_IN})
            \cup (IF c.ssl_write_block # {} THEN c.ssl_write_block
                  ELSE IF Ready(c) THEN {POLL_OUT} ELSE {})
    BY DEF UpdatePollFlags, WriteKept, TlsState
  <2>3. UpdatePollFlags(d).flags =
            (IF d.ssl_read_block # {} THEN d.ssl_read_block ELSE {POLL_IN})
            \cup (IF d.ssl_write_block # {} THEN d.ssl_write_block
                  ELSE IF Ready(d) THEN {POLL_OUT} ELSE {})
    BY <1>3 DEF UpdatePollFlags, TlsState
  <2>4. Ready(d) <=> Ready(c)
    BY <1>3 DEF Ready
  <2> QED
    BY <1>3, <2>1, <2>2, <2>3, <2>4
<1>6. d.polled \subseteq d.flags
  BY <1>1, <1>3 DEF WriteKept, TlsState
<1>7. FlagsKept(d)
  BY <1>3, <1>5, <1>6 DEF FlagsKept
<1> QED
  BY <1>1, <1>2, <1>4, <1>7 DEF SocketKept

LEMMA Unpolled ==
    ASSUME NEW c, WriteKept(c), c.polled = {}
    PROVE  SocketKept(UpdatePollFlags(c))
BY Settled

LEMMA ClosedKept ==
    ASSUME NEW c, WriteKept(c)
    PROVE  SocketKept([c EXCEPT !.closed = TRUE])
<1>1. PICK d : d = [c EXCEPT !.closed = TRUE]
  OBVIOUS
<1>2. WriteKept(d) /\ d.closed
  BY <1>1 DEF WriteKept, TlsState
<1> QED
  BY <1>1, <1>2 DEF SocketKept, FlagsKept

LEMMA SslReadKept ==
    ASSUME NEW c, WriteKept(c), c.polled = {}, NEW d \in DoSslRead(c)
    PROVE  SocketKept(d)
<1>1. CASE d = [c EXCEPT !.closed = TRUE]
  BY <1>1, ClosedKept
<1>2. ASSUME NEW n \in 0 .. 1, d = UpdatePollFlags([c EXCEPT !.ssl_read_block = {},
                                         !.unsaid = @ + n, !.said = @ + n])
      PROVE  SocketKept(d)
  <2>1. PICK e : e = [c EXCEPT !.ssl_read_block = {}, !.unsaid = @ + n, !.said = @ + n]
    OBVIOUS
  <2>2. WriteKept(e) /\ e.polled = {}
    <3>1. e \in TlsState /\ e.polled = {}
      <4>1. PICK more \in Nat, all \in Nat : more = c.unsaid + n /\ all = c.said + n
        BY DEF WriteKept, TlsState
      <4>2. e = [c EXCEPT !.ssl_read_block = {}, !.unsaid = more, !.said = all]
        BY <2>1, <4>1
      <4> QED
        BY <4>1, <4>2 DEF WriteKept, TlsState, Awaited
    <3>2. /\ e.refused = c.refused /\ e.write_buf_pos = c.write_buf_pos
          /\ e.again = c.again /\ e.ssl_write_block = c.ssl_write_block
          /\ e.ssl_write_block_size = c.ssl_write_block_size
      BY <2>1 DEF WriteKept, TlsState
    <3> QED
      BY <3>1, <3>2 DEF WriteKept
  <2> QED
    BY <1>2, <2>1, <2>2, Unpolled
<1>3. ASSUME NEW flag \in {POLL_IN, POLL_OUT},
             d = UpdatePollFlags([c EXCEPT !.ssl_read_block = {flag}])
      PROVE  SocketKept(d)
  <2>1. PICK e : e = [c EXCEPT !.ssl_read_block = {flag}]
    OBVIOUS
  <2>2. WriteKept(e) /\ e.polled = {}
    <3>1. e \in TlsState /\ e.polled = {}
      BY <2>1 DEF WriteKept, TlsState, Awaited
    <3>2. /\ e.refused = c.refused /\ e.write_buf_pos = c.write_buf_pos
          /\ e.again = c.again /\ e.ssl_write_block = c.ssl_write_block
          /\ e.ssl_write_block_size = c.ssl_write_block_size
      BY <2>1 DEF WriteKept, TlsState
    <3> QED
      BY <3>1, <3>2 DEF WriteKept
  <2> QED
    BY <1>3, <2>1, <2>2, Unpolled
<1> QED
  BY <1>1, <1>2, <1>3 DEF DoSslRead

(* All of a write is done, or it must be tried again with the same size.    *)
LEMMA SslWriteKept ==
    ASSUME NEW c, WriteKept(c), c.polled = {}, NEW size \in Nat, size > 0,
           size =< c.write_buf_pos, c.again \in {0, size}, NEW d \in DoSslWrite(c, size)
    PROVE  SocketKept(d)
<1>1. CASE d = [c EXCEPT !.closed = TRUE]
  BY <1>1, ClosedKept
<1>2. (c.refused \/ c.again \notin {0, size}) = FALSE
  BY DEF WriteKept, TlsState
<1>3. CASE d = UpdatePollFlags([c EXCEPT !.write_buf_pos = @ - size, !.ssl_write_block = {},
                   !.again = 0, !.refused = @ \/ c.again \notin {0, size}])
  <2>1. PICK e : e = [c EXCEPT !.write_buf_pos = @ - size, !.ssl_write_block = {},
                               !.again = 0, !.refused = FALSE]
    OBVIOUS
  <2>2. WriteKept(e) /\ e.polled = {}
    <3>1. PICK left \in Nat : left = c.write_buf_pos - size
      BY DEF WriteKept, TlsState
    <3>2. left =< WriteBuf
      BY <3>1, WriteBufAssumption DEF WriteKept, TlsState
    <3>3. e \in TlsState /\ e.polled = {}
      BY <2>1, <3>1 DEF WriteKept, TlsState, Awaited
    <3>4. ~e.refused /\ e.again = 0 /\ e.write_buf_pos = left /\ e.ssl_write_block = {}
      BY <2>1, <3>1 DEF WriteKept, TlsState
    <3> QED
      BY <3>1, <3>2, <3>3, <3>4 DEF WriteKept
  <2>3. d = UpdatePollFlags(e)
    BY <1>2, <1>3, <2>1
  <2> QED
    BY <2>2, <2>3, Unpolled
<1>4. ASSUME NEW flag \in {POLL_IN, POLL_OUT},
             d = UpdatePollFlags([c EXCEPT !.ssl_write_block = {flag},
                     !.ssl_write_block_size = size, !.again = size,
                     !.refused = @ \/ c.again \notin {0, size}])
      PROVE  SocketKept(d)
  <2>1. PICK e : e = [c EXCEPT !.ssl_write_block = {flag}, !.ssl_write_block_size = size,
                               !.again = size, !.refused = FALSE]
    OBVIOUS
  <2>2. WriteKept(e) /\ e.polled = {}
    BY <2>1 DEF WriteKept, TlsState, Awaited
  <2>3. d = UpdatePollFlags(e)
    BY <1>2, <1>4, <2>1
  <2> QED
    BY <2>2, <2>3, Unpolled
<1> QED
  BY <1>1, <1>3, <1>4 DEF DoSslWrite

LEMMA HandleWriteKept ==
    ASSUME NEW c, WriteKept(c), c.polled = {}, c.again = 0,
           NEW d \in HandleWrite(c)
    PROVE  SocketKept(d)
<1>1. PICK n \in Nat, left \in Nat :
        n = (IF c.unsaid < WriteBuf - c.write_buf_pos THEN c.unsaid
             ELSE WriteBuf - c.write_buf_pos) /\ left = c.unsaid - n
  BY WriteBufAssumption DEF WriteKept, TlsState
<1>2. PICK e \in {[c EXCEPT !.write_buf_pos = @ + n, !.unsaid = @ - n],
                  [c EXCEPT !.unsaid = 0]} :
        d \in IF e.write_buf_pos = 0 THEN {UpdatePollFlags(e)}
              ELSE DoSslWrite(e, e.write_buf_pos)
  BY <1>1 DEF HandleWrite
<1>3. WriteKept(e) /\ e.polled = {} /\ e.again = 0 /\ e.write_buf_pos \in Nat
  <2>1. CASE e = [c EXCEPT !.unsaid = 0]
    BY <2>1 DEF WriteKept, TlsState
  <2>2. CASE e = [c EXCEPT !.write_buf_pos = @ + n, !.unsaid = @ - n]
    <3>1. PICK all \in Nat : all = c.write_buf_pos + n
      BY DEF WriteKept, TlsState
    <3>2. all =< WriteBuf
      BY <1>1, <3>1, WriteBufAssumption DEF WriteKept, TlsState
    <3>3. e = [c EXCEPT !.write_buf_pos = all, !.unsaid = left]
      BY <1>1, <2>2, <3>1
    <3>4. /\ e \in TlsState /\ e.polled = {} /\ e.again = 0 /\ e.write_buf_pos = all
          /\ e.refused = c.refused /\ e.ssl_write_block = c.ssl_write_block
      BY <3>1, <3>3 DEF WriteKept, TlsState
    <3> QED
      BY <3>1, <3>2, <3>4 DEF WriteKept
  <2> QED
    BY <1>2, <2>1, <2>2
<1> QED
  BY <1>2, <1>3, Unpolled, SslWriteKept DEF WriteKept

LEMMA SocketBegins == TlsInit => SocketKept(conn)
<1> SUFFICES ASSUME TlsInit
             PROVE  SocketKept(conn)
  OBVIOUS
<1>1. WriteKept(conn)
  BY WriteBufAssumption DEF TlsInit, WriteKept, TlsState, Awaited
<1>2. FlagsKept(conn)
  BY DEF TlsInit, FlagsKept, UpdatePollFlags, Ready
<1> QED
  BY <1>1, <1>2 DEF SocketKept

(* The flags that update_poll_flags gives.                                  *)
LEMMA FlagsOf ==
    ASSUME NEW c \in TlsState
    PROVE  UpdatePollFlags(c).flags =
               (IF c.ssl_read_block # {} THEN c.ssl_read_block ELSE {POLL_IN})
               \cup (IF c.ssl_write_block # {} THEN c.ssl_write_block
                     ELSE IF Ready(c) THEN {POLL_OUT} ELSE {})
BY DEF UpdatePollFlags, TlsState

LEMMA SocketGoesOn == SocketKept(conn) /\ [TlsNext]_conn => SocketKept(conn')
<1> SUFFICES ASSUME SocketKept(conn), [TlsNext]_conn
             PROVE  SocketKept(conn')
  OBVIOUS
<1>1. WriteKept(conn) /\ FlagsKept(conn) /\ conn \in TlsState
  BY DEF SocketKept, WriteKept
<1>2. CASE PollSocket
  <2>1. conn' = [conn EXCEPT !.polled = conn.flags] /\ ~conn.closed
    BY <1>2 DEF PollSocket
  <2>2. PICK d : d = conn'
    OBVIOUS
  <2>3. d \in TlsState /\ d.polled = conn.flags /\ d.flags = conn.flags
    BY <1>1, <2>1, <2>2 DEF TlsState
  <2>4. WriteKept(d)
    BY <1>1, <2>1, <2>2, <2>3 DEF WriteKept, TlsState
  <2>5. UpdatePollFlags(d).flags = UpdatePollFlags(conn).flags
    BY <1>1, <2>1, <2>2, <2>3, FlagsOf DEF TlsState, Ready
  <2> QED
    BY <1>1, <2>1, <2>2, <2>3, <2>4, <2>5 DEF SocketKept, FlagsKept
<1>3. CASE MoreSaid
  <2>1. PICK c : c = [conn EXCEPT !.unsaid = @ + 1, !.said = @ + 1]
    OBVIOUS
  <2>2. conn' = UpdatePollFlags(c) /\ ~conn.closed
    BY <1>3, <2>1 DEF MoreSaid
  <2>3. WriteKept(c) /\ c \in TlsState /\ c.polled = conn.polled
    <3>1. c \in TlsState /\ c.polled = conn.polled
      <4>1. PICK m \in Nat, n \in Nat : m = conn.unsaid + 1 /\ n = conn.said + 1
        BY <1>1 DEF TlsState
      <4>2. c = [conn EXCEPT !.unsaid = m, !.said = n]
        BY <2>1, <4>1
      <4> QED
        BY <1>1, <4>1, <4>2 DEF TlsState
    <3>2. /\ c.refused = conn.refused /\ c.write_buf_pos = conn.write_buf_pos
          /\ c.again = conn.again /\ c.ssl_write_block = conn.ssl_write_block
          /\ c.ssl_write_block_size = conn.ssl_write_block_size
      BY <1>1, <2>1 DEF TlsState
    <3> QED
      BY <1>1, <3>1, <3>2 DEF WriteKept
  <2>4. UpdatePollFlags(conn).flags \subseteq UpdatePollFlags(c).flags
    <3>1. Ready(conn) => Ready(c)
      BY <1>1, <2>1 DEF Ready, TlsState
    <3>2. /\ c.ssl_read_block = conn.ssl_read_block
          /\ c.ssl_write_block = conn.ssl_write_block
      BY <1>1, <2>1 DEF TlsState
    <3> QED
      BY <1>1, <2>3, <3>1, <3>2, FlagsOf
  <2> QED
    BY <1>1, <2>2, <2>3, <2>4, Settled DEF FlagsKept
<1>4. CASE ConnectionPollCb
  <2>1. PICK c : c = [conn EXCEPT !.polled = {}]
    OBVIOUS
  <2>2. PICK flags \in (SUBSET conn.polled) \ {{}} :
            conn' \in IF c.ssl_read_block # {} /\ c.ssl_read_block \subseteq flags
                        THEN DoSslRead(c)
                        ELSE IF c.ssl_write_block # {} /\ c.ssl_write_block \subseteq flags
                        THEN DoSslWrite(c, c.ssl_write_block_size)
                        ELSE IF POLL_IN \in flags THEN DoSslRead(c)
                        ELSE HandleWrite(c)
    BY <1>4, <2>1 DEF ConnectionPollCb
  <2>3. /\ WriteKept(c) /\ c.polled = {}
        /\ c.ssl_read_block = conn.ssl_read_block
        /\ c.ssl_write_block = conn.ssl_write_block
        /\ c.again = conn.again
    BY <1>1, <2>1 DEF WriteKept, TlsState
  <2>4. CASE conn' \in DoSslRead(c)
    BY <2>3, <2>4, SslReadKept
  <2>5. CASE c.ssl_write_block # {} /\ conn' \in DoSslWrite(c, c.ssl_write_block_size)
    <3>1. /\ c.ssl_write_block_size = c.again /\ c.again > 0
          /\ c.again \in Nat /\ c.again =< c.write_buf_pos
      BY <2>3, <2>5 DEF WriteKept, TlsState
    <3> QED
      BY <2>3, <2>5, <3>1, SslWriteKept
  <2>6. CASE /\ ~(c.ssl_read_block # {} /\ c.ssl_read_block \subseteq flags)
             /\ ~(c.ssl_write_block # {} /\ c.ssl_write_block \subseteq flags)
             /\ POLL_IN \notin flags /\ conn' \in HandleWrite(c)
    <3>1. flags = {POLL_OUT}
      <4>1. conn.polled \subseteq {POLL_IN, POLL_OUT}
        BY <1>1 DEF TlsState
      <4> QED
        BY <2>2, <2>6, <4>1
    <3>2. POLL_OUT \in UpdatePollFlags(conn).flags
      BY <1>1, <1>4, <2>2, <3>1 DEF FlagsKept, ConnectionPollCb
    <3>3. /\ conn.ssl_read_block \in Awaited /\ conn.ssl_write_block \in Awaited
          /\ POLL_IN # POLL_OUT
      BY <1>1 DEF TlsState, POLL_IN, POLL_OUT
    <3>4. conn.ssl_write_block = {}
      BY <1>1, <2>3, <2>6, <3>1, <3>2, <3>3, FlagsOf DEF Awaited
    <3>5. c.again = 0
      BY <2>3, <3>4 DEF WriteKept, TlsState
    <3> QED
      BY <2>3, <2>6, <3>5, HandleWriteKept
  <2> QED
    BY <2>2, <2>4, <2>5, <2>6
<1>5. CASE UNCHANGED conn
  BY <1>5
<1> QED
  BY <1>2, <1>3, <1>4, <1>5 DEF TlsNext

(* A write that OpenSSL could not do is tried again with its size, and the  *)
(* socket is polled for what a read or a write waits for                    *)
(* (connection_poll_cb of pcx-connection.c), whatever the size of its       *)
(* write buffer and however much the conversation says.                     *)
THEOREM WritesAreTriedAgain == TlsSpec => []RetriesAreTheSame
<1> DEFINE SocketOk == SocketKept(conn)
<1>1. SocketOk => RetriesAreTheSame
  <2> SUFFICES ASSUME SocketKept(conn)
               PROVE  RetriesAreTheSame
    OBVIOUS
  <2>1. WriteKept(conn) /\ FlagsKept(conn) /\ conn \in TlsState
    BY DEF SocketKept, WriteKept
  <2>2. ~conn.closed => conn.ssl_read_block \cup conn.ssl_write_block
                              \subseteq conn.flags
    BY <2>1, FlagsOf DEF FlagsKept
  <2> QED
    BY <2>1, <2>2 DEF WriteKept, TlsState, RetriesAreTheSame
<1>2. TlsInit => SocketOk
  BY SocketBegins
<1>3. SocketOk /\ [TlsNext]_conn => SocketOk'
  BY SocketGoesOn
<1> HIDE DEF SocketOk
<1> QED
  BY <1>1, <1>2, <1>3, PTL DEF TlsSpec

-----------------------------------------------------------------------------
(* All together: a step of the process is one of a part of it, and the      *)
(* others stay as they are.                                                 *)
LEMMA PartsGoOn ==
    [ProcessNext]_processVars =>
        /\ [Next]_vars /\ [LogNext]_logVars /\ [BotNext]_botVars /\ [LoopNext]_loopVars
        /\ [TlsNext]_conn
<1> SUFFICES ASSUME [ProcessNext]_processVars
             PROVE  /\ [Next]_vars /\ [LogNext]_logVars /\ [BotNext]_botVars
                    /\ [LoopNext]_loopVars /\ [TlsNext]_conn
  OBVIOUS
<1>1. CASE UNCHANGED processVars
  <2>1. /\ UNCHANGED vars /\ UNCHANGED logVars /\ UNCHANGED botVars /\ UNCHANGED loopVars
        /\ UNCHANGED conn
    BY <1>1 DEF processVars
  <2> QED
    BY <2>1
<1>2. CASE ProcessNext
  <2>1. \/ /\ Next
           /\ UNCHANGED logVars /\ UNCHANGED botVars /\ UNCHANGED loopVars /\ UNCHANGED conn
        \/ /\ LogNext
           /\ UNCHANGED vars /\ UNCHANGED botVars /\ UNCHANGED loopVars /\ UNCHANGED conn
        \/ /\ BotNext
           /\ UNCHANGED vars /\ UNCHANGED logVars /\ UNCHANGED loopVars /\ UNCHANGED conn
        \/ /\ LoopNext
           /\ UNCHANGED vars /\ UNCHANGED logVars /\ UNCHANGED botVars /\ UNCHANGED conn
        \/ /\ TlsNext
           /\ UNCHANGED vars /\ UNCHANGED logVars /\ UNCHANGED botVars /\ UNCHANGED loopVars
    BY <1>2 DEF ProcessNext
  <2> QED
    BY <2>1
<1> QED
  BY <1>1, <1>2

(* A behaviour of the process is one of each of its parts, so that what is  *)
(* proved of a part holds in the process.                                   *)
THEOREM ProcessIsItsParts ==
    ProcessSpec => Spec /\ LogSpec /\ BotSpec /\ LoopSpec /\ TlsSpec
<1>1. ProcessInit => Init /\ LogInit /\ BotInit /\ LoopInit /\ TlsInit
  BY DEF ProcessInit
<1> QED
  BY <1>1, PartsGoOn, PTL DEF ProcessSpec, Spec, LogSpec, BotSpec, LoopSpec, TlsSpec

(* In every state of the process each variable of the queue, of the log and *)
(* of the bot holds a value of the type that the code declares for it.      *)
THEOREM ProcessTyped == ProcessSpec => []TypesOK
<1>1. LogInv => LogTypeOK
  BY DEF LogInv
<1>2. LogSpec => []LogInv
  BY LogInvariance
<1>3. BotSpec => []BotTypeInv
  BY BotTypesHold
<1>4. TypeOK /\ LogTypeOK /\ BotTypeInv => TypesOK
  BY BotTypes DEF TypesOK
<1> QED
  BY <1>1, <1>2, <1>3, <1>4, ProcessIsItsParts, QueueTypeCorrect, PTL
=============================================================================
