------------------------------- MODULE Outbox -------------------------------
(***************************************************************************)
(* What the Telegram bot sends: the queue of pcx-message-queue.c, which    *)
(* holds the messages of every chat back to the rate that Telegram allows, *)
(* and the requests of pcx-bot.c, which go out one at a time over a single *)
(* curl handle.  Commands (answerCallbackQuery, editMessageReplyMarkup...) *)
(* are requests that do not pass through the queue.                        *)
(*                                                                         *)
(* Time is the monotonic clock of the main loop.  A timer runs at any time *)
(* from its end on.                                                        *)
(***************************************************************************)
EXTENDS Integers, Sequences, Enumeration

CONSTANTS
    Chats,          \* chat_id
    Limit,          \* LIMIT_AMOUNT
    Period,         \* LIMIT_PERIOD
    Ms,             \* one unit of a timer: 1000 on a clock of microseconds
    MaxAsked,       \* bound: messages for each chat
    MaxCommands,    \* bound: commands
    MaxTime         \* bound: afterwards time only passes for a timer

ASSUME ChatsAssumption == "none" \notin Chats
ASSUME LimitAssumption == Limit \in Nat \ {0}
ASSUME ClockAssumption == Period \in Nat \ {0} /\ Ms \in Nat \ {0}
ASSUME BoundsAssumption ==
    MaxAsked \in [Chats -> Nat] /\ MaxCommands \in Nat /\ MaxTime \in Nat

VARIABLES
    now,            \* the monotonic clock
    chats,          \* message_queue->chats, as a sequence from its head
    queue,          \* chat->queue, by chat: numbers of the messages that wait
    recent,         \* chat->recent_sent_messages: when each was sent
    requests,       \* queued_requests
    armed,          \* start_request_source is set
    busy,           \* request_handle_busy
    delay,          \* the end of message_delay_source
    asked,          \* messages that the games wanted sent, by chat
    commands,       \* commands that the bot wanted sent
    sent,           \* history: when each message of a chat left the queue
    started         \* history: the messages of a chat given to curl

vars == <<now, chats, queue, recent, requests, armed, busy, delay,
          asked, commands, sent, started>>

Never == -1                                 \* a timer that is not armed
Command == [chat |-> "none", number |-> 0]
Messages == [chat : Chats, number : Nat]

Init ==
    /\ now = 0
    /\ chats = << >>
    /\ queue = [c \in Chats |-> << >>]
    /\ recent = [c \in Chats |-> << >>]
    /\ requests = << >>
    /\ armed = FALSE
    /\ busy = FALSE
    /\ delay = Never
    /\ asked = [c \in Chats |-> 0]
    /\ commands = 0
    /\ sent = [c \in Chats |-> << >>]
    /\ started = [c \in Chats |-> << >>]

-----------------------------------------------------------------------------
(* The message queue.                                                       *)

Old(time) == time + Period =< now

(* update_recent_messages: how many messages at the head of r are old.      *)
OldPrefix(r) ==
    CHOOSE n \in 0 .. Len(r) :
        /\ \A i \in 1 .. n : Old(r[i])
        /\ n < Len(r) => ~Old(r[n + 1])

Lately(r) == SubSeq(r, OldPrefix(r) + 1, Len(r))

(* Faulty: the first message sent decides.                                  *)
DeadByFirst(c) ==
    /\ queue[c] = << >>
    /\ recent[c] # << >> => Old(Head(recent[c]))

(* chat_is_dead                                                             *)
Dead(c) ==
    /\ queue[c] = << >>
    /\ recent[c] # << >> => Old(recent[c][Len(recent[c])])

(* Faulty: the chat that is looked for goes too.                            *)
KeptAlive(c) == {d \in Chats : ~Dead(d)}

(* find_chat: looking for c removes the other chats that are dead.          *)
Kept(c) == {d \in Chats : d = c \/ ~Dead(d)}

Known(c) == \E i \in DOMAIN chats : chats[i] = c

(* Those elements of a list that are in S, in their order.                  *)
Those(list, S) ==
    LET at == Increasing({i \in DOMAIN list : list[i] \in S})
    IN  [k \in DOMAIN at |-> list[at[k]]]

(* The list of chats once pcx_message_queue_add has found or added c.       *)
ListWith(c) ==
    LET kept == Those(chats, Kept(c))
    IN  IF Known(c) THEN kept ELSE << c >> \o kept

Remembered(c) == [d \in Chats |-> IF d \in Kept(c) THEN recent[d] ELSE << >>]

-----------------------------------------------------------------------------
(* Starting a request.                                                      *)

(* pcx_message_queue_get looks at the chats of list from its head.          *)
Able(list, q, r, i) == q[list[i]] # << >> /\ Len(Lately(r[list[i]])) < Limit
Waiting(list, q) == {i \in 1 .. Len(list) : q[list[i]] # << >>}

(* recent_sent_messages when get has looked at the first n chats of list.   *)
Updated(list, q, r, n) ==
    [c \in Chats |->
        IF \E i \in Waiting(list, q) : i =< n /\ list[i] = c THEN Lately(r[c]) ELSE r[c]]

(* The soonest that one of the waiting chats may send again.                *)
NextSendTime(list, q, r) ==
    CHOOSE t \in {Head(Lately(r[list[i]])) + Period : i \in Waiting(list, q)} :
        \A i \in Waiting(list, q) : t =< Head(Lately(r[list[i]])) + Period

Arm ==
    /\ armed' = TRUE
    /\ delay' = Never

(* get returns a message, which becomes the only request.                   *)
TakeMessage(list, q, r) ==
    \E i \in 1 .. Len(list) :
        LET c == list[i]
            up == Updated(list, q, r, i)
        IN  /\ Able(list, q, r, i)
            /\ \A j \in 1 .. i - 1 : ~Able(list, q, r, j)
            /\ requests' = << [chat |-> c, number |-> Head(q[c])] >>
            /\ queue' = [q EXCEPT ![c] = Tail(@)]
            /\ recent' = [up EXCEPT ![c] = Append(@, now)]
            /\ sent' = [sent EXCEPT ![c] = Append(@, now)]
            /\ Arm

(* Faulty: nothing wakes the bot up.                                        *)
HoldBackUnarmed(list, q, r) ==
    /\ \A i \in DOMAIN list : ~Able(list, q, r, i)
    /\ recent' = Updated(list, q, r, Len(list))
    /\ delay' = Never
    /\ UNCHANGED armed
    /\ queue' = q
    /\ requests' = << >>
    /\ UNCHANGED sent

(* get returns none: if messages wait, for how long.                        *)
HoldBack(list, q, r) ==
    /\ \A i \in DOMAIN list : ~Able(list, q, r, i)
    /\ recent' = Updated(list, q, r, Len(list))
    /\ delay' = IF Waiting(list, q) = {} THEN Never
                ELSE now + ((NextSendTime(list, q, r) - now) \div Ms + 1) * Ms
    /\ UNCHANGED armed
    /\ queue' = q
    /\ requests' = << >>
    /\ UNCHANGED sent

(* maybe_start_request, called when the chats are list, their queues q,     *)
(* their recent messages r and the requests reqs.                           *)
MaybeStartRequest(list, q, r, reqs, inUse) ==
    /\ chats' = list
    /\ \/ /\ inUse \/ armed
          /\ queue' = q /\ recent' = r /\ requests' = reqs
          /\ UNCHANGED <<armed, delay, sent>>
       \/ /\ ~inUse /\ ~armed /\ reqs # << >>
          /\ queue' = q /\ recent' = r /\ requests' = reqs
          /\ Arm
          /\ UNCHANGED sent
       \/ /\ ~inUse /\ ~armed /\ reqs = << >>
          /\ TakeMessage(list, q, r) \/ HoldBack(list, q, r)

-----------------------------------------------------------------------------
(* Faulty: the newest message goes first.                                   *)
SendMessageFirst(c) ==
    /\ asked[c] < MaxAsked[c]
    /\ asked' = [asked EXCEPT ![c] = @ + 1]
    /\ MaybeStartRequest(ListWith(c), [queue EXCEPT ![c] = << asked[c] + 1 >> \o @],
                         Remembered(c), requests, busy)
    /\ UNCHANGED <<now, busy, commands, started>>

(* send_message_full                                                        *)
SendMessage(c) ==
    /\ asked[c] < MaxAsked[c]
    /\ asked' = [asked EXCEPT ![c] = @ + 1]
    /\ MaybeStartRequest(ListWith(c), [queue EXCEPT ![c] = Append(@, asked[c] + 1)],
                         Remembered(c), requests, busy)
    /\ UNCHANGED <<now, busy, commands, started>>

(* send_request                                                             *)
SendRequest ==
    /\ commands < MaxCommands
    /\ commands' = commands + 1
    /\ MaybeStartRequest(chats, queue, recent, Append(requests, Command), busy)
    /\ UNCHANGED <<now, busy, asked, started>>

(* start_request_cb: the request is freed as soon as curl has it.           *)
StartRequest ==
    /\ armed /\ ~busy /\ requests # << >>
    /\ armed' = FALSE
    /\ busy' = TRUE
    /\ requests' = Tail(requests)
    /\ started' = [c \in Chats |->
           IF Head(requests).chat = c THEN Append(started[c], Head(requests).number)
           ELSE started[c]]
    /\ UNCHANGED <<now, chats, queue, recent, delay, asked, commands, sent>>

(* Faulty: what has waited in the meantime is not looked at.                *)
FinishOnly ==
    /\ busy
    /\ busy' = FALSE
    /\ UNCHANGED <<now, chats, queue, recent, requests, armed, delay, sent,
                   asked, commands, started>>

(* request_finished_cb, whether Telegram has accepted the request or not.   *)
Finish ==
    /\ busy
    /\ busy' = FALSE
    /\ MaybeStartRequest(chats, queue, recent, requests, FALSE)
    /\ UNCHANGED <<now, asked, commands, started>>

(* send_delay_cb                                                            *)
SendDelay ==
    /\ delay # Never /\ delay =< now
    /\ MaybeStartRequest(chats, queue, recent, requests, busy)
    /\ UNCHANGED <<now, busy, asked, commands, started>>

Tick ==
    /\ now < MaxTime \/ now < delay
    /\ now' = now + 1
    /\ UNCHANGED <<chats, queue, recent, requests, armed, busy, delay,
                   asked, commands, sent, started>>

Next ==
    \/ \E c \in Chats : SendMessage(c)
    \/ SendRequest
    \/ StartRequest
    \/ Finish
    \/ SendDelay
    \/ Tick

Spec == Init /\ [][Next]_vars

(* The loop runs its timers, time passes, and curl reports the end of every *)
(* request - no handle has a timeout of its own: see README.md.             *)
Fairness ==
    /\ WF_vars(StartRequest)
    /\ WF_vars(Finish)
    /\ WF_vars(SendDelay)
    /\ WF_vars(Tick)

FairSpec == Spec /\ Fairness

-----------------------------------------------------------------------------
(* Properties.                                                              *)

(* Every variable holds values of the type the code declares for it, a chat *)
(* is listed once, and only chats in the list have messages.                *)
TypeOK ==
    /\ now \in Nat
    /\ chats \in Seq(Chats)
    /\ queue \in [Chats -> Seq(Nat)]
    /\ recent \in [Chats -> Seq(Nat)]
    /\ requests \in Seq(Messages \cup {Command})
    /\ armed \in BOOLEAN
    /\ busy \in BOOLEAN
    /\ delay \in Nat \cup {Never}
    /\ asked \in [Chats -> Nat]
    /\ commands \in Nat
    /\ sent \in [Chats -> Seq(Nat)]
    /\ started \in [Chats -> Seq(Nat)]
    /\ \A i, j \in DOMAIN chats : chats[i] = chats[j] => i = j
    /\ \A c \in Chats : ~Known(c) => queue[c] = << >> /\ recent[c] = << >>

(* No chat is sent more than Limit messages in any Period, even if the      *)
(* queue has forgotten the chat in the meantime and learnt of it again.     *)
RateLimited ==
    \A c \in Chats : \A i \in DOMAIN sent[c] :
        i > Limit => sent[c][i] - sent[c][i - Limit] >= Period

(* Numbers of the messages for c among the requests that have not started.  *)
Requested(c) ==
    LET at == Increasing({i \in DOMAIN requests : requests[i].chat = c})
    IN  [k \in DOMAIN at |-> requests[at[k]].number]

(* Every message a game wanted sent reaches curl once and in its turn, or   *)
(* is still on its way.                                                     *)
NothingLost ==
    \A c \in Chats :
        started[c] \o Requested(c) \o queue[c] = [n \in 1 .. asked[c] |-> n]

(* The bot is never idle for nothing.  When it has no request to send, the  *)
(* chats with messages have used up their rate, and a timer ends within one *)
(* Ms of the moment the first of them has not.                              *)
NeverIdle ==
    /\ armed => ~busy /\ requests # << >>
    /\ delay # Never => ~busy /\ ~armed
    /\ ~busy /\ ~armed =>
           /\ requests = << >>
           /\ \A c \in Chats : queue[c] # << >> =>
                  /\ Len(sent[c]) >= Limit
                  /\ delay # Never
                  /\ delay =< sent[c][Len(sent[c]) - Limit + 1] + Period + Ms

(* Every message is sent in the end.                                        *)
EverythingSent ==
    \A c \in Chats : \A n \in 1 .. MaxAsked[c] :
        []<>(asked[c] >= n => Len(started[c]) >= n)
=============================================================================
