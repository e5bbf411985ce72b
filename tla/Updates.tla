------------------------------ MODULE Updates ------------------------------
(***************************************************************************)
(* How updates reach a Telegram bot (pcx-bot.c): the bot asks for them     *)
(* with getUpdates, one request at a time, and confirms what it has seen   *)
(* by the offset of the next request.  Telegram is external: it keeps      *)
(* updates until they are confirmed, numbers them upwards, and may start   *)
(* anew with a small number when no update has come for a week.            *)
(*                                                                         *)
(* What the bot does with an update is for the module that uses this one,  *)
(* BotUpdates.                                                             *)
(***************************************************************************)
EXTENDS Integers, Sequences

CONSTANTS
    Contents,       \* what an update may say
    BatchSize,      \* updates in a reply
    MaxUpdates,     \* bound: updates sent
    MaxFailures,    \* bound: requests that fail
    MaxCrashes      \* bound: deaths of the bot

ASSUME BatchAssumption == BatchSize \in Nat \ {0}
ASSUME FailuresAssumption ==
    MaxUpdates \in Nat /\ MaxFailures \in Nat /\ MaxCrashes \in Nat

VARIABLES
    content,        \* service: all updates ever, in order
    pending,        \* service: the unconfirmed ones, with their ids
    top,            \* service: the last update_id
    quiet,          \* service: since an empty answer arrived, nothing was sent
    poll,           \* the state of updates_handle
    offset,         \* the offset of the request, 0 for none
    reply,          \* the updates of the reply that have not been processed
    last_update_id,
    handled,        \* history: the updates processed since the bot started
    ever,           \* history: the updates ever processed
    failures,       \* bounded
    crashes         \* bounded

service == <<content, pending, top, quiet>>
bot == <<poll, offset, reply, last_update_id>>
history == <<handled, ever>>
bounds == <<failures, crashes>>
updateVars == <<service, bot, history, bounds>>

(* The request has been sent, has reached Telegram, has been answered; the  *)
(* reply is being processed; restart_updates_source is set.                 *)
Polls == {"asked", "seen", "answered", "processing", "waiting"}
Update == [id : Nat \ {0}, number : Nat \ {0}]

UpdatesInit ==
    /\ content = << >> /\ pending = << >> /\ top = 0 /\ quiet = FALSE
    /\ poll = "asked" /\ offset = 0 /\ reply = << >> /\ last_update_id = 0
    /\ handled = << >> /\ ever = {}
    /\ failures = 0 /\ crashes = 0

-----------------------------------------------------------------------------
(* Telegram.                                                                *)

NextIds == {top + 1} \cup (IF quiet THEN {1} ELSE {})

(* Somebody writes to the bot or presses a button.                          *)
Send ==
    /\ Len(content) < MaxUpdates
    /\ \E c \in Contents : content' = Append(content, c)
    /\ \E id \in NextIds :
           /\ pending' = Append(pending, [id |-> id, number |-> Len(content')])
           /\ top' = id
    /\ quiet' = FALSE
    /\ UNCHANGED <<bot, history, bounds>>

(* The request arrives and confirms what comes before its offset: the first *)
(* n updates, since Telegram keeps them in the order of their ids.          *)
Confirm ==
    /\ poll = "asked"
    /\ poll' = "seen"
    /\ \E n \in 0 .. Len(pending) :
           /\ \A i \in DOMAIN pending : i =< n <=> pending[i].id < offset
           /\ pending' = SubSeq(pending, n + 1, Len(pending))
    /\ UNCHANGED <<content, top, quiet, offset, reply, last_update_id,
                   history, bounds>>

(* Telegram answers with the updates it has, if need be with none at all.   *)
Answer ==
    /\ poll = "seen"
    /\ poll' = "answered"
    /\ reply' = SubSeq(pending, 1, IF Len(pending) < BatchSize THEN Len(pending)
                                   ELSE BatchSize)
    /\ UNCHANGED <<service, offset, last_update_id, history, bounds>>

-----------------------------------------------------------------------------
(* The bot.                                                                 *)

(* last_update_id when process_updates begins                               *)
Reset == 0

(* process_updates begins.                                                  *)
ReplyArrives ==
    /\ poll = "answered"
    /\ poll' = "processing"
    /\ last_update_id' = Reset
    /\ quiet' = (reply = << >> /\ pending = << >>)
    /\ UNCHANGED <<content, pending, top, offset, reply, history, bounds>>

(* Faulty: the first update of the reply is remembered.                     *)
FirstNoted == IF last_update_id = 0 THEN Head(reply).id ELSE last_update_id

(* last_update_id once the next update of the reply has been seen           *)
Noted == IF Head(reply).id > last_update_id THEN Head(reply).id ELSE last_update_id

(* process_updates goes through the next update of the reply.               *)
ProcessUpdate ==
    /\ poll = "processing" /\ reply # << >>
    /\ last_update_id' = Noted
    /\ reply' = Tail(reply)
    /\ handled' = Append(handled, Head(reply).number)
    /\ ever' = ever \cup {Head(reply).number}
    /\ UNCHANGED <<service, poll, offset, bounds>>

(* get_updates_finished_cb, after a reply: the timer ends at once.          *)
FinishUpdates ==
    /\ poll = "processing" /\ reply = << >>
    /\ poll' = "waiting"
    /\ UNCHANGED <<service, offset, reply, last_update_id, history, bounds>>

(* get_updates_finished_cb, when the request or its reply was lost, or      *)
(* Telegram has answered with an error: the timer ends in a minute.         *)
Fail ==
    /\ failures < MaxFailures
    /\ failures' = failures + 1
    /\ poll \in {"asked", "seen", "answered"}
    /\ poll' = "waiting"
    /\ reply' = << >>
    /\ UNCHANGED <<service, offset, last_update_id, history, crashes>>

(* set_updates_handle_options                                               *)
Offset == IF last_update_id > 0 THEN last_update_id + 1 ELSE 0

(* restart_updates_cb                                                       *)
RestartUpdates ==
    /\ poll = "waiting"
    /\ poll' = "asked"
    /\ offset' = Offset
    /\ UNCHANGED <<service, reply, last_update_id, history, bounds>>

(* The bot dies and starts again: pcx_bot_new.                              *)
Crash ==
    /\ crashes < MaxCrashes
    /\ crashes' = crashes + 1
    /\ poll' = "asked" /\ offset' = 0 /\ reply' = << >> /\ last_update_id' = 0
    /\ handled' = << >>
    /\ UNCHANGED <<service, ever, failures>>

(* Every step that leaves the games alone.                                  *)
Polling ==
    \/ Send \/ Confirm \/ Answer
    \/ ReplyArrives \/ FinishUpdates \/ Fail \/ RestartUpdates
=============================================================================
