----------------------------- MODULE BotUpdates -----------------------------
(***************************************************************************)
(* A Telegram bot that gets its updates from Telegram: the games of Bot    *)
(* and the polling of Updates in one process, which may die at any moment. *)
(***************************************************************************)
EXTENDS Updates

CONSTANTS Groups, Users, Types, MinPlayers, MaxPlayers, NeedsPrivate,
          HandlesMessage, Addresses, GameTimeout
VARIABLES games, timeouts, known, known_file

Games == INSTANCE Bot WITH timers <- timeouts, file <- known_file

gameVars == <<games, timeouts, known, known_file>>
botVars == <<updateVars, gameVars>>

(* An update is a private message of a user, or comes from a group.         *)
FromGroup == "group"
ASSUME ContentsAssumption == Contents = Users \cup {FromGroup} /\ FromGroup \notin Users
ASSUME GameTimeoutAssumption == GameTimeout \in Nat \ {0}

BotInit == UpdatesInit /\ Games!Init

Said(u) == content[u.number]

-----------------------------------------------------------------------------
(* process_updates gives the next update to process_message or to           *)
(* process_callback, which may have no use for it.                          *)
Process ==
    /\ ProcessUpdate
    /\ \/ /\ Said(Head(reply)) \in Users
          /\ Games!Message(Said(Head(reply)), Said(Head(reply)))
       \/ /\ Said(Head(reply)) = FromGroup
          /\ \E u \in Users :
                 \/ \E chat \in Groups : \/ Games!Message(u, chat)
                                         \/ Games!CreateCallback(u, chat)
                 \/ Games!GameCallback(u)

(* The timers run between two callbacks of curl.                            *)
Timers ==
    /\ poll # "processing"
    /\ Games!TimedOut \/ Games!GameOver \/ Games!Tick
    /\ UNCHANGED updateVars

(* The bot dies, either while it saves a new known id or not.               *)
Die ==
    /\ Crash
    /\ \/ Games!Restart
       \/ /\ poll = "processing" /\ reply # << >>
          /\ Said(Head(reply)) \in Users
          /\ Games!CrashInSave(Said(Head(reply)))

BotNext ==
    \/ Polling /\ UNCHANGED gameVars
    \/ Process
    \/ Timers
    \/ Die

BotSpec == BotInit /\ [][BotNext]_botVars

(* curl and Telegram get on with a request, and the loop runs a timer that  *)
(* is due.                                                                  *)
RequestGoesOn ==
    (Confirm \/ Answer \/ ReplyArrives \/ FinishUpdates \/ RestartUpdates) /\ UNCHANGED gameVars
BotFairSpec == BotSpec /\ WF_botVars(RequestGoesOn) /\ WF_botVars(Process)

-----------------------------------------------------------------------------
(* Properties.                                                              *)

(* Every variable holds values of the type the code declares for it.        *)
BotTypeOK ==
    /\ Games!TypeOK
    /\ content \in Seq(Contents)
    /\ pending \in Seq(Update) /\ reply \in Seq(Update)
    /\ \A i \in DOMAIN pending : pending[i].number =< Len(content)
    /\ \A i \in DOMAIN reply : reply[i].number =< Len(content)
    /\ top \in Nat /\ quiet \in BOOLEAN
    /\ poll \in Polls /\ offset \in Nat /\ last_update_id \in Nat
    /\ handled \in Seq(Nat \ {0}) /\ ever \subseteq 1 .. Len(content)
    /\ failures \in 0 .. MaxFailures /\ crashes \in 0 .. MaxCrashes

(* Telegram forgets an update only when the bot has processed it, even if   *)
(* the numbers have begun anew, and when the one who has written it is in   *)
(* the file of known ids, if the message was private.                       *)
Pending(n) == \E i \in DOMAIN pending : pending[i].number = n
ConfirmedIsDone ==
    \A n \in 1 .. Len(content) :
        \/ Pending(n)
        \/ n \in ever /\ (content[n] \in Users => content[n] \in known_file)

(* Between two deaths the bot processes an update at most once, and the     *)
(* updates in their order, however often requests and replies are lost.     *)
InOrderOnce == \A i \in 1 .. Len(handled) - 1 : handled[i] < handled[i + 1]

(* Every update is processed in the end.                                    *)
AllProcessed ==
    \A n \in 1 .. MaxUpdates : []<>(Len(content) >= n => n \in ever)
=============================================================================
