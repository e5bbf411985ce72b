----------------------------- MODULE MCProcess -----------------------------
(***************************************************************************)
(* What the process does for everybody, for TLC: the loop, the log, the    *)
(* two ends of a Telegram bot, and a socket under TLS. Each is a small     *)
(* instance of its module, and a behaviour is one of one of them; the      *)
(* others stay as they begin.                                              *)
(***************************************************************************)
EXTENDS Outbox, Log, MainLoop, BotUpdates, Tls

CONSTANTS
    Parts,
    chat1, chat2    \* chats

VARIABLE part

processVars == <<part, vars, logVars, botVars, loopVars, conn>>

-----------------------------------------------------------------------------
(* The instances: a busy chat, a quiet one and a command for the queue; one *)
(* game for two, held in private; one connection, two sockets of libcurl.   *)

TwoChats == {chat1, chat2}
FourAndTwo == [c \in Chats |-> IF c = chat1 THEN 4 ELSE 2]
Two == [t \in Types |-> 2]

-----------------------------------------------------------------------------
(* The specification.                                                       *)

ProcessInit ==
    /\ part \in Parts
    /\ Init /\ LogInit /\ BotInit /\ LoopInit /\ TlsInit

ProcessNext ==
    /\ \/ part = "outbox" /\ Next /\ UNCHANGED <<logVars, botVars, loopVars, conn>>
       \/ part = "log" /\ LogNext /\ UNCHANGED <<vars, botVars, loopVars, conn>>
       \/ part = "updates" /\ BotNext /\ UNCHANGED <<vars, logVars, loopVars, conn>>
       \/ part = "loop" /\ LoopNext /\ UNCHANGED <<vars, logVars, botVars, conn>>
       \/ part = "tls" /\ TlsNext /\ UNCHANGED <<vars, logVars, botVars, loopVars>>
    /\ UNCHANGED part

\* That of the modules.
ProcessFairness ==
    /\ WF_vars(part = "outbox" /\ StartRequest)
    /\ WF_vars(part = "outbox" /\ Finish)
    /\ WF_vars(part = "outbox" /\ SendDelay)
    /\ WF_vars(part = "outbox" /\ Tick)
    /\ WF_logVars(part = "log" /\ (Leave \/ Wait \/ Ignore \/ Swap \/ Write))
    /\ WF_logVars(part = "log" /\ caller = "joining" /\ Close)
    /\ WF_botVars(part = "updates" /\ RequestGoesOn)
    /\ WF_botVars(part = "updates" /\ Process)
    /\ WF_loopVars(part = "loop" /\ Loop /\ (at = "poll" => MustReturn))
    /\ SF_loopVars(part = "loop" /\ at = "poll" /\ TimeGoesOn)

ProcessSpec == ProcessInit /\ [][ProcessNext]_processVars /\ ProcessFairness

-----------------------------------------------------------------------------
(* Properties of several modules at once.                                   *)

\* Every variable holds values of the type the code declares for it.
TypesOK == TypeOK /\ LogTypeOK /\ BotTypeOK

\* Every message is sent and every update processed in the end.
EverythingArrives == EverythingSent /\ AllProcessed

\* Every timer runs unless it is removed, every signal is delivered, and a log that is
\* being closed is closed.
LoopGoesOn == TimersRun /\ SignalsArrive /\ LogCloses
=============================================================================
