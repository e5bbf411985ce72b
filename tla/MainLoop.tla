------------------------------ MODULE MainLoop ------------------------------
(***************************************************************************)
(* The loop of pcx-main-context.c with those who use it: the sockets of    *)
(* the web server, the sockets of libcurl (pcx-curl-multi.c), timers, and  *)
(* signals, which go through a pipe. One poll after the other: the results *)
(* are dispatched, then the timers that are due. A callback does what it   *)
(* does to the sources one operation at a time, until it returns. The      *)
(* lists of sources are sets here: their order is any.                     *)
(***************************************************************************)
EXTENDS Integers, FiniteSets

CONSTANTS
    Conns, CurlSockets,     \* file descriptors that sockets may get
    MaxTimers,              \* timers that exist at a time
    Delays, MaxMoment,      \* in milliseconds
    MaxSignals,
    MaxChanges              \* operations of one callback

ASSUME TimesAssumption == Delays \subseteq Nat /\ MaxMoment \in Nat /\ MaxTimers \in Nat
ASSUME MaxAssumption == MaxSignals \in Nat /\ MaxChanges \in Nat

VARIABLES
    polls,          \* mc->poll_sources by file descriptor: whether it has flags
    poll_array, poll_array_dirty,
    results,        \* the entries of the array whose result is still to come
    timers,         \* mc->timeout_sources: when each one ends
    to_emit,        \* of check_timer_sources: whether each one was removed
    called,         \* those of to_emit whose callback was called
    held,           \* the timers that somebody has a pointer to
    moment,         \* the monotonic clock
    clock,          \* mc->monotonic_time, or Invalid
    wake,           \* when poll returns at the latest, or NoEnd
    spent,          \* the time in callbacks since poll last had results
    at,             \* what the loop is doing
    running,        \* whose callback runs, or Nobody
    changes,        \* the operations that it has done
    pipe,           \* signals that were not delivered yet
    raised,         \* how many signals there were
    quit

loopVars == <<polls, poll_array, poll_array_dirty, results, timers, to_emit, called, held,
              moment, clock, wake, spent, at, running, changes, pipe, raised, quit>>
socketVars == <<polls, poll_array_dirty>>
arrayVars == <<poll_array, results>>
timerVars == <<timers, to_emit, called, held>>
clockVars == <<moment, clock, wake, spent>>
callbackVars == <<running, changes>>
signalVars == <<pipe, raised, quit>>

Invalid == -1
NoEnd == -1
Nobody == <<"nobody">>
Socket(fd) == <<"socket", fd>>
Timer(id) == <<"timer", id>>
Listener == "listener"
AsyncPipe == "async pipe"
Existing == DOMAIN timers \cup DOMAIN to_emit

Without(f, x) == [y \in DOMAIN f \ {x} |-> f[y]]
With(f, x, v) == [y \in DOMAIN f \cup {x} |-> IF y = x THEN v ELSE f[y]]
Only(f, S) == [x \in DOMAIN f \cap S |-> f[x]]

LoopInit ==
    /\ polls = [fd \in {Listener, AsyncPipe} |-> TRUE]
    /\ poll_array = Only(polls, {}) /\ poll_array_dirty = TRUE /\ results = {}
    /\ timers = Only(polls, {}) /\ to_emit = Only(polls, {}) /\ called = {} /\ held = {}
    /\ moment = 0 /\ clock = Invalid /\ wake = NoEnd /\ spent = 0
    /\ at = "loop" /\ running = Nobody /\ changes = 0
    /\ pipe = 0 /\ raised = 0 /\ quit = FALSE

(* pcx_main_context_get_monotonic_clock.                                    *)
Clock == IF clock = Invalid THEN moment ELSE clock

-----------------------------------------------------------------------------
(* pcx_main_context_poll.                                                   *)

Ends == {timers[id] : id \in DOMAIN timers}
Timeout == IF \E e \in Ends : e =< Clock THEN 0
           ELSE (CHOOSE e \in Ends : \A f \in Ends : e =< f) - Clock

Poll ==
    /\ at = "loop"
    /\ poll_array' = IF poll_array_dirty THEN polls ELSE poll_array
    /\ poll_array_dirty' = FALSE
    /\ IF DOMAIN timers = {}
       THEN wake' = NoEnd /\ UNCHANGED clock
       ELSE wake' = moment + Timeout /\ clock' = Clock
    /\ at' = "poll"
    /\ UNCHANGED <<polls, results, timerVars, moment, spent, callbackVars, signalVars>>

(* A hang-up is reported for a socket that has no flags, too; the listening *)
(* socket has none while there are no file descriptors.                     *)
MayBeReady == {fd \in DOMAIN poll_array : fd = Listener => poll_array[fd]}

PollReturns ==
    /\ at = "poll"
    /\ results' \in SUBSET MayBeReady
    /\ AsyncPipe \in results' <=> pipe > 0
    /\ results' # {} \/ (wake # NoEnd /\ moment >= wake)
    /\ clock' = Invalid /\ wake' = NoEnd /\ spent' = 0 /\ at' = "results"
    /\ UNCHANGED <<socketVars, poll_array, timerVars, moment, callbackVars, signalVars>>

(* A signal: its handler writes to the pipe. When it interrupts poll, there *)
(* are no results, and the timers are not looked at.                        *)
Raise ==
    /\ raised < MaxSignals /\ at \notin {"fatal", "left"}
    /\ pipe' = pipe + 1 /\ raised' = raised + 1
    /\ \/ UNCHANGED <<at, clock, wake>>
       \/ at = "poll" /\ at' = "loop" /\ clock' = Invalid /\ wake' = NoEnd
    /\ UNCHANGED <<socketVars, arrayVars, timerVars, moment, spent, callbackVars, quit>>

-----------------------------------------------------------------------------
(* handle_poll_result: a result for nobody stops the process.               *)

Idle(where) == at = where /\ running = Nobody

ResultForNobody ==
    /\ Idle("results") /\ results \ DOMAIN polls # {}
    /\ at' = "fatal"
    /\ UNCHANGED <<socketVars, arrayVars, timerVars, clockVars, callbackVars, signalVars>>

HandleResult ==
    /\ Idle("results")
    /\ \E fd \in (results \cap DOMAIN polls) \ {AsyncPipe} :
          /\ running' = Socket(fd) /\ changes' = 0
          /\ results' = results \ {fd}
    /\ UNCHANGED <<socketVars, poll_array, timerVars, clockVars, at, signalVars>>

(* async_pipe_cb and emit_signal_source: one signal of a poll; quit_cb sets *)
(* quit, info_cb may.                                                       *)
HandleSignal ==
    /\ Idle("results") /\ AsyncPipe \in results \cap DOMAIN polls
    /\ results' = results \ {AsyncPipe} /\ pipe' = pipe - 1
    /\ quit' \in {quit, TRUE}
    /\ UNCHANGED <<socketVars, poll_array, timerVars, clockVars, at, callbackVars, raised>>

(* check_timer_sources: the timers that are due leave the list, and are     *)
(* busy from then on.                                                       *)
CheckTimerSources ==
    /\ Idle("results") /\ results = {}
    /\ LET due == {id \in DOMAIN timers : timers[id] =< Clock} IN
       /\ to_emit' = [id \in due |-> FALSE]
       /\ timers' = Only(timers, DOMAIN timers \ due)
    /\ clock' = IF DOMAIN timers = {} THEN clock ELSE Clock
    /\ at' = "timers"
    /\ UNCHANGED <<socketVars, arrayVars, called, held, moment, wake, spent,
                   callbackVars, signalVars>>

(* A callback of a timer forgets the timer first.                           *)
EmitTimer ==
    /\ Idle("timers")
    /\ \E id \in DOMAIN to_emit \ called :
          /\ called' = called \cup {id}
          /\ IF to_emit[id]
             THEN UNCHANGED <<callbackVars, held>>
             ELSE running' = Timer(id) /\ changes' = 0 /\ held' = held \ {id}
    /\ UNCHANGED <<socketVars, arrayVars, timers, to_emit, clockVars, at, signalVars>>

(* The timers are freed, and main polls again unless it should quit.        *)
FreeEmitted ==
    /\ Idle("timers") /\ called = DOMAIN to_emit
    /\ to_emit' = Only(to_emit, {}) /\ called' = {}
    /\ at' = IF quit THEN "left" ELSE "loop"
    /\ UNCHANGED <<socketVars, arrayVars, timers, held, clockVars, callbackVars, signalVars>>

-----------------------------------------------------------------------------
(* What a callback does.                                                    *)

AddTimeout ==
    /\ \E id \in 1 .. MaxTimers, ms \in Delays :
          /\ id \notin Existing /\ 1 .. id - 1 \subseteq Existing
          /\ Clock + ms =< MaxMoment
          /\ timers' = With(timers, id, Clock + ms)
          /\ held' = held \cup {id}
    /\ clock' = Clock
    /\ UNCHANGED <<socketVars, to_emit, called, moment, wake, spent>>

(* Faulty: a timer that is busy is not marked.                              *)
RemoveTimerFromList ==
    /\ \E id \in held :
          /\ held' = held \ {id}
          /\ timers' = Without(timers, id)
    /\ UNCHANGED <<socketVars, to_emit, called, clockVars>>

(* A timer that is busy is only marked.                                     *)
RemoveTimer ==
    /\ \E id \in held :
          /\ held' = held \ {id}
          /\ IF id \in DOMAIN to_emit
             THEN to_emit' = With(to_emit, id, TRUE) /\ UNCHANGED timers
             ELSE timers' = Without(timers, id) /\ UNCHANGED to_emit
    /\ UNCHANGED <<socketVars, called, clockVars>>

ModifyPoll(fd, on) ==
    /\ polls' = With(polls, fd, on)
    /\ poll_array_dirty' = (poll_array_dirty \/ polls[fd] # on)

AddPoll(fd) == polls' = With(polls, fd, TRUE) /\ poll_array_dirty' = TRUE

RemovePoll(fd) == polls' = Without(polls, fd) /\ poll_array_dirty' = TRUE

(* listen_sock_cb: a new connection, or no file descriptor is left, or the  *)
(* socket is given up.                                                      *)
Accept ==
    /\ running = Socket(Listener) /\ Listener \in DOMAIN polls
    /\ \/ \E fd \in Conns \ DOMAIN polls : AddPoll(fd)
       \/ Conns \subseteq DOMAIN polls /\ ModifyPoll(Listener, FALSE)
       \/ RemovePoll(Listener)
    /\ UNCHANGED <<timerVars, clockVars>>

(* update_poll_flags, of any connection, since the players talk.            *)
ChangeFlags ==
    /\ running \in {Socket(fd) : fd \in Conns} \cup {Timer(id) : id \in 1 .. MaxTimers}
    /\ \E fd \in Conns \cap DOMAIN polls, on \in BOOLEAN : ModifyPoll(fd, on)
    /\ UNCHANGED <<timerVars, clockVars>>

(* A client goes: by its own callback, or by the collector. The listening   *)
(* socket is polled again.                                                  *)
RemoveClient ==
    /\ \E fd \in Conns \cap DOMAIN polls :
          /\ running \in {Socket(fd)} \cup {Timer(id) : id \in 1 .. MaxTimers}
          /\ polls' = LET rest == Without(polls, fd) IN
                      [s \in DOMAIN rest |-> s = Listener \/ rest[s]]
          /\ poll_array_dirty' = TRUE
    /\ UNCHANGED <<timerVars, clockVars>>

(* socket_cb: libcurl opens and closes sockets, in the callback of any of   *)
(* them or in a timer.                                                      *)
CurlSocket ==
    /\ running \in {Socket(fd) : fd \in CurlSockets} \cup {Timer(id) : id \in 1 .. MaxTimers}
    /\ \E fd \in CurlSockets : IF fd \in DOMAIN polls THEN RemovePoll(fd) ELSE AddPoll(fd)
    /\ UNCHANGED <<timerVars, clockVars>>

Callback ==
    /\ running # Nobody /\ changes < MaxChanges /\ changes' = changes + 1
    /\ AddTimeout \/ RemoveTimer \/ Accept \/ ChangeFlags \/ RemoveClient \/ CurlSocket
    /\ UNCHANGED <<arrayVars, at, running, signalVars>>

Return ==
    /\ running # Nobody /\ running' = Nobody /\ changes' = 0
    /\ UNCHANGED <<socketVars, arrayVars, timerVars, clockVars, at, signalVars>>

(* Time passes while the loop waits, not beyond what it waits for, and in   *)
(* callbacks.                                                               *)
TimeGoesOn ==
    /\ \/ /\ at = "poll" /\ moment < 2 * MaxMoment /\ (wake # NoEnd => moment < wake)
          /\ UNCHANGED spent
       \/ running # Nobody /\ moment < MaxMoment /\ spent' = spent + 1
    /\ moment' = moment + 1
    /\ UNCHANGED <<socketVars, arrayVars, timerVars, clock, wake, at, callbackVars,
                   signalVars>>

Loop == \/ Poll \/ PollReturns
        \/ ResultForNobody \/ HandleResult \/ HandleSignal
        \/ CheckTimerSources \/ EmitTimer \/ FreeEmitted
        \/ Return

LoopNext == Loop \/ Callback \/ Raise \/ TimeGoesOn

LoopSpec == LoopInit /\ [][LoopNext]_loopVars

(* The callbacks return, poll returns when there is a signal or a timer is  *)
(* due, and time passes.                                                    *)
MustReturn == pipe > 0 \/ (wake # NoEnd /\ moment >= wake)
LoopFairness ==
    /\ WF_loopVars(Loop /\ (at = "poll" => MustReturn))
    /\ SF_loopVars(at = "poll" /\ TimeGoesOn)

-----------------------------------------------------------------------------
(* Properties.                                                              *)

(* The timers that will run are those that somebody still waits for: none   *)
(* that was removed, not by the callback of another one of the same pass    *)
(* either, and none is forgotten.                                           *)
TimersHeld ==
    held = DOMAIN timers \cup {id \in DOMAIN to_emit \ called : ~to_emit[id]}

(* What poll waits for is the list of sources, whichever callback changed   *)
(* it.                                                                      *)
ArrayIsFresh == at = "poll" => poll_array = polls

(* A timer is late by no more than the time that callbacks took.            *)
NeverLate == at = "poll" => \A id \in DOMAIN timers : moment =< timers[id] + spent

(* Only libcurl, which may close another of its sockets, makes a result     *)
(* come for nobody.                                                         *)
FatalOnlyByCurl == at = "fatal" => results \ DOMAIN polls \subseteq CurlSockets

LoopSound == TimersHeld /\ ArrayIsFresh /\ NeverLate /\ FatalOnlyByCurl

(* Every timer runs unless it is removed, every signal is delivered, and    *)
(* the loop is left when it should be.                                      *)
Stopped == at \in {"fatal", "left"}
TimersRun == \A id \in 1 .. MaxTimers : []<>(id \notin held \/ Stopped)
SignalsArrive == []<>((pipe = 0 /\ ~quit) \/ Stopped)
=============================================================================
