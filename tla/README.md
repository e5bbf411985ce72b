# Pucxobot in TLA+

Pucxobot runs card games for groups of people, over Telegram and on a website of
its own. It is one process with one thread: `pcx-main.c` opens the bots and the
servers of its configuration and then calls `pcx_main_context_poll` for ever.
Everything else happens in callbacks of that loop: a socket that is ready, a
timer that is due, a request that libcurl has finished. The games themselves
know neither Telegram nor the web; they speak through a table of callbacks to
whatever hosts them.

Nothing but the writing of the log therefore runs in parallel inside the
process, and a handler is one action of the models here. What makes the program
hard is between the handlers: sockets that break anywhere, pages that come back, timers that were armed for
something that has since ended, buffers that are full, and state that has to be
kept up to date by hand in a dozen places.

## The parts of the system

| part | state | operations | talks to |
| --- | --- | --- | --- |
| conversation (`pcx-conversation.c`) | log of messages, side-band data, players, the game, reference count | add and remove a player, start, queue a message, set data, push a button | connections, by an event signal; the game, by callbacks |
| web connection (`pcx-connection.c`) | player, position in the log, dirty data, pending control frames, `read_buf`, `write_buf`, poll flags | parse requests, fill and write the buffer, follow a player | conversation, server, socket |
| web server (`pcx-server.c`) | clients, listening sockets, conversations on offer, collector timer | accept, the requests of clients, collect silent clients | connections, player base, conversations |
| player base (`pcx-playerbase.c`, `pcx-player.c`) | players by identity, reference counts, collector timer | add, find, collect | server, conversations |
| web page (`web/pucxo.js`) | identity, number of messages received, what is shown | connect, resume, read, leave | server, by a WebSocket (`doc/protocol.txt`) |
| message queue (`pcx-message-queue.c`) | a queue for each chat, what each was sent lately | add, get | bot |
| bot (`pcx-bot.c`) | games by chat, the requests to send, the last update, known identities | poll for updates, commands of players, timeouts of games, send | Telegram through `pcx-curl-multi.c`, games, message queue |
| main loop (`pcx-main-context.c`) | sources: sockets, timers, signals | add, remove, poll and dispatch | all |
| log (`pcx-log.c`) | two buffers, a file, a mutex and a condition | log a line, start, close; a thread that writes | all |
| games (`pcx-coup.c`, `pcx-werewolf.c`, `pcx-love.c`, ...) | the rules' state | create, button, message, timers | conversation or bot |
| handshake and frames (`pcx-ws-parser.c`, `process_frames`) | state of the parser, line, `read_buf`, message so far | take some bytes | web connection |
| word lists (`make-dictionary.c`, `pcx-dictionary.c`, `make-syllables.c`, `pcx-syllabary.c`) | a trie and a list in files | write, look up, pick | Wordparty |
| configuration (`pcx-key-value.c`, `pcx-config.c`) | state of the reader, sections | load, validate | `pcx-main.c` |

`PROJECT.json` lists every part with its sources and whether it is modelled.

### What is hard, and what makes each part correct

- **Web conversation, end to end.** A message must reach every page it is for,
  once, in order, although `write_buf` is small, sockets break anywhere, each
  player skips the messages of others and the page resumes from nothing but a
  count. Each of a dozen paths has to recompute the poll flags or a page waits
  for good. Properties: the pipeline from log to page is exact, no wake-up is
  lost, data are dirty or current, names come before what is said of them, and
  pages catch up.
- **Registry of the web server.** Clients, players and conversations have
  reference counts and two independent collectors; a conversation leaves the
  list of offers by events sent while it changes; listening stops when
  descriptors run out. Properties: nothing is freed in use, what is on offer can
  be joined, the game hears once of every departure, silence is bounded,
  everybody is accepted, and everything is freed in the end.
- **Sending to Telegram.** Three timers and a handle decide who starts the next
  request, under a sliding rate limit for each chat whose records are dropped
  when the chat looks dead. Properties: the rate is kept, nothing is lost or
  overtaken, the bot is never idle without need, everything is sent.
- **Games registry of the bot.** A game's only timer is armed, replaced and
  removed by joins, starts, cancels and the end of the game; players come in by
  commands and by buttons, in several groups. Properties: nobody plays twice,
  games and timers correspond, games are started when they can be, players of a
  game with secrets can be written to, and a game that is left alone ends.
- **Updates and known identities.** Replies that are lost, a retry timer, numbers
  that begin anew, restarts, and a file that is replaced while the process may
  die. Properties: no update is lost or repeated, nobody is forgotten.
- **Main loop.** Sources are removed, changed and added by the callbacks of other
  sources of the same pass; results and due timers were collected before.
  Properties: a removed timer never runs and a held one is never forgotten, poll
  waits for the current list, no timer is later than the callbacks made it, and
  the fatal error is out of reach of everybody but libcurl.
- **Log.** A thread writes from the buffer it has swapped while lines are added,
  and may be told to finish at any time. Properties: nothing is lost, doubled or
  reordered; closing ends.
- **Bytes.** TCP cuts requests and frames anywhere; OpenSSL wants a write again
  as it was; files share the ends of words. Properties: what is read is what was
  written, however it was cut or shared; a retried write has the old size.
- **Games.** Nested questions, votes, secret choices and timers, on decks and
  counters that must add up. Properties: cards and dice are conserved, the
  player who is asked can answer, a timer runs whenever one is waited for,
  verdicts follow the rules, and a game in which people answer ends.

The file `PROJECT.json` lists these hazards one by one, with the line of code
where each bites and the properties that watch it.

## Modules

| module | what it is |
| --- | --- |
| `Enumeration` | the elements of a finite set of naturals as an increasing sequence; used for the dirty bits and for the messages a player is sent |
| `Stream` | abstract specification of a web conversation |
| `Session` | conversation, connections, network and pages of one web game |
| `WebServer` | the registry: clients, players, offers, collectors, listening sockets |
| `Outbox` | the message queue and the request pipeline of the bot |
| `Bot` | the games of the bot, their timeouts, the known ids and their file |
| `Updates` | the polling of updates, with Telegram's side of it |
| `BotUpdates` | `Bot` and `Updates` in one process that may die |
| `MainLoop` | the dispatch of sockets, timers and signals, with those who use it |
| `Log` | the log and its thread |
| `Incoming` | the handshake and the frames of a web connection, from bytes in pieces |
| `Tls` | reads and writes that OpenSSL cannot do yet |
| `Dictionary` | the files of words and syllables, and their readers |
| `Config` | the configuration file |
| `Six`, `Love`, `Fox`, `Snitch`, `Zombie`, `Werewolf`, `Superfight`, `Wordparty`, `Chameleon`, `Coup` | the games |
| `Games` | the table of games (`pcx-game.c`) without Coup: one of the nine is played; what their properties have in common |
| `MCSession`, `MCWebServer`, `MCBot` | values of constants and symmetry for TLC |
| `MCGames` | `Games` with a small instance of each, beside two instances of `Coup` |
| `MCWeb` | `Session` with `WebServer`, `Incoming`, `Dictionary` and `Config`, in small instances |
| `MCProcess` | `Outbox`, `Log`, `BotUpdates`, `MainLoop` and `Tls`, in small instances |
| `EnumerationProofs`, `SessionProofs`, `WebServerProofs`, `BotProofs` | theorems about the modules of these names |
| `ProcessProofs` | theorems about `Outbox`, `BotUpdates`, `Log`, `MainLoop` and `Tls`, and about `MCProcess`, which has them all in one process |
| `SumProofs`, `CardProofs`, `GamesProofs` | lemmas about sums over finite sets and about the games of cards, and theorems about `Games` |

`Games`, `MCWeb` and `MCProcess` put modules that do not interact side by side:
a behaviour is one of one of them (`type`, `part`), and the others stay in their
initial state. A property of such a run is the conjunction of those of its
modules that are about the same thing.

### Session

Variables: `conv` (the `struct pcx_conversation` and whether it is still on
offer), `conn[c]` (a `struct pcx_connection` for every socket a page opens),
`hello[c]` (the first request of a socket, not yet read), `wire[c]` (bytes
written and not yet received), `client[u]` (the `Pucxo` object of a page).

Operators on a conversation are functions of `pcx-conversation.c`: they take the
conversation and return the one they leave, with every call made on the way
(`AddPlayer` queues the message of welcome and starts a game that is full).
Operators on a connection are the write path: `FramesDue` lists what
`fill_write_buf` would write, in its order; `FillWriteBuf` takes the frames that
fit and moves the cursor; `UpdatePollFlags` is called exactly where the code
calls `update_poll_flags`. The actions are the handlers: one for each request of
`doc/protocol.txt` that changes something, `HandleWrite` for a socket that is
writable and takes any number of frames of the buffer, `Lose` for a connection
that fails. `GameMessage`, `GameSideband` and `GameOver` are the callbacks of the
game, free to come at any time while it runs; `Expire` is the collector of the
player base. `Connect`, `Receive`, `Drop` and `Notice` are the page and its
network.

A message is its position in the log, who it is for and a size; `joined` in a
log entry is a history variable. Frames are abstract records that have a size in
units of the buffer. Frames are written and received whole: the code keeps a
partly written frame in the buffer, and the page cannot see it, so nothing
changes but the moment of its arrival.

`Session` implements `Stream` under the mapping at the end of the module: the
log of targets, the identity of each page, and the positions it was handed.
`Stream` has no connections at all: a page is handed the next message that is
for it, each once, in order.

### WebServer

Here a page is only a socket that dials, says what it wants to be, and falls
silent or goes. `client[c]`, `player[id]` and `conv[i]` carry what the reference
counts and the collectors look at. Players and conversations are kept in
sequences in the order of their creation and marked when they are freed, so that
an invariant can say that nothing freed is used. `clientGc` and `playerGc` are
the ticks left on the two collector timers; a tick is whatever divides
`MAX_CLIENT_AGE` and `PCX_PLAYERBASE_MAX_PLAYER_AGE`, which have the same
length, and a timer that is due runs before the next tick. `Told` counts how often the
game was told of each player's departure.

### Outbox

`chats` is the list of chats from its head, `queue` and `recent` what the queue
holds for each; `requests`, `armed`, `busy` and `delay` are `queued_requests`,
`start_request_source`, `request_handle_busy` and `message_delay_source` of the
bot. `MaybeStartRequest` is `maybe_start_request` with the call of
`pcx_message_queue_get` in it; its parameters are the state its caller has
already changed. The clock is a number; timers may run late by any amount, as
they do when the process is busy. `sent` and `started` are histories: when each
message left the queue, and which were given to libcurl. A request that fails is
dropped like one that succeeds, since `request_finished_cb` makes no difference.

### Bot, Updates and BotUpdates

`games` is the list of `struct game`, without its order, which decides nothing
as long as nobody plays twice. A game has the address it was allocated at, and
`timers` are the sources of the main loop with the game they point to: a timer
that outlives its game would act on the next game at that address. `known` and
`file` are the known ids and those on disk. Each command is an action for one
entity of a message; `Message` is `process_message`, in which a private message
makes its sender known before the command is looked at. A message with several
commands acts like several messages, and a message that is only answered
changes nothing here: what is said goes through `Outbox`. The game is external:
`Play` is a call that may call `game_over_cb`, `GameOver` a timer of the game
that does. Saving is one step, and `CrashInSave` the death of the process in it.

`Updates` is the protocol of `getUpdates`: `poll` follows `updates_handle` from
the request to the timer that restarts it, `offset` is what the request carries,
`reply` what of the reply is not processed yet. Telegram's side is external: it
forgets what comes before an offset it has seen, and once an empty answer has
arrived and nothing has been sent since, it may begin with number 1 again, as it
does after a week. The code answers to that by setting `last_update_id` to 0 with
every reply. `BotUpdates` gives every update to `Bot`: private messages with
their sender, and updates from groups, of which any effect is possible. Timers
do not run while a reply is processed, but the process may die between two
updates.

### MainLoop

`polls`, `poll_array`, `results`, `timers` and `to_emit` are the lists of
`pcx-main-context.c`; the lists are sets here, so the order in which results are
dispatched is any, and one operation of a callback (`Callback`) is a step:
adding, changing and removing a socket or a timer, and `curl_multi_socket_action`,
which may do any of that to the sockets of libcurl. `Loop` is the code of
`pcx_main_context_poll` between two callbacks. `held` is a history: the timers
that somebody has a pointer to. The signal handler writes to the pipe
(`Raise`) at any time. A result whose source is gone is `pcx_fatal`, as it is in
the code.

### Log

The main thread logs lines, sets the file, starts the thread and closes; the
thread waits for the condition, swaps the buffers and writes. What is done under
the mutex is one step, so the steps of the thread are those between locks:
`Wait`, `Swap`, `Write`, `Ignore`, `Leave`. Writing and flushing may fail.

### Incoming and Tls

`Incoming` reads a stream of bytes, in pieces as TCP delivers them and at most
as many as `read_buf` takes. A byte is a tuple: a letter that matters to the
parser, or a part of a frame. The states of `pcx-ws-parser.c` are the operators
of its `case`s, the rest of the buffer goes to `process_frames`. The reference
definition (`Message`, `Stops`, `PayloadsOf`) looks at the whole stream at once;
`PiecesDontMatter` says that both agree after every read. `Tls` is the other
side of the same socket: `SSL_read` and `SSL_write` may want the socket to be
ready for the opposite, and OpenSSL (external) remembers the size of a write
that it could not do.

### Dictionary and Config

The tools and their readers, one after the other: `WriteNodes` is `write_nodes`
with the sharing of equal parts and the offsets of variable length, `ContainsWord`
and `Iterate` are those of `pcx-dictionary.c`, `MakeSyllables` is
`make-syllables.c`, and `Search` is how `pcx-syllabary.c` picks one. The reference is the set of words, and
the number of words a syllable is in. `Config` feeds the bytes of a file to the
machine of `pcx-key-value.c` and its events to `pcx-config.c`; the reference
reads line by line and says which files are accepted, with which options.

### The games

Each game is one record, `game`, whose fields are those of its structure, and
two kinds of step: `Press(p)`, all that a button or a message of a player can do
(`handle_callback_data` or `handle_message` with its early returns, and all the
calls until it returns), and `Timers`. The end of a game is a timer of 0 ms in
the code (`game_over_source`), so `ending` and `over` differ, and presses in
between are steps, too; in games whose counters would grow in that window `late`
bounds them. Decks are drawn from without an order: the card on top is chosen
when it is drawn. What a player sees is left out.

`Games` has the nine games other than Coup with all their numbers as parameters.
The operator `Setup` of each says what its code takes for granted of them, and
`Setups`, the one assumption of `Games`, is their conjunction: a round of Six
deals `NPlayers * HandSize + NRows` of the `NCards` cards, and more than the rows
have room for; Snitch deals `BaseCards` to everybody and shows a heist from what
is left of `NBaseRoles * CardsPerRole`; a throw of Zombie Dice can be made as long
as nobody is dead yet; Werewolf has three to ten players (`min_players`,
`max_players`), and an earlier game whose buttons are still in the chats had
`Former`, as many or more; Fox has two players by its rules, and after both hands
and the trump there is a card to draw; Wordparty has more lives at most than at
the start and keeps its letters in the 32 bits of a word. The constants of the code
satisfy all of them, and TLC evaluates them for the instances of `MCGames`.

`Coup` is a stack of questions: `Press` goes to the entry on top, whose handler
may answer it, push others or change the players; `DoIdle` runs the idle
functions as the code does, until nothing more is done.

## Runs

| run | instance | shows |
| --- | --- | --- |
| `SessionResume` | one page with three sockets, two players, a buffer of one frame, one event | exact resumption at every point where a socket can break, also with a second player made by a page that lost its first; offers can be joined |
| `SessionTwoPages` | two pages, messages of two units and other frames of one in a buffer of two, one event | each page skips the private messages of the other; names come first; implements `Stream` |
| `SessionPressure` | one page with two sockets, messages as large as the buffer, two values, a pong, two events | no lost wake-up, data dirty or current |
| `WebServerGames` | three sockets, a game of one or two players, each socket with one request that changes nothing, a listening socket that may be lost | counts, offers, departures and silence |
| `BotGames` | four users, two groups, a secret game for two and an open one for one to three, timeouts of one and two units, fair | the registry of games, ids over crashes |
| `Games` | every game with two to four players and a small deck, Coup in two instances, fair; in Werewolf also the buttons of a larger game | nothing is lost on the table and it never lacks a card (`TablesSuffice`), who is asked can answer, verdicts are right, games end; only an old button of Werewolf can take a card or stop the process |
| `Web` | one page with two sockets and one event; two sockets on two listening sockets with one descriptor; some 700 streams of bytes; lists of up to four words; some 3100 files; fair | pages catch up, everybody is accepted, all is freed, what is read is what was written |
| `Process` | chats of four and two messages, a command, two messages in three units of time; three updates, two to a reply, two lost requests, one death; four lines of log; three sockets, two timers and a signal; a write buffer of two units under TLS; fair | rate, order and delivery in both directions, ids over crashes, the log is whole, the loop is sound and goes on, retries are the same |
| `SessionTwicePlayer` | one page, two sockets | finding 1 |
| `SessionTooLarge` | a message larger than the buffer, fair | finding 2 |
| `SessionAfterLeave` | a player who leaves with messages in the buffer | finding 3 |
| `CoupSurvivors` | Coup with an inspector, two players, fair | finding 4 |

Each property of a passing run has a mutant in `PROJECT.json`: a faulty variant
of one operator, written beside it in the module, under which TLC finds the
property violated.

### Why the bounds are enough

- `Session`: a resumption involves a socket that breaks, one that takes over,
  and for the duplicated player one more: three sockets. The buffer is compared
  with the frame that comes next, so sizes of one and two units in a buffer of
  one or two give an empty buffer, a full one, and a frame that does not fit in
  what is left. Each event of the game is independent of the others except
  through the log, the dirty bits and the buffer, and two events are the least
  that can overtake each other; `SessionPressure` has two, and joining adds
  messages of its own. `MaxEvents` bounds messages, updates and departures
  together. What is not reached: a page that resumes behind a private message of
  another player that is itself followed by a message for it needs two events
  and three sockets, and takes TLC too long.
- `WebServer`: three sockets so that two can be connected to one player while a
  third joins, and a request that changes nothing so that a client may be younger
  than its neighbours when the collector runs. An age is one tick: a timer that is
  due runs before the next tick but after any number of requests, so at every
  collection some are old and some are not. That descriptors run out is in `Web`,
  with two listening sockets and a single descriptor. Longer ages, two kinds of
  game and a least number of two players were run while the model was written,
  and take TLC from two to five minutes each.
- `Outbox` (in `Process`): a limit of two means that the first and the last
  message of a window differ; four messages for one chat make two windows; the
  other chat is needed to forget the first one. The period is not a multiple of
  the timer's unit, so the rounding shows. `MaxTime` only stops time from passing
  for nothing.
- `BotGames`: four users are the least for two games in which two play, and for
  a fourth who finds a game full. Nothing is cut off: the state is finite by
  itself. `Process`: with three updates and two to a reply, a reply can be
  full, partial or empty; one renumbering needs one update before and one after.
- `MainLoop`: one callback that changes one thing is enough to meet another
  result or another due timer of the same pass; a socket of the server, two of
  libcurl (only libcurl closes another's) and two timers. `Log`: with four lines
  both buffers can be full when the log is closed. `Tls`: a buffer of two units and
  three to say, so that it is filled and more is said while a write waits.
- `Incoming`: up to three bytes of any kind at the places of a request where they
  mean something, one request longer than a line may be and longer than the
  buffer; two frames of any of twelve kinds, or three of the kinds a fragmented
  message is made of. `Dictionary`: four of six words that share beginnings and
  ends; a digit of three values makes offsets of two and three digits. `Config`:
  three lines of any of twelve kinds, and three bytes of any kind in a line.
- `Games`: two to four players, the least in which a vote can be tied, a third
  player can doubt a claim, or somebody is left out of a turn; decks that run out
  and points that are reached within a few turns. A turn of Coup leaves nothing
  behind but cards and coins, so one or two turns from rich hands reach every
  question; `MaxTurns` stops it there. In Werewolf three players have
  the buttons of a game for four, and so can name one who is not there. `BrainMax`, `MessageMax` and `LateMax`
  bound counters that no decision depends on beyond the bound. The decks of
  Werewolf for three to ten players are checked as such (`DecksAreFair`), and so
  is the verdict for every assignment of cards to three players.

`CHECK_DEADLOCK FALSE` everywhere: with everything said and all sockets used up,
a bounded instance does stop.

### Fairness

- `Session` (in `Web` and `SessionTooLarge`): `poll` reports a request that has
  arrived, a socket that can be written, and an error, again and again until the
  callback deals with it; TCP delivers on a socket that lives; the page's event
  loop runs `onmessage` and `onclose`, and it opens a socket again after it lost
  one. The game, players and broken sockets are not fair. The last socket of a
  page does not break: the page gives up after ten attempts in a row, so no more
  can be promised.
- `WebServer` (in `Web`): time passes, timers that are due run, and a listening
  socket with something in its backlog is served. No request is fair.
- `Outbox` (in `Process`): time passes, timers run, and libcurl reports the end of
  every request. The last is an assumption: the handle has no `CURLOPT_TIMEOUT`,
  and a server that never answers would hold up every later message.
- `Bot`: time passes and a timer that is due runs. Updates: libcurl and
  Telegram get on with a request, and the timer that restarts it runs; failures
  and deaths are finitely many.
- `Log`: the thread is scheduled, and the main thread when it may join it.
- `MainLoop`: the code goes on except in `poll`, which may wait as long as
  nothing is ready and no timer is due; callbacks return; time passes again and
  again while `poll` waits.
- Games: timers run, and whoever is asked answers in the end: a card, a vote, a
  clue, the size of a heist. These are stated as `[]<>` of what the answer
  brings about, since one button may be answered by another press first. In
  Zombie Dice somebody who throws again and again stops at last (a strong
  fairness, since the button comes and goes); in Love Letter and The Fox in the
  Forest one of the buttons is pressed; in Coup the players press or the timer of
  the question runs. Nobody is made to win: where the rules let a game go on for
  ever, only its questions must end.

## Findings

1. `OnePlayerPerPage`. `doc/protocol.txt` says that a client whose connection is
   dropped can recover without creating a new player. When the socket breaks
   after the server has handled `NEW_PLAYER` and before the page has read
   `PLAYER_ID`, the page has nothing to recover with and joins again.
2. `CatchesUp`, with a message larger than `write_buf`. `write_messages` waits
   for room that never comes, and the page gets nothing more. The protocol says
   that the server continues sending from the point of resumption.
3. `NothingAfterLeave`. The protocol says that after `LEAVE` no further messages
   are sent to any connection of the player. Those in a write buffer are.

4. `SurvivorWins`, in Coup with an inspector. The help says that who remains
   alive wins. An inspection that is doubted wrongly goes on after the target has
   lost its last card for it: `do_accepted_inspect` asks a dead player which card to
   show, no button of that player is handled any more, and the game waits until
   the host gives it up.

What the models also show and no run is kept for:

- Between `end_game` and the timer of 0 ms buttons are still handled. A late card
  in The Fox in the Forest fails an assertion; a late card in Snitch runs
  `end_round` again; pressing twice in Love Letter discards a stale
  `pending_card` and may give a second heart; a second stop in Zombie Dice scores
  twice; a changed vote in Superfight and a late vote or guess in Chameleon score
  again. In Werewolf and Six a late button changes nothing. The properties of the
  games hold until the end of the game for this reason.
- `word_timeout_cb` of Wordparty picks a syllable before it takes the life, so
  `max_fail_count` still counts a player who has just died.
- `exchange_callback_data` of Coup does not look at who pressed the button: any
  player may choose the cards of another's exchange.
- In Werewolf, `handle_see_player_card`, `handle_rob_player_card` and
  `handle_swap_player_card` never compare the number on the button with
  `n_players`, as the handlers of the vote, of the drunk and of the lone werewolf
  do, and `process_callback` of `pcx-bot.c` passes on what a button says. The
  buttons of an earlier game for more players therefore work in this one. The
  robber or the troublemaker may so trade a card for the zeroed record of nobody, and
  it leaves the table; and when the first choice of the troublemaker is nobody,
  `send_target_choice` makes room for one button too few, writes one too many, and its
  assertion (line 514) ends the process. `CardsConserved` and `TurnsSound` say
  that both happen by such a button only, and `GamesEnd` that a game ends unless
  it was stopped in that way. No run is kept because no doc or test speaks of
  it. The model takes for granted that a button says what the program itself once
  put on one, for at most ten players, that assertions are compiled in and the
  button too many does no harm before they fail, and that the name of nobody, a
  null pointer given to `%s`, is printed as `(null)`, as glibc does.
- `pcx-werewolf-help.c` (74-75) says of the tanner that when he dies he wins alone;
  when a werewolf dies with him the code lets the villagers win, too
  (`VILLAGE_AND_TANNER_WIN`, `pcx-werewolf.c` 1915). `VerdictIsRight` accepts what
  the code does there, and says so.
- A final frame whose payload, with its header, does not fit `read_buf` closes
  the connection, although `PCX_PROTO_MAX_PAYLOAD_SIZE` allows it.
- `libcurl` may close a socket that has a result in the same pass; the loop then
  calls `pcx_fatal` (`FatalOnlyByCurl` says that nobody else can cause it).
- `fflush` may fail in the thread of the log without `had_error`: lines may be
  missing with nothing said.
- A comment of `make-syllables.c` speaks of the number of words with a syllable;
  every occurrence counts.

## Proofs

TLAPS checks the following for every value of the constants that satisfies the
named assumptions of the modules.

- `EnumerationProofs`: `Increasing(S)` lists every element of a finite set of
  naturals exactly once and in order. The position of an element is the number
  of elements up to it; that map is injective between sets of one size, hence
  onto, and its inverse is `Increasing`. No induction is needed. Conversely, a
  list that increases and has all of the set is `Increasing` of it.
- `SessionProofs`: `TypeCorrect`, `NeverLosesWakeup`, `OffersAreJoinable`,
  `NamesComeFirst`, `DataStayCoherent`, `NothingLostOrRepeated` and
  `StreamImplemented`. For the first three the invariant is `Inv`: the conversation is `Consistent`, every connection is
  `Healthy` with respect to it. The type alone is not inductive: that a cursor
  stays natural or that `left` holds players that exist needs the number of
  players a connection may point to, and that an offer can be joined needs that
  the player base still has everybody in it. `Healthy` is stated for one
  connection and one conversation, so that each operator (`SetPlayer`,
  `FillWriteBuf`, `Notified`, ...) has one lemma that says it returns healthy
  connections, and each action has one lemma that combines them.
  For the others it is `Inv` with `Linked` and `Delivered`. A socket is described
  by four things: its page, the frames on their way to it (the wire, then the
  write buffer), the connection at the other end and the request that waits
  there; `Piped` says what holds of the four. None of the three properties is
  inductive without the others. That data and names start from nothing again
  depends on whether the details are still on their way (`Introduced`), which
  depends on nobody having written before the request was read (`FirstRequest`).
  That all details on their way are of one player, and of no other page's
  (`Means`, `Is`), is what lets a page become a player in `Stream`.
  `Named` says that the names on their way are consecutive and end where the
  connection says, `Shown` that a datum is dirty, on its way, or shown,
  `Continued` that the messages on their way follow on what the page has, without
  a gap, up to the cursor. What a step has to show is `Stays`; writing takes
  frames from one list (`FramesDue`) and there is one lemma for what a part of
  that list can be, reading shifts the frames by one (`Shifted`), and a connection
  that is told of an event changes only its poll flag (`Same`).
  A page resumes with the number of messages it has, and the server skips as many
  of its player's: it lands where the page is because both count the same list
  (`SkipsWhatIsCounted`), unless the count has wrapped. So `NothingLostOrRepeated`
  and `StreamImplemented` are about a log shorter than `CountMod`, 65536 in the
  code; the names and the data do not depend on it. The refinement is step by
  step: what moves the conversation is speech (`MovesAreSpeech`), what a page
  reads is handed to it or makes it its player (`ReceiveIsHand`), and all else
  stutters.
- `WebServerProofs`: `TypeCorrect`, `CountsAreRight`, `StrangersMeet`,
  `RemovedOnce` and `SilenceEnds`, all from one invariant, `ServerInv`. A
  reference count is the size of a set: the clients that use a player, the
  players and clients that use a conversation. A handler changes one set by one
  element and one count by one, and a count of zero is an empty set. Players of a
  conversation have different numbers below its size, which is why the game is
  told once of each departure. The collectors are only sound together with their
  timers: a client's age and what is left on the collector's timer together stay
  below twice the largest age, and a player adds one more to that. There is no
  need for the number of sockets to be finite.
- `ProcessProofs`, outgoing: `KeepsToTheRate`, `QueueTypeCorrect`,
  `NeverIdleForNothing` and `EveryMessageInItsTurn`. The queue forgets messages that are old and whole
  chats that look dead, so its record is not the history. The invariant of the
  rate says that the record is the end of the history and that everything before
  it is old (`Covers`); times are in the order of the clock (`Ordered`). Dropping
  an old prefix keeps this, dropping a record whose last message is old keeps it
  because of the order, and a chat whose record is shorter than the limit may
  send because the message that is `Limit` places back is not in the record. For
  the others: all callers of `maybe_start_request` end in it, so it has one lemma
  for each property, with what its caller has changed already as parameters
  (`Sound`), and each caller shows that what it passes is sound. The delay is
  computed from what the queue remembers, the property is about what was sent:
  the record of a chat that has to wait begins with a message that is not old,
  and no later than the one the limit counts from (`LatelyBegins`). Only the
  first request can be a message, because the queue is asked only when there are
  no requests (`CommandsFollow`); so what curl was given, that request and the
  queue of the chat make up the messages in order (`InTurn`). A chat that
  `find_chat` has removed has nothing in its queue (`OthersAreEmpty`).
- `BotProofs`: `TypeCorrect`, `NobodyPlaysTwice`, `TimersHaveGames`,
  `GamesArePlayable`, `SecretsReachPlayers` and `NobodyIsForgotten`. All the
  properties of the registry are inductive together, once `file = known` is
  added. `Inv` puts them in terms of one game (`Sound`) and of two (`Apart`), so
  that one lemma says when a game may take the place of another (`UpdateKeeps`),
  one that a game may be removed, and each command has to show that the new game
  fits. Assumed: a type's least number of players is at least one and at most its
  largest.
- `ProcessProofs`, incoming: `NoUpdateIsLost`, `NoUpdateTwice` and
  `GamesAsDescribed`. The updates have the order in which people sent them and the numbers Telegram gives
  them, and these agree only on those Telegram still holds: that is the
  invariant, with what a reply is (`CutRight`: it begins at the first update of the
  offset, and what it leaves out comes later) and that the next reply continues
  it (`ReplyFollows`). `GamesAsDescribed` is the refinement: the process with its
  polling, its crashes and its restarts does to the games only what `Bot` says.
- `ProcessProofs`, the loop: `LoopIsSound`. The clock of the loop lags by no more than what
  has been spent since it was read, so a timer that is not due by that clock is
  late by no more than that; a timer that was due when poll returned has left the
  list before a callback may look for it, so it can only be removed, never lost.
- `ProcessProofs`, the log: `LogIsWhole`. The invariant says that the file, the buffer of the
  thread and the buffer of the main thread are, in this order, the lines that
  were logged since the last that was discarded, in order, and without a gap
  unless writing has failed; and who may be where (`Borders`): the buffer of the
  thread is empty unless it is writing, or a swap would hand old lines to the main
  thread, and nothing is in a buffer when the thread leaves, since closing forgets
  what is there. Each step only moves the borders between the three.
- `ProcessProofs`, the whole: `ProcessIsItsParts` and `ProcessTyped`. A step of
  `MCProcess` is one of a part, and the other parts stay as they are, so every
  behaviour is one of each part, and every theorem above holds of what the run
  checks. The types need more than themselves: that an update in a reply is one that was sent
  (`RepliesWereSent`), and that what was processed was (`ProcessedWasSent`).
- `ProcessProofs`, the sockets: `WritesAreTriedAgain`, for any size of the write
  buffer (`WriteBufAssumption`). What OpenSSL wants to see again is what
  `ssl_write_block_size` has, and the buffer holds at least as much, as long as a
  write waits (`WriteKept`). The code tries a write again in two cases only, when
  what it waits for is polled and ready, or when nothing waits and there is
  something to write. That these are the right two depends on the poll flags being
  those of the state (`FlagsKept`), and on `poll` reporting nothing that was not
  asked for.
- `SumProofs`: sums of a function over a finite set, from the fold of the community
  modules. The induction theorems of the library take an operator, which cannot be
  instantiated here; they are replaced by one lemma about sets of sets
  (`SetInduction`: a set of subsets of a finite set that has the empty set, and
  with every set of it the one with another element, has them all), and this by
  the cardinality of the sets. From it: a sum does not depend on the order, changes with one value
  by the difference, is monotonic, and is natural for natural values; a fibre
  (those who hold a card of a kind) gains or loses one element with each change of
  a value; the fibres of a function make up its domain.
- `CardProofs` and `GamesProofs`: `GamesTyped`, `GamesConserveCards`,
  `GamesTurnsAreSound` and `GamesVerdictsAreSound`, for all nine games, any number
  of players, any decks and any numbers that satisfy `Setups`. Each game has one
  inductive invariant, stated for a record, so that a lemma says of each operator
  of the game that it returns a record for which the invariant holds. What makes
  them inductive:
  - Six (`SixHolds`): hands, rows and chosen cards are disjoint sets of the cards,
    and everybody has as many cards as rounds are left, less the one he has
    chosen; the cards to be placed are in order, each chosen by a single player.
  - Love (`LoveHolds`): for each card, deck, hands, piles and the card set aside
    add up to the copies of the round. Hands are a fibre of `card`, so an
    elimination or an exchange is a change of one value or of two. Whoever has the
    turn is alive and has drawn (`LvTurn`). The card set aside is taken only when
    the deck is empty (`LvMid`), and then the round ends with that turn: so in a
    turn a prince always finds a card.
  - Fox (`FoxHolds`): six places are disjoint parts of the pack, and a hand has
    `FoxOwed` cards, one less when a card was played and one more when a five is
    being resolved: so whoever is asked has a card to play, and a five finds one
    in the deck (`FoxDeckLeft`).
  - Snitch (`SnitchHolds`): the same for bags of roles, with the cards of all
    players as a sum of sums, and what is left in a round for each player.
  - Zombie (`ZombieInv`): the dice in the box, on the table and rolled are those of
    the start, per kind and in all; only then can a throw be made whenever a
    player is not dead.
  - Werewolf (`WolfHolds`): the deck of every mode has as many cards as players and
    three more, also the one that is drawn at random; nobody wakes up who is not
    in the deck, hence in each phase at most one player is awaited, and the timer
    runs exactly when nobody is. The cards are counted over all ten records: a
    record of nobody is a villager until an old button trades with it (`stray`),
    and only after that can the choice of the troublemaker be miscounted. The
    verdict is by cases on the cards.
  - Superfight, Wordparty and Chameleon: their properties with what a late press
    may have changed; in Wordparty, that a player has all lives exactly when he
    has no letters left to collect (`WordpartyFull`).

Out of the prover's reach, and left to TLC:

- liveness (`CatchesUp`, `PageCatchesUp`, `EverybodyIsAccepted`, `EmptiesInTheEnd`,
  `EverythingArrives`, `QuietGamesEnd`, `GamesEnd`, `LoopGoesOn`);
- what is recursive over data: how many units a buffer uses is a `FoldLeft` over
  frames, and is not computed in a proof, only that it is some set of frames that
  is taken; and all of `ReadAsWritten`, which is what `Incoming`, `Dictionary` and
  `Config` compute, over the bounded inputs;
- `TablesSuffice`: Coup, whose operators are recursive (its stack runs until nothing
  more is done), and two sums that follow from fixed tables, that the piles of
  Love fit and that the decks of Werewolf are those of the help.

Every other invariant and action property of a run is proved.

## Not modelled

- The page's timers and its giving up; its rendering.
- The fields of the binary protocol (`pcx-proto.c`), SHA-1 and base64, UTF-8, the
  texts and their languages, formatting of JSON for Telegram: data without state.
- Addresses (`pcx-netaddress.c`, `pcx-listen-socket.c`), certificates and their
  password (`pcx-ssl-error.c`), containers (`pcx-list.c`, `pcx-buffer.c`,
  `pcx-slab.c`), and start-up, changing of user and turning into a daemon:
  straight lines or libraries.
- The tests, which are drivers of the games with expected messages.
- The wrap of the 16-bit count after 65536 messages: `CountMod` is in the model,
  with a value the bounds do not reach, and a hypothesis of the two theorems of
  `Session` that depend on it.
- A request refused for its syntax is a connection that fails, at the moment it
  arrives; the parser that goes on after `handle_button` has freed its client is
  listed as a hazard. So is a final frame with no payload.
- A write of the known ids that fails, on a disk that is full. `HOME` is set.

## Plan

What is left, in order:

1. The timers of the page, its keep-alive and its giving up, beside `Session`.
2. Proofs about `Coup`, with its stack as a recursive function in place of the
   recursive operators: that cards are conserved through nested questions.
3. A larger instance of `Session`, with a page that resumes behind a message of
   somebody else that is followed by one of its own.
