\* The queue with two messages in three units of time, and four lines for the log; three
\* updates of which a reply holds two, two lost requests and one death; two timers of one
\* unit of time, and callbacks of one operation; a write buffer of two units.
SPECIFICATION ProcessSpec
CONSTANTS
    Parts = {"outbox", "log", "updates", "loop", "tls"}
    chat1 = chat1
    chat2 = chat2
    Chats <- TwoChats
    Limit = 2
    Period = 3
    Ms = 2
    MaxAsked <- FourAndTwo
    MaxCommands = 1
    MaxTime = 4
    MaxLines = 4
    Contents = {"u1", "u2", "group"}
    BatchSize = 2
    MaxUpdates = 3
    MaxFailures = 2
    MaxCrashes = 1
    Groups = {"g1"}
    Users = {"u1", "u2"}
    Types = {"cards"}
    MinPlayers <- Two
    MaxPlayers <- Two
    NeedsPrivate = {"cards"}
    HandlesMessage = {}
    Addresses = {1}
    GameTimeout = 1
    Conns = {"c1"}
    CurlSockets = {"k1", "k2"}
    MaxTimers = 2
    Delays = {1}
    MaxMoment = 1
    MaxSignals = 1
    MaxChanges = 1
    WriteBuf = 2
    MaxSaid = 3
CHECK_DEADLOCK FALSE
INVARIANT TypesOK
INVARIANT RateLimited
INVARIANT NothingLost
INVARIANT NeverIdle
INVARIANT ConfirmedIsDone
INVARIANT InOrderOnce
INVARIANT LogWhole
INVARIANT LoopSound
INVARIANT RetriesAreTheSame
PROPERTY EverythingArrives
PROPERTY LoopGoesOn
