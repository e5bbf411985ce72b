\* Two players, whose private messages the other skips.
SPECIFICATION Spec
CONSTANTS
    u1 = u1
    u2 = u2
    Clients <- TwoPages
    MaxSockets <- OneSocketEach
    MinPlayers = 1
    MaxPlayers = 2
    Data = {0}
    v1 = v1
    v2 = v2
    Values = {v1}
    Unset = Unset
    MsgSizes = {2}
    BufSize = 2
    CountMod = 8
    MaxSaid = 1
    MaxChanges = 1
    MaxDepartures = 1
    MaxEvents = 1
    MaxPongs = 0
CHECK_DEADLOCK FALSE
INVARIANT NamesBeforeMessages
PROPERTY ImplementsStream
