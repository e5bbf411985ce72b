\* Messages that the buffer held when the player left.
SPECIFICATION Spec
CONSTANTS
    u1 = u1
    u2 = u2
    Clients <- OnePage
    MaxSockets <- TwoSocketsEach
    MinPlayers = 1
    MaxPlayers = 1
    Data = {}
    v1 = v1
    v2 = v2
    Values = {}
    Unset = Unset
    MsgSizes = {1}
    BufSize = 2
    CountMod = 8
    MaxSaid = 0
    MaxChanges = 0
    MaxDepartures = 1
    MaxEvents = 1
    MaxPongs = 0
CHECK_DEADLOCK FALSE
PROPERTY NothingAfterLeave
