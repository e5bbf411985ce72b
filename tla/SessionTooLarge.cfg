\* A message larger than the write buffer.
SPECIFICATION FairSpec
CONSTANTS
    u1 = u1
    u2 = u2
    Clients <- OnePage
    MaxSockets <- OneSocketEach
    MinPlayers = 1
    MaxPlayers = 1
    Data = {}
    v1 = v1
    v2 = v2
    Values = {}
    Unset = Unset
    MsgSizes = {3}
    BufSize = 2
    CountMod = 8
    MaxSaid = 1
    MaxChanges = 0
    MaxDepartures = 0
    MaxEvents = 1
    MaxPongs = 0
CHECK_DEADLOCK FALSE
PROPERTY CatchesUp
