\* A page whose first socket breaks early becomes a second player.
SPECIFICATION Spec
CONSTANTS
    u1 = u1
    u2 = u2
    Clients <- OnePage
    MaxSockets <- TwoSocketsEach
    MinPlayers = 2
    MaxPlayers = 2
    Data = {}
    v1 = v1
    v2 = v2
    Values = {}
    Unset = Unset
    MsgSizes = {1}
    BufSize = 2
    CountMod = 8
    MaxSaid = 0
    MaxChanges = 0
    MaxDepartures = 0
    MaxEvents = 0
    MaxPongs = 0
CHECK_DEADLOCK FALSE
INVARIANT OnePlayerPerPage
