\* Pongs, changing data and messages as large as the buffer compete for it.
SPECIFICATION Spec
CONSTANTS
    u1 = u1
    u2 = u2
    Clients <- OnePage
    MaxSockets <- TwoSocketsEach
    MinPlayers = 1
    MaxPlayers = 1
    Data = {0}
    v1 = v1
    v2 = v2
    Values = {v1, v2}
    Unset = Unset
    MsgSizes = {2}
    BufSize = 2
    CountMod = 8
    MaxSaid = 1
    MaxChanges = 2
    MaxDepartures = 1
    MaxEvents = 2
    MaxPongs = 1
CHECK_DEADLOCK FALSE
INVARIANT NoLostWakeup
INVARIANT SidebandCoherent
SYMMETRY Symmetry
