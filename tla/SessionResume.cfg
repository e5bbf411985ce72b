\* A page that needs three sockets resumes, with a lost player beside it.
SPECIFICATION Spec
CONSTANTS
    u1 = u1
    u2 = u2
    Clients <- OnePage
    MaxSockets <- ThreeSocketsEach
    MinPlayers = 2
    MaxPlayers = 2
    Data = {}
    v1 = v1
    v2 = v2
    Values = {v1}
    Unset = Unset
    MsgSizes = {1}
    BufSize = 1
    CountMod = 8
    MaxSaid = 1
    MaxChanges = 0
    MaxDepartures = 1
    MaxEvents = 1
    MaxPongs = 0
CHECK_DEADLOCK FALSE
INVARIANT TypeOK
INVARIANT PipelineExact
INVARIANT OfferedIsJoinable
