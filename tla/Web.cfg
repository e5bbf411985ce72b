\* The pages and the registry come to rest, and what is written is read.
SPECIFICATION WebSpec
CONSTANTS
    Parts = {"session", "server", "incoming", "dictionary", "config"}
    Clients <- OnePage
    MaxSockets <- TwoSockets
    MinPlayers = 1
    MaxPlayers = 1
    Data = {0}
    Values = {"v1"}
    Unset = "unset"
    MsgSizes = {1}
    BufSize = 1
    CountMod = 8
    MaxSaid = 1
    MaxChanges = 1
    MaxDepartures = 0
    MaxEvents = 1
    MaxPongs = 0
CHECK_DEADLOCK FALSE
INVARIANT ReadAsWritten
PROPERTY PageCatchesUp
PROPERTY EverybodyIsAccepted
PROPERTY EmptiesInTheEnd
