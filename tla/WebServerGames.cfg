\* Three sockets come and go; players start, leave and are collected.
SPECIFICATION Spec
CONSTANTS
    Conns = {c1, c2, c3}
    Listeners = {s1}
    Kinds = {coup}
    MinPlayers = 1
    MaxPlayers = 2
    MaxFds = 3
    MaxAge = 1
    MaxBytes = 1
    MaxBroken = 1
CHECK_DEADLOCK FALSE
INVARIANT TypeOK
INVARIANT NothingFreedInUse
INVARIANT OfferedIsJoinable
INVARIANT GoneToldOnce
INVARIANT SilenceIsBounded
SYMMETRY Symmetry
