\* Four users in two groups, a secret game for two and an open one for up
\* to three; the timeouts are one and two units of time.
SPECIFICATION FairSpec
CONSTANTS
    cards = cards
    words = words
    Groups = {g1, g2}
    Users = {u1, u2, u3, u4}
    Types <- TwoTypes
    MinPlayers <- TwoOrOne
    MaxPlayers <- TwoOrThree
    NeedsPrivate = {cards}
    HandlesMessage = {words}
    Addresses = {1, 2}
    GameTimeout = 1
CHECK_DEADLOCK FALSE
INVARIANT TypeOK
INVARIANT OneGameEach
INVARIANT TimersMatch
INVARIANT Playable
INVARIANT PlayersReachable
PROPERTY ForgetsNobody
PROPERTY QuietGamesEnd
