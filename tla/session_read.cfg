SPECIFICATION ReadFairSpec
CONSTANTS
    Request = {1, 2}
    Timed = {1}
    Radix = 3
    OptionTypes = {5, 6}
    PeerMessage <- MCPeerMessage
    MaxOwn = 1
    Piece = {15}
INVARIANTS
    SessionTypeOK
    NoCallbackLost
    GotIsPrefix
    OnlyResponsesAnswer
    NothingLeftBehind
PROPERTIES
    TimedAreAnswered
    MessagesArrive
    StalledIsDropped
CHECK_DEADLOCK FALSE
