SPECIFICATION MCFairSpec
CONSTANTS
    e1 = e1
    e2 = e2
    p1 = p1
    Endpoint = {e1, e2}
    Peer = {p1}
    Self = self
    PeerAt <- PeerAndSelf
    MaxSocket = 2
INVARIANTS
    TypeOK
    PendingIsHandshaking
    StopIsFinal
PROPERTIES
    NotPendingForever
    StaysConnected
    DiallingCeases
CHECK_DEADLOCK FALSE
