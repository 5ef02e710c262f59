SPECIFICATION Spec
CONSTANTS
    Peer = {}
    Client = {c1}
    Topic = {t1}
    MaxTopicSeq = 4
    MaxInFlight = 1
INVARIANT ConnectedClientsServed
CHECK_DEADLOCK FALSE
