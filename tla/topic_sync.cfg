SPECIFICATION FairSpec
CONSTANTS
    Peer = {p1}
    Client = {c1}
    Topic = {t1}
    MaxTopicSeq = 3
    MaxInFlight = 2
INVARIANTS
    NoSilentStaleness
    TopicsAreWatched
PROPERTIES
    TopicsConverge
    DeadClientsForgotten
CHECK_DEADLOCK FALSE
