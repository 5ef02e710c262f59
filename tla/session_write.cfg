SPECIFICATION FairSpec
CONSTANTS
    Sender = {s1, s2, s3}
    io = io
    MaxSend = 4
INVARIANTS
    OneWriteAtATime
    SomebodyWrites
PROPERTIES
    ImplementsChannel
    EventuallyWritten
CHECK_DEADLOCK FALSE
