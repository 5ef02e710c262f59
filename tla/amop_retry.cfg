SPECIFICATION FairSpec
CONSTANTS
    P2pID = {p1, p2, p3}
    Self = self
    Width = 16
    ClientError = {5, 16}
INVARIANTS
    TypeOK
    SuccessIsHandled
    AnsweredOnce
    TriesBounded
PROPERTY Answered
CHECK_DEADLOCK FALSE
