SPECIFICATION FairSpec
CONSTANTS
    P2pID = {p1, p2}
    Self = self
    Width = 16
    ClientError = {5, 16}
INVARIANT NeverSelectedTwice
CHECK_DEADLOCK FALSE
