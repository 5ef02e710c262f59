SPECIFICATION FairSpec
CONSTANTS
    Timer = timer
    NoThread = none
    Thread = {p1, p2, c1, timer}
    Pool = {p1, p2}
    Caller = {c1}
    Front = {f1, f2}
    MaxChanges = 2
    MaxCalls = 2
INVARIANTS
    UpdaterListIsCurrent
    SomebodyRuns
PROPERTIES
    OperationsEnd
    FrontsLearn
CHECK_DEADLOCK FALSE
