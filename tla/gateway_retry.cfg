SPECIFICATION FairSpec
CONSTANT P2pID = {p1, p2}
INVARIANTS
    SuccessIsDispatched
    AnsweredOnce
    FailureIsFinal
    SomebodyAnswers
PROPERTY Answered
CHECK_DEADLOCK FALSE
