CONSTANT
    MaxLine = 5
SPECIFICATION Spec
INVARIANTS
    TypeOK
    InFileOrder
    AllOrNothing
    NothingLeftPending
    LeftBehindOnlyOnError
PROPERTIES
    LoadReturns
    LinerEnds
CHECK_DEADLOCK FALSE
