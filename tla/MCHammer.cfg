CONSTANTS
    Count = 5
    MaxSend = 3
SPECIFICATION Spec
INVARIANTS
    TypeOK
    CountsBetween
PROPERTIES
    GoodCatchesUp
CHECK_DEADLOCK FALSE
