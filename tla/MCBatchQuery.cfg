CONSTANTS
    MaxLine = 3
    MaxToken = 0
SPECIFICATION Spec
INVARIANTS
    QueriesAnswered
CHECK_DEADLOCK FALSE
