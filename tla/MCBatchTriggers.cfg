CONSTANTS
    MaxLine = 3
    MaxToken = 0
SPECIFICATION Spec
INVARIANTS
    TriggersWhole
CHECK_DEADLOCK FALSE
