CONSTANTS
    MaxStatement = 2
    Call = {1, 2}
    RetryLimit = 2
    MaxSend = 2
SPECIFICATION SessionSpec
INVARIANTS
    SessionTypeOK
    EffectsAccounted
    SendsBounded
    ResultTellsEffect
PROPERTIES
    OnlyRepeatsComeLate
    ImplementsAtLeastOnce
    ImplementsBatch
    SessionEnds
CHECK_DEADLOCK FALSE
