CONSTANTS
    Request = {r1, r2}
    Boot = Boot
    MaxItem = 1
SPECIFICATION Spec
INVARIANTS
    TypeOK
    AppOutlivesHandlers
    CleanReturn
    OneShutdownAnswered
PROPERTIES
    StopEnds
    HandlersEnd
CHECK_DEADLOCK FALSE
