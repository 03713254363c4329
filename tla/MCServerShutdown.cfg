CONSTANTS
    Request = {r1, r2}
    Boot = Boot
    MaxItem = 1
SPECIFICATION Spec
PROPERTIES
    ShutdownStops
CHECK_DEADLOCK FALSE
