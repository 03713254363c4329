CONSTANTS
    Request = {r1, r2}
    Boot = Boot
    MaxItem = 2
SPECIFICATION WebSpec
INVARIANTS
    RowsComplete
CHECK_DEADLOCK FALSE
