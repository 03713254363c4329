CONSTANT
    MaxLine = 5
SPECIFICATION Spec
INVARIANTS
    NilMeansCommitted
CHECK_DEADLOCK FALSE
