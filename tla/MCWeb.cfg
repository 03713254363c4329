CONSTANTS
    Request = {r1, r2, r3}
    Boot = Boot
    MaxItem = 2
SPECIFICATION WebSpec
INVARIANTS
    OpensUnderPeer
    NoCircleOfContexts
    HandlesInFlight
    ReplyTellsEffect
CHECK_DEADLOCK FALSE
SYMMETRY Symmetry
CONSTRAINT FewDisturbances
