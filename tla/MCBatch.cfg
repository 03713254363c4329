CONSTANTS
    MaxLine = 5
    MaxToken = 6
SPECIFICATION Spec
INVARIANTS
    TypeOK
    StatementsWhole
    TransactionsWhole
    DisciplinedGoesOn
    CleanTextRemovesComments
CHECK_DEADLOCK FALSE
