CONSTANTS
    Requests = {r1, r2}
    Sizes = {1, 2}
    MaxDocs = 2
    MaxBytes = 3
    MaxDecisions = 3
    MaxFailures = 1
SPECIFICATION Spec
INVARIANTS
    TypeOK
    StatusExplained
    RowsHaveFiles
    WithinQuota
    ReasonIsCurrent
    DecisionsChain
CHECK_DEADLOCK FALSE
