SPECIFICATION Spec
CONSTANTS
    Requests = {r1, r2, r3}
    MaxFailures = 1
INVARIANTS
    TrailExplainsRow
    OnlyApprovalOpens
    SecondHalfDone
CHECK_DEADLOCK FALSE
