SPECIFICATION Spec
CONSTANTS
    Requests = {r1, r2}
    MaxFailures = 0
INVARIANTS
    DecisionsAreFinal
CHECK_DEADLOCK FALSE
