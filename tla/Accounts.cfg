CONSTANTS
    Requests = {r1, r2}
    Keys = {address}
    Address = address
    FirstRoles = {"buyer"}
    ResetTTL = 3
    ConfirmTTL = 2
    Window = 2
    MaxAttempts = 1
    SweepEvery = 1
    MaxTime = 3
    MaxRequests = 3
    MaxFailures = 1
SYMMETRY Symmetry
SPECIFICATION Spec
INVARIANTS
    TypeOK
    MailIffDurable
    SingleUse
    MailBudget
PROPERTIES
    RecordsStand
CHECK_DEADLOCK FALSE
