SYMMETRY Symmetry
SPECIFICATION Spec
CONSTANTS
    Users = {owner, buyer}
    Owner = owner
    Buyer = buyer
    Requests = {r1, r2}
    Filters <- MCFilters
    Facts <- MCFacts
    Letters <- MCLetters
    Newline = "nl"
    Casefold <- MCCasefold
    SqlLower <- MCSqlLower
    SearchCap = 1
    MaxRequests = 5
    MaxFailures = 1
INVARIANTS
    TypeOK
    CapOvershoot
    BrowserAgrees
PROPERTIES
    AlertedOnce
    FirstReadStands
CHECK_DEADLOCK FALSE
