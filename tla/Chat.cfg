SPECIFICATION FairChatSpec
CONSTANTS
    Requests = {r1}
    MaxFailures = 1
    BuyerSockets = {b1, b2}
    SellerSockets = {s1}
    MaxMessages = 1
INVARIANTS
    ChatTypeOK
    RevokedIsClosed
    OpenSocketsHear
PROPERTIES
    RevocationReaches
    KeepsRoom
CHECK_DEADLOCK FALSE
