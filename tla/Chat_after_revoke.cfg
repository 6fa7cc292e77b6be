SPECIFICATION ChatSpec
CONSTANTS
    Requests = {r1}
    MaxFailures = 0
    BuyerSockets = {b1}
    SellerSockets = {s1}
    MaxMessages = 1
PROPERTIES
    OnlyMembersTalk
CHECK_DEADLOCK FALSE
