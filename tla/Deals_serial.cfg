SPECIFICATION SerialSpec
CONSTANTS
    Buyers = {b1, b2}
    Seller = seller
    Subscribers = {b1, b2}
    Prices = {1, 2}
    Requests = {r1, r2}
    MaxOffers = 2
    MaxDecisions = 2
SYMMETRY Symmetry
INVARIANTS
    AtMostOneAccepted
    DealHeld
    SoldOnce
    SweptClean
    ContentReviewed
PROPERTIES
    TerminalStays
    KeepsContract
CHECK_DEADLOCK FALSE
