SPECIFICATION Spec
CONSTANTS
    Buyers = {b1, b2}
    Seller = seller
    Subscribers = {b1, b2}
    Prices = {1}
    Requests = {r1}
    MaxOffers = 2
    MaxDecisions = 1
SYMMETRY Symmetry
INVARIANTS
    AtMostOneAccepted
CHECK_DEADLOCK FALSE
