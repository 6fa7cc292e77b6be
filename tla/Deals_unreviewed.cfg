SPECIFICATION Spec
CONSTANTS
    Buyers = {b1, b2}
    Seller = seller
    Subscribers = {b1, b2}
    Prices = {1}
    Requests = {r1, r2}
    MaxOffers = 1
    MaxDecisions = 2
SYMMETRY Symmetry
INVARIANTS
    ContentReviewed
CHECK_DEADLOCK FALSE
