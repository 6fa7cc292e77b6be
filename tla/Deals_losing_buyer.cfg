SPECIFICATION Spec
CONSTANTS
    Buyers = {b1, b2}
    Seller = seller
    Subscribers = {b1, b2}
    Prices = {1}
    Requests = {r1}
    MaxOffers = 3
    MaxDecisions = 1
SYMMETRY Symmetry
INVARIANTS
    LosingBuyerTold
CHECK_DEADLOCK FALSE
