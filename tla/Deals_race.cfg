SPECIFICATION Spec
CONSTANTS
    Buyers = {b1, b2}
    Seller = seller
    Subscribers = {b1, b2}
    Prices = {1}
    Requests = {r1, r2}
    MaxOffers = 3
    MaxDecisions = 1
SYMMETRY Symmetry
INVARIANTS
    TypeOK
    OneActivePerPair
    CounterChain
    UnderOfferHasAccepted
    PriceOfADeal
    AuditAgrees
    TrailIsHistory
    OtherPartyTold
PROPERTIES
    OffersMoveForward
CHECK_DEADLOCK FALSE
