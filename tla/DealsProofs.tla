---------------------------- MODULE DealsProofs ----------------------------
(***************************************************************************)
(* What Deals guarantees for any number of buyers, prices, requests in     *)
(* flight, offers and decisions.                                           *)
(***************************************************************************)
EXTENDS Deals, TLAPS, FiniteSetTheorems

USE DealsAssumption

----------------------------------------------------------------------------
(* The strengthening: what the proofs need beside the properties.           *)

\* Ids are given out in order, one for every row there is.
IdsInOrder == \A o \in OfferIds : offers[o].status = "none" <=> o > lastOffer

\* A row names a buyer and a price.
RowsHaveTerms ==
    \A o \in OfferIds : offers[o].status # "none" =>
        offers[o].buyer \in Buyers /\ offers[o].price \in Prices

\* A request in flight read a status its gates let pass.
GatesPassed ==
    \A r \in Requests :
        /\ req[r].op \in SellerOps \cup {"edit", "approve", "reject"} =>
              req[r].saw \in AllowedFrom(req[r].op)
        /\ req[r].op \in {"create", "counter"} => req[r].saw = "live"

----------------------------------------------------------------------------
(* Type correctness. *)

LEMMA TypeRead == TypeOK /\ Read => TypeOK'
<1> SUFFICES ASSUME TypeOK, Read PROVE TypeOK'
  OBVIOUS
<1>1. ASSUME NEW r \in Requests, NEW op \in Ops, NEW b \in Users, NEW o \in 0 .. MaxOffers,
             op = "counter" => o \in OfferIds, op = "create" => b \in Buyers,
             Start(r, op, b, o)
      PROVE  TypeOK'
  <2>1. [op |-> op, saw |-> status, buyer |-> b, offer |-> o] \in Request
    BY DEF TypeOK, Request
  <2>2. RequestsOK'
    BY <1>1, <2>1 DEF TypeOK, RequestsOK, Start
  <2> QED
    BY <1>1, <2>2 DEF TypeOK, Start, listingVars, offerVars, trailVars
<1>2. ASSUME NEW r \in Requests, NEW op \in SellerOps \cup {"edit", "approve", "reject"},
             LifecycleRead(r, op)
      PROVE  TypeOK'
  BY <1>1, <1>2 DEF LifecycleRead, Ops, SellerOps, Users
<1>3. ASSUME NEW r \in Requests, NEW b \in Buyers, CreateRead(r, b)
      PROVE  TypeOK'
  BY <1>1, <1>3 DEF CreateRead, Ops, Users
<1>4. ASSUME NEW r \in Requests, NEW o \in OfferIds, CounterRead(r, o)
      PROVE  TypeOK'
  <2>1. offers[o].buyer \in Users /\ o \in 0 .. MaxOffers
    BY DEF TypeOK, Offer, OfferIds
  <2> QED
    BY <1>1, <1>4, <2>1 DEF CounterRead, Ops
<1> QED
  BY <1>2, <1>3, <1>4 DEF Read

LEMMA CounterInFlight ==
    ASSUME NEW r \in Requests, TypeOK, CounterWrite(r)
    PROVE  /\ req[r].offer \in OfferIds
           /\ lastOffer + 1 \in OfferIds
           /\ lastOffer \in Nat
<1>1. req[r].op = "counter" /\ lastOffer < MaxOffers
  BY DEF CounterWrite, AnswerOffer
<1>2. req[r].offer \in OfferIds
  BY <1>1 DEF TypeOK, RequestsOK
<1> QED
  BY <1>1, <1>2 DEF TypeOK, OfferIds

LEMMA TypeWrite == ASSUME NEW r \in Requests
                   PROVE  TypeOK /\ Write(r) => TypeOK'
<1> SUFFICES ASSUME TypeOK, Write(r) PROVE TypeOK'
  OBVIOUS
<1>1. Idle \in Request
  BY DEF Idle, Request, ListingStatus, Users
<1>2. Done(r) => RequestsOK'
  BY <1>1 DEF Done, TypeOK, RequestsOK, Idle
<1>3. CASE TransitionWrite(r)
  BY <1>2, <1>3 DEF TransitionWrite, TypeOK, ListingStatus, SellerOps, offerVars, trailVars
<1>4. CASE EditWrite(r)
  BY <1>2, <1>4 DEF EditWrite, SentBack, TypeOK, ListingStatus, offerVars, trailVars
<1>5. ASSUME NEW to \in {"live", "rejected"}, NEW action \in {"approved", "rejected"},
             Decide(r, to, action)
      PROVE  /\ status' \in ListingStatus
             /\ log' \in [ListingAction -> Nat]
             /\ RequestsOK'
             /\ UNCHANGED <<finalPrice, offers, lastOffer, events, notes>>
  <2>1. [req[r] EXCEPT !.op = "announce", !.saw = to] \in Request
    BY DEF TypeOK, RequestsOK, Request, ListingStatus
  <2>2. RequestsOK'
    BY <1>5, <2>1 DEF Decide, TypeOK, RequestsOK
  <2> QED
    BY <1>5, <2>2 DEF Decide, TypeOK, ListingStatus, ListingAction, offerVars
<1>6. CASE ApproveWrite(r)
  BY <1>5, <1>6 DEF ApproveWrite, TypeOK
<1>7. CASE RejectWrite(r)
  BY <1>5, <1>7 DEF RejectWrite, TypeOK
<1>8. CASE CreateWrite(r)
  <2> DEFINE id == lastOffer + 1
             row(p) == [buyer |-> req[r].buyer, by |-> "buyer",
                        status |-> "submitted", price |-> p, parent |-> 0]
  <2>1. id \in OfferIds
    BY <1>8 DEF CreateWrite, InsertOffer, TypeOK, OfferIds
  <2>2. PICK p \in Prices :
          /\ offers' = [offers EXCEPT ![id] = row(p)]
          /\ lastOffer' = id
          /\ events' = events \cup {Event(id, "submitted", row(p).buyer)}
          /\ notes' = notes \cup {Note(Recipient(row(p), "submitted"), "submitted", id)}
    BY <1>8 DEF CreateWrite, InsertOffer
  <2>3. row(p) \in Offer
    BY DEF TypeOK, RequestsOK, Request, Offer, OfferStatus
  <2>4. Event(id, "submitted", row(p).buyer) \in OfferEvent
    BY <2>1, <2>3 DEF Event, OfferEvent, OfferAction, Offer
  <2>5. Recipient(row(p), "submitted") \in Users
    BY <2>3 DEF Recipient, CounterpartyOf, ProposerOf, Users, Offer
  <2>6. Note(Recipient(row(p), "submitted"), "submitted", id) \in Notification
    BY <2>1, <2>5 DEF Note, Notification, OfferAction, OfferIds
  <2> QED
    BY <1>2, <1>8, <2>1, <2>2, <2>3, <2>4, <2>6
    DEF CreateWrite, InsertOffer, TypeOK, listingVars, OfferIds
<1>9. CASE CounterWrite(r)
  <2> DEFINE o  == req[r].offer
             id == lastOffer + 1
             actor == CounterpartyOf(offers[o])
             child(p) == [buyer |-> offers[o].buyer,
                          by |-> IF offers[o].by = "buyer" THEN "seller" ELSE "buyer",
                          status |-> "submitted", price |-> p, parent |-> o]
  <2>1. id \in OfferIds /\ o \in OfferIds
    BY <1>9, CounterInFlight
  <2>2. PICK p \in Prices :
          /\ offers' = [offers EXCEPT ![o].status = "countered", ![id] = child(p)]
          /\ notes' = notes \cup {Note(Recipient(child(p), "countered"), "countered", id)}
    BY <1>9 DEF CounterWrite, AnswerOffer
  <2>3. actor \in Users /\ child(p) \in Offer
    BY <2>1 DEF TypeOK, Offer, OfferStatus, CounterpartyOf, Users, OfferIds
  <2>5. [offers[o] EXCEPT !.status = "countered"] \in Offer
    BY <2>1 DEF TypeOK, Offer, OfferStatus
  <2>6. offers' \in [OfferIds -> Offer]
    BY <2>1, <2>2, <2>3, <2>5 DEF TypeOK
  <2>7. events' = events \cup {Event(o, "countered", actor), Event(id, "submitted", actor)}
    BY <1>9 DEF CounterWrite, AnswerOffer
  <2>8. events' \subseteq OfferEvent
    BY <2>1, <2>3, <2>7 DEF TypeOK, Event, OfferEvent, OfferAction
  <2>9. Recipient(child(p), "countered") \in Users
    BY <2>3 DEF Recipient, CounterpartyOf, ProposerOf, Users, Offer
  <2>10. notes' \subseteq Notification
    BY <2>1, <2>2, <2>9 DEF TypeOK, Note, Notification, OfferAction, OfferIds
  <2>11. lastOffer' = id /\ RequestsOK' /\ UNCHANGED <<listingVars, log>>
    BY <1>2, <1>9 DEF CounterWrite, AnswerOffer
  <2> QED
    BY <2>1, <2>6, <2>8, <2>10, <2>11 DEF TypeOK, listingVars, OfferIds
<1> QED
  BY <1>3, <1>4, <1>6, <1>7, <1>8, <1>9 DEF Write

LEMMA TypeSwap == TypeOK /\ Swap => TypeOK'
<1> SUFFICES ASSUME TypeOK, Swap PROVE TypeOK'
  OBVIOUS
<1>1. ASSUME NEW o \in OfferIds, NEW to \in OfferStatus
      PROVE  [offers[o] EXCEPT !.status = to] \in Offer
  BY DEF TypeOK, Offer
<1>2. ASSUME NEW o \in OfferIds
      PROVE  ProposerOf(offers[o]) \in Users /\ CounterpartyOf(offers[o]) \in Users
  BY DEF ProposerOf, CounterpartyOf, TypeOK, Offer, Users
<1>3. ASSUME NEW o \in OfferIds, NEW action \in OfferAction
      PROVE  Note(Recipient(offers[o], action), action, o) \in Notification
  BY <1>2 DEF Recipient, Note, Notification, OfferIds
<1>4. ASSUME NEW o \in OfferIds, NEW action \in OfferAction, NEW u \in Users
      PROVE  Event(o, action, u) \in OfferEvent /\ Note(u, action, o) \in Notification
  BY DEF Event, OfferEvent, Note, Notification, OfferIds
<1>5. ASSUME NEW o \in OfferIds, AcceptOffer(o) PROVE TypeOK'
  <2> DEFINE actor == CounterpartyOf(offers[o])
             siblings == Submitted \ {o}
  <2>1. siblings \subseteq OfferIds
    BY DEF Submitted
  <2>2. offers' \in [OfferIds -> Offer]
    <3>1. \A x \in OfferIds : /\ [offers[x] EXCEPT !.status = "accepted"] \in Offer
                              /\ [offers[x] EXCEPT !.status = "declined"] \in Offer
                              /\ offers[x] \in Offer
      BY <1>1 DEF TypeOK, OfferStatus
    <3> QED
      BY <1>5, <3>1 DEF AcceptOffer, Siblings
  <2>3. events' \subseteq OfferEvent
    <3>1. \A x \in OfferIds : /\ Event(x, "accepted", actor) \in OfferEvent
                              /\ Event(x, "auto_declined", actor) \in OfferEvent
      BY <1>2, <1>4 DEF OfferAction
    <3>2. events' = events \cup {Event(o, "accepted", actor)} \cup
                    {Event(s, "auto_declined", actor) : s \in siblings}
      BY <1>5 DEF AcceptOffer, Siblings
    <3> HIDE DEF actor, siblings
    <3> QED
      BY <2>1, <3>1, <3>2 DEF TypeOK
  <2>4. notes' \subseteq Notification
    <3>1. \A x \in OfferIds :
            /\ Note(Recipient(offers[x], "accepted"), "accepted", x) \in Notification
            /\ Note(Recipient(offers[x], "auto_declined"), "auto_declined", x) \in Notification
      BY <1>3 DEF OfferAction
    <3>2. notes' = notes \cup {Note(Recipient(offers[o], "accepted"), "accepted", o)} \cup
                   {Note(Recipient(offers[s], "auto_declined"), "auto_declined", s) :
                        s \in siblings}
      BY <1>5 DEF AcceptOffer, Siblings
    <3> HIDE DEF siblings
    <3> QED
      BY <2>1, <3>1, <3>2 DEF TypeOK
  <2>5. status' \in ListingStatus
    BY <1>5 DEF AcceptOffer, Siblings, ListingStatus
  <2> QED
    BY <1>5, <2>2, <2>3, <2>4, <2>5 DEF AcceptOffer, Siblings, TypeOK, RequestsOK
<1>6. ASSUME NEW o \in OfferIds, NEW to \in {"declined", "withdrawn"},
             NEW u \in Users, Resolve(o, to, u)
      PROVE  TypeOK'
  <2>1. to \in OfferStatus /\ to \in OfferAction
    BY DEF OfferStatus, OfferAction
  <2>2. offers' \in [OfferIds -> Offer]
    BY <1>1, <1>6, <2>1 DEF Resolve, Settle, TypeOK
  <2> QED
    BY <1>3, <1>4, <1>6, <2>1, <2>2 DEF Resolve, Settle, TypeOK, RequestsOK, listingVars
<1>7. ASSUME NEW to \in {"sold", "live"}, NEW offerTo \in {"completed", "lapsed"},
             NEW action \in {"sold", "fell_through"}, ResolveDeal(to, offerTo, action)
      PROVE  TypeOK'
  <2>1. PICK o \in Accepted :
          /\ offers' = [offers EXCEPT ![o].status = offerTo]
          /\ finalPrice' = IF to = "sold" THEN offers[o].price ELSE finalPrice
          /\ events' = events \cup {Event(o, offerTo, Seller)}
          /\ notes' = notes \cup {Note(offers[o].buyer, offerTo, o)}
    BY <1>7 DEF ResolveDeal, SalePrice
  <2>2. o \in OfferIds /\ offerTo \in OfferStatus /\ offerTo \in OfferAction
    BY <2>1 DEF Accepted, OfferStatus, OfferAction
  <2>3. offers[o].buyer \in Users /\ offers[o].price \in Prices \cup {0} /\ Seller \in Users
    BY <2>2 DEF TypeOK, Offer, Users
  <2>4. offers' \in [OfferIds -> Offer]
    BY <1>1, <2>1, <2>2 DEF TypeOK
  <2>5. log' \in [ListingAction -> Nat]
    BY <1>7 DEF ResolveDeal, SalePrice, TypeOK, ListingAction
  <2>6. status' \in ListingStatus
    BY <1>7 DEF ResolveDeal, SalePrice, ListingStatus
  <2> QED
    BY <1>4, <1>7, <2>1, <2>2, <2>3, <2>4, <2>5, <2>6 DEF ResolveDeal, SalePrice, TypeOK, RequestsOK
<1> QED
  BY <1>2, <1>5, <1>6, <1>7 DEF Swap, DeclineOffer, WithdrawOffer, MarkSold, Relist

LEMMA TypeFinish == TypeOK /\ Finish => TypeOK'
<1> SUFFICES ASSUME TypeOK, NEW r \in Requests, Announce(r) \/ RequestEnds(r)
             PROVE  TypeOK'
  BY DEF Finish
<1>1. Idle \in Request
  BY DEF Idle, Request, ListingStatus, Users
<1>2. CASE Announce(r)
  <2>1. /\ Note(Seller, "approved", 0) \in Notification
        /\ Note(Seller, "rejected", 0) \in Notification
        /\ \A b \in Subscribers : Note(b, "listing_matched", 0) \in Notification
    BY DEF Note, Notification, Users
  <2>2. notes' \subseteq Notification
    BY <1>2, <2>1 DEF Announce, TypeOK
  <2> QED
    BY <1>1, <1>2, <2>2 DEF Announce, Done, TypeOK, RequestsOK, Idle, listingVars, offerVars
<1>3. CASE RequestEnds(r)
  BY <1>1, <1>3 DEF RequestEnds, TypeOK, RequestsOK, Idle, listingVars, offerVars, trailVars
<1> QED
  BY <1>2, <1>3

LEMMA TypeInit == Init => TypeOK
<1> SUFFICES ASSUME Init PROVE TypeOK
  OBVIOUS
<1>1. NoOffer \in Offer /\ Idle \in Request
  BY DEF NoOffer, Offer, Idle, Request, ListingStatus, Users
<1>2. RequestsOK
  BY <1>1 DEF Init, RequestsOK, Idle
<1>3. /\ offers \in [OfferIds -> Offer]
      /\ log \in [ListingAction -> Nat]
  BY <1>1 DEF Init
<1>4. events \subseteq OfferEvent /\ notes \subseteq Notification
  BY DEF Init
<1>5. status \in ListingStatus /\ publishedAt \in Nat /\ reviewed \in BOOLEAN
  BY DEF Init, ListingStatus
<1>6. finalPrice \in Prices \cup {0} /\ lastOffer \in 0 .. MaxOffers
  BY DEF Init
<1> QED
  BY <1>2, <1>3, <1>4, <1>5, <1>6 DEF TypeOK

LEMMA TypeStep == TypeOK /\ [Next]_vars => TypeOK'
<1>1. TypeOK /\ UNCHANGED vars => TypeOK'
  BY DEF TypeOK, RequestsOK, vars, listingVars, offerVars, trailVars
<1> QED
  BY <1>1, TypeRead, TypeWrite, TypeSwap, TypeFinish DEF Next

\* Every behaviour of the code keeps its rows and requests well formed.
THEOREM TypeCorrect == Spec => []TypeOK
  BY TypeInit, TypeStep, PTL DEF Spec
----------------------------------------------------------------------------
(* What the steps do to the offer table, whatever else they do. *)

LifecycleWrite(r) ==
    TransitionWrite(r) \/ EditWrite(r) \/ ApproveWrite(r) \/ RejectWrite(r)

LEMMA LifecycleStatus ==
    ASSUME NEW r \in Requests, LifecycleWrite(r)
    PROVE  /\ UNCHANGED <<offers, lastOffer>>
           /\ status' = "under_offer" => status = "under_offer"
<1>1. CASE TransitionWrite(r)
  BY <1>1 DEF TransitionWrite, SellerOps, offerVars
<1>2. CASE EditWrite(r)
  BY <1>2 DEF EditWrite, SentBack, offerVars
<1>3. CASE ApproveWrite(r)
  BY <1>3 DEF ApproveWrite, Decide, offerVars
<1>4. CASE RejectWrite(r)
  BY <1>4 DEF RejectWrite, Decide, offerVars
<1> QED
  BY <1>1, <1>2, <1>3, <1>4 DEF LifecycleWrite

\* A row moves to another status and keeps its terms.
Moved(x, to) ==
    /\ offers'[x] = [offers[x] EXCEPT !.status = to]
    /\ offers'[x].status = to
    /\ offers'[x].buyer = offers[x].buyer
    /\ offers'[x].price = offers[x].price

LEMMA MovedRow ==
    ASSUME TypeOK, NEW x \in OfferIds, NEW to,
           offers'[x] = [offers[x] EXCEPT !.status = to]
    PROVE  Moved(x, to)
<1>1. offers[x] \in Offer
  BY DEF TypeOK
<1>2. PICK b, d, s, c, e : offers[x] = [buyer |-> b, by |-> d, status |-> s, price |-> c, parent |-> e]
  BY <1>1 DEF Offer
<1> QED
  BY <1>2 DEF Moved

\* Steps that leave the offer table and the status alone.
LEMMA QuietSteps ==
    ASSUME Read \/ Finish
    PROVE  UNCHANGED <<offers, lastOffer, listingVars>>
<1>1. ASSUME NEW r, NEW op, NEW b, NEW o, Start(r, op, b, o)
      PROVE  UNCHANGED <<offers, lastOffer, listingVars>>
  BY <1>1 DEF Start, offerVars
<1>2. ASSUME Read PROVE UNCHANGED <<offers, lastOffer, listingVars>>
  BY <1>1, <1>2 DEF Read, LifecycleRead, CreateRead, CounterRead
<1>3. ASSUME NEW r \in Requests, Announce(r) \/ RequestEnds(r)
      PROVE  UNCHANGED <<offers, lastOffer, listingVars>>
  BY <1>3 DEF Announce, RequestEnds, offerVars
<1> QED
  BY <1>2, <1>3 DEF Finish

\* One row is added, of a buyer with no open offer but the one it answers.
LEMMA CreateRows ==
    ASSUME NEW r \in Requests, TypeOK, CreateWrite(r)
    PROVE  /\ lastOffer + 1 \in OfferIds
           /\ ActiveOf(req[r].buyer) = {}
           /\ UNCHANGED listingVars
           /\ lastOffer' = lastOffer + 1
           /\ offers'[lastOffer + 1].status = "submitted"
           /\ offers'[lastOffer + 1].buyer = req[r].buyer
           /\ req[r].buyer \in Buyers
           /\ offers'[lastOffer + 1].price \in Prices
           /\ \A x \in OfferIds : x # lastOffer + 1 => offers'[x] = offers[x]
<1>1. req[r].buyer \in Buyers
  BY DEF CreateWrite, InsertOffer, TypeOK, RequestsOK
<1> QED
  BY <1>1 DEF CreateWrite, InsertOffer, TypeOK, OfferIds

LEMMA CounterRows ==
    ASSUME NEW r \in Requests, TypeOK, IdsInOrder, CounterWrite(r)
    PROVE  \E o \in OfferIds :
           /\ o # lastOffer + 1
           /\ o = req[r].offer
           /\ offers[o].status = "submitted"
           /\ lastOffer + 1 \in OfferIds
           /\ ActiveOf(offers[o].buyer) \subseteq {o}
           /\ UNCHANGED listingVars
           /\ lastOffer' = lastOffer + 1
           /\ Moved(o, "countered")
           /\ offers'[lastOffer + 1].status = "submitted"
           /\ offers'[lastOffer + 1].buyer = offers[o].buyer
           /\ offers'[lastOffer + 1].price \in Prices
           /\ \A x \in OfferIds \ {o, lastOffer + 1} : offers'[x] = offers[x]
<1> DEFINE o == req[r].offer
           id == lastOffer + 1
<1>1. o \in OfferIds /\ id \in OfferIds /\ lastOffer \in Nat
  BY CounterInFlight
<1>2. offers[o].status = "submitted"
  BY DEF CounterWrite, AnswerOffer
<1>3. o # id
  BY <1>1, <1>2 DEF IdsInOrder, OfferIds
<1>4. PICK p \in Prices :
        offers' = [offers EXCEPT ![o].status = "countered",
                                 ![id] = [buyer |-> offers[o].buyer,
                                          by |-> IF offers[o].by = "buyer"
                                                 THEN "seller" ELSE "buyer",
                                          status |-> "submitted", price |-> p,
                                          parent |-> o]]
  BY DEF CounterWrite, AnswerOffer
<1>5. /\ offers'[o] = [offers[o] EXCEPT !.status = "countered"]
      /\ offers'[id] = [buyer |-> offers[o].buyer,
                        by |-> IF offers[o].by = "buyer" THEN "seller" ELSE "buyer",
                        status |-> "submitted", price |-> p, parent |-> o]
      /\ \A x \in OfferIds \ {o, id} : offers'[x] = offers[x]
  BY <1>1, <1>3, <1>4 DEF TypeOK
<1>6. /\ ActiveOf(offers[o].buyer) \subseteq {o}
      /\ UNCHANGED listingVars
      /\ lastOffer' = id
  BY DEF CounterWrite, AnswerOffer
<1>7. Moved(o, "countered")
  BY <1>1, <1>5, MovedRow
<1>8. /\ offers'[id].status = "submitted"
      /\ offers'[id].buyer = offers[o].buyer
      /\ offers'[id].price \in Prices
  BY <1>5
<1> QED
  BY <1>1, <1>2, <1>3, <1>5, <1>6, <1>7, <1>8

LEMMA AcceptRows ==
    ASSUME NEW o \in OfferIds, TypeOK, AcceptOffer(o)
    PROVE  /\ offers[o].status = "submitted"
           /\ status = "live" /\ status' = "under_offer"
           /\ UNCHANGED <<finalPrice, lastOffer>>
           /\ Moved(o, "accepted")
           /\ \A x \in OfferIds \ {o} :
                IF offers[x].status = "submitted"
                THEN Moved(x, "declined")
                ELSE offers'[x] = offers[x]
<1>1. \A x \in OfferIds : x \in Submitted <=> offers[x].status = "submitted"
  BY DEF Submitted
<1>2. /\ offers'[o] = [offers[o] EXCEPT !.status = "accepted"]
      /\ \A x \in OfferIds \ {o} :
            IF offers[x].status = "submitted"
            THEN offers'[x] = [offers[x] EXCEPT !.status = "declined"]
            ELSE offers'[x] = offers[x]
  BY <1>1 DEF AcceptOffer, Siblings
<1> QED
  BY <1>2, MovedRow DEF AcceptOffer, Siblings

LEMMA ResolveRows ==
    ASSUME NEW o \in OfferIds, NEW to, NEW u, TypeOK, Resolve(o, to, u)
    PROVE  /\ offers[o].status = "submitted"
           /\ UNCHANGED <<listingVars, lastOffer>>
           /\ Moved(o, to)
           /\ \A x \in OfferIds \ {o} : offers'[x] = offers[x]
<1>1. offers' = [offers EXCEPT ![o].status = to]
  BY DEF Resolve, Settle
<1>2. offers'[o] = [offers[o] EXCEPT !.status = to]
  BY <1>1 DEF TypeOK
<1> QED
  BY <1>1, <1>2, MovedRow DEF Resolve, Settle, TypeOK

LEMMA DealRows ==
    ASSUME NEW to, NEW offerTo, NEW action, TypeOK, ResolveDeal(to, offerTo, action)
    PROVE  \E o \in OfferIds :
           /\ offers[o].status = "accepted"
           /\ status = "under_offer" /\ status' = to
           /\ UNCHANGED lastOffer
           /\ finalPrice' = IF to = "sold" THEN offers[o].price ELSE finalPrice
           /\ Moved(o, offerTo)
           /\ \A x \in OfferIds \ {o} : offers'[x] = offers[x]
<1>1. PICK o \in Accepted :
          /\ offers' = [offers EXCEPT ![o].status = offerTo]
          /\ finalPrice' = IF to = "sold" THEN offers[o].price ELSE finalPrice
  BY DEF ResolveDeal, SalePrice
<1>2. o \in OfferIds /\ offers[o].status = "accepted"
  BY DEF Accepted
<1>3. /\ offers'[o] = [offers[o] EXCEPT !.status = offerTo]
      /\ \A x \in OfferIds \ {o} : offers'[x] = offers[x]
  BY <1>1, <1>2 DEF TypeOK
<1> QED
  BY <1>1, <1>2, <1>3, MovedRow DEF ResolveDeal, SalePrice

----------------------------------------------------------------------------
(* The invariants of every schedule. *)

Inv == TypeOK /\ IdsInOrder /\ OneActivePerPair /\ UnderOfferHasAccepted

\* The two sets of open and accepted offers, as facts about single rows.
LEMMA SubmittedRows == \A x : x \in Submitted <=> x \in OfferIds /\ offers[x].status = "submitted"
  BY DEF Submitted

LEMMA AcceptedRows == \A x : x \in Accepted <=> x \in OfferIds /\ offers[x].status = "accepted"
  BY DEF Accepted

LEMMA InvInit == Init => Inv
<1> SUFFICES ASSUME Init PROVE Inv
  OBVIOUS
<1>1. IdsInOrder
  BY DEF Init, IdsInOrder, NoOffer, OfferIds
<1>2. OneActivePerPair
  BY DEF Init, OneActivePerPair, Submitted, NoOffer
<1>3. UnderOfferHasAccepted
  BY DEF Init, UnderOfferHasAccepted
<1> QED
  BY <1>1, <1>2, <1>3, TypeInit DEF Inv

LEMMA InvStep == Inv /\ [Next]_vars => Inv'
<1> SUFFICES ASSUME Inv, [Next]_vars PROVE Inv'
  OBVIOUS
<1> USE DEF Inv
<1>0. TypeOK'
  BY TypeStep
<1> DEFINE Rest == IdsInOrder' /\ OneActivePerPair' /\ UnderOfferHasAccepted'
<1>1. ASSUME UNCHANGED <<offers, lastOffer>>,
             status' = "under_offer" => status = "under_offer"
      PROVE  Rest
  BY <1>1 DEF IdsInOrder, OneActivePerPair, UnderOfferHasAccepted, Submitted, Accepted
<1>2. ASSUME NEW r \in Requests, CreateWrite(r) PROVE Rest
  <2> DEFINE id == lastOffer + 1
  <2>1. \A x \in OfferIds : offers'[x].status = "none" <=> x > id
    BY <1>2, CreateRows DEF IdsInOrder, OfferIds, TypeOK
  <2>2. OneActivePerPair'
    BY <1>2, CreateRows, SubmittedRows DEF OneActivePerPair, Submitted, ActiveOf
  <2>3. \A o \in Accepted : o \in Accepted'
    BY <1>2, CreateRows DEF IdsInOrder, Accepted, OfferIds, TypeOK
  <2> QED
    BY <1>2, <2>1, <2>2, <2>3, CreateRows DEF IdsInOrder, UnderOfferHasAccepted, listingVars
<1>3. ASSUME NEW r \in Requests, CounterWrite(r) PROVE Rest
  <2> DEFINE id == lastOffer + 1
  <2>1. PICK o \in OfferIds :
           /\ o # id /\ id \in OfferIds
           /\ offers[o].status = "submitted"
           /\ ActiveOf(offers[o].buyer) \subseteq {o}
           /\ UNCHANGED listingVars
           /\ lastOffer' = id
           /\ Moved(o, "countered")
           /\ offers'[id].status = "submitted"
           /\ offers'[id].buyer = offers[o].buyer
           /\ \A x \in OfferIds \ {o, id} : offers'[x] = offers[x]
    BY <1>3, CounterRows
  <2>2. offers'[o].status = "countered"
    BY <2>1 DEF Moved
  <2>3. offers[id].status = "none" /\ id \in Nat /\ OfferIds \subseteq Nat
    BY <2>1 DEF IdsInOrder, OfferIds, TypeOK
  <2>4. IdsInOrder'
    <3> SUFFICES ASSUME NEW x \in OfferIds
                 PROVE  offers'[x].status = "none" <=> x > id
      BY <2>1 DEF IdsInOrder
    <3>1. CASE x = id
      BY <2>1, <2>3, <3>1
    <3>2. CASE x = o
      BY <2>1, <2>2, <2>3, <3>2 DEF IdsInOrder, TypeOK
    <3>3. CASE x \in OfferIds \ {o, id}
      BY <2>1, <2>3, <3>3 DEF IdsInOrder, TypeOK
    <3> QED
      BY <3>1, <3>2, <3>3
  <2>5. OneActivePerPair'
    <3> SUFFICES ASSUME NEW x \in OfferIds, NEW y \in OfferIds,
                        offers'[x].status = "submitted", offers'[y].status = "submitted",
                        offers'[x].buyer = offers'[y].buyer
                 PROVE  x = y
      BY DEF OneActivePerPair, Submitted
    <3>1. x # o /\ y # o
      BY <2>2
    <3>2. \A z \in OfferIds \ {o, id} :
            offers'[z].status = "submitted" => offers'[z].buyer # offers[o].buyer
      BY <2>1 DEF ActiveOf, Submitted
    <3>3. CASE x = id \/ y = id
      BY <2>1, <3>1, <3>2, <3>3
    <3>4. CASE x # id /\ y # id
      BY <2>1, <3>1, <3>4 DEF OneActivePerPair, Submitted
    <3> QED
      BY <3>3, <3>4
  <2>6. \A x \in Accepted : x \in Accepted'
    BY <2>1, <2>3 DEF Accepted
  <2> QED
    BY <2>1, <2>4, <2>5, <2>6 DEF UnderOfferHasAccepted, listingVars
<1>4. ASSUME NEW o \in OfferIds, AcceptOffer(o) PROVE Rest
  <2>1. offers'[o].status = "accepted" /\ offers[o].status = "submitted"
    BY <1>4, AcceptRows DEF Moved
  <2>2. \A x \in OfferIds :
          /\ offers'[x].status = "none" <=> offers[x].status = "none"
          /\ offers'[x].status # "submitted"
    <3> SUFFICES ASSUME NEW x \in OfferIds
                 PROVE  /\ offers'[x].status = "none" <=> offers[x].status = "none"
                        /\ offers'[x].status # "submitted"
      OBVIOUS
    <3>1. CASE x = o
      BY <2>1, <3>1
    <3>2. CASE x # o /\ offers[x].status = "submitted"
      BY <1>4, <3>2, AcceptRows DEF Moved
    <3>3. CASE x # o /\ offers[x].status # "submitted"
      BY <1>4, <3>3, AcceptRows
    <3> QED
      BY <3>1, <3>2, <3>3
  <2>3. IdsInOrder'
    BY <1>4, <2>2, AcceptRows DEF IdsInOrder
  <2> QED
    BY <2>1, <2>2, <2>3 DEF OneActivePerPair, UnderOfferHasAccepted, Submitted, Accepted
<1>5. ASSUME NEW o \in OfferIds, NEW to \in {"declined", "withdrawn"}, NEW u,
             Resolve(o, to, u)
      PROVE  Rest
  <2>1. /\ offers'[o].status = to /\ offers[o].status = "submitted"
        /\ \A x \in OfferIds \ {o} : offers'[x] = offers[x]
        /\ UNCHANGED <<listingVars, lastOffer>>
    BY <1>5, ResolveRows DEF Moved
  <2>2. IdsInOrder'
    BY <2>1 DEF IdsInOrder
  <2>3. \A x \in Submitted' : x \in Submitted /\ offers'[x] = offers[x]
    BY <2>1 DEF Submitted
  <2>4. \A x \in Accepted : x \in Accepted'
    BY <2>1 DEF Accepted
  <2> QED
    BY <2>1, <2>2, <2>3, <2>4 DEF OneActivePerPair, UnderOfferHasAccepted, listingVars
<1>6. ASSUME NEW to \in {"sold", "live"}, NEW offerTo \in {"completed", "lapsed"},
             NEW action, ResolveDeal(to, offerTo, action)
      PROVE  Rest
  <2>1. PICK o \in OfferIds :
           /\ offers[o].status = "accepted"
           /\ status' = to
           /\ UNCHANGED lastOffer
           /\ Moved(o, offerTo)
           /\ \A x \in OfferIds \ {o} : offers'[x] = offers[x]
    BY <1>6, DealRows
  <2>2. offers'[o].status = offerTo
    BY <2>1 DEF Moved
  <2>3. IdsInOrder'
    BY <2>1, <2>2 DEF IdsInOrder
  <2>4. \A x \in Submitted' : x \in Submitted /\ offers'[x] = offers[x]
    BY <2>1, <2>2 DEF Submitted
  <2> QED
    BY <2>1, <2>3, <2>4 DEF OneActivePerPair, UnderOfferHasAccepted
<1>7. ASSUME Read \/ Finish PROVE Rest
  BY <1>1, <1>7, QuietSteps DEF listingVars
<1>8. ASSUME NEW r \in Requests, Write(r) PROVE Rest
  BY <1>1, <1>2, <1>3, <1>8, LifecycleStatus DEF Write, LifecycleWrite
<1>9. ASSUME Swap PROVE Rest
  BY <1>4, <1>5, <1>6, <1>9 DEF Swap, DeclineOffer, WithdrawOffer, MarkSold, Relist
<1>10. ASSUME UNCHANGED vars PROVE Rest
  BY <1>1, <1>10 DEF vars, listingVars, offerVars
<1> QED
  BY <1>0, <1>7, <1>8, <1>9, <1>10 DEF Next

LEMMA InvAlways == Spec => []Inv
  BY InvInit, InvStep, PTL DEF Spec

\* A buyer never has two open offers, whatever requests of theirs raced.
THEOREM OneActiveOffer == Spec => []OneActivePerPair
  BY InvAlways, PTL DEF Inv

\* Closing or relisting a deal always finds the accepted offer it is about.
THEOREM AlwaysAnOfferToResolve == Spec => []UnderOfferHasAccepted
  BY InvAlways, PTL DEF Inv

----------------------------------------------------------------------------
(* How a row moves. *)

Edge(x, to) == Moved(x, to) /\ <<offers[x].status, to>> \in OfferEdges

RowStep(x) ==
    \/ offers'[x] = offers[x]
    \/ offers[x].status = "none" /\ offers'[x].status = "submitted"
    \/ \E to \in OfferStatus : Edge(x, to)

LEMMA RowSteps == Inv /\ [Next]_vars => \A x \in OfferIds : RowStep(x)
<1> SUFFICES ASSUME Inv, [Next]_vars, NEW x \in OfferIds PROVE RowStep(x)
  OBVIOUS
<1> USE DEF Inv
<1>1. ASSUME UNCHANGED offers PROVE RowStep(x)
  BY <1>1 DEF RowStep
<1>2. ASSUME NEW to \in {"accepted", "declined", "countered", "withdrawn"},
             offers[x].status = "submitted", Moved(x, to)
      PROVE  RowStep(x)
  BY <1>2 DEF RowStep, Edge, OfferEdges, OfferStatus
<1>3. ASSUME NEW r \in Requests, CreateWrite(r) PROVE RowStep(x)
  <2>1. CASE x = lastOffer + 1
    BY <1>3, <2>1, CreateRows DEF RowStep, IdsInOrder, OfferIds, TypeOK
  <2>2. CASE x # lastOffer + 1
    BY <1>3, <2>2, CreateRows DEF RowStep
  <2> QED
    BY <2>1, <2>2
<1>4. ASSUME NEW r \in Requests, CounterWrite(r) PROVE RowStep(x)
  <2>1. PICK o \in OfferIds :
           /\ offers[o].status = "submitted"
           /\ Moved(o, "countered")
           /\ offers'[lastOffer + 1].status = "submitted"
           /\ \A y \in OfferIds \ {o, lastOffer + 1} : offers'[y] = offers[y]
    BY <1>4, CounterRows
  <2>2. CASE x = lastOffer + 1
    BY <2>1, <2>2 DEF RowStep, IdsInOrder, OfferIds, TypeOK
  <2>3. CASE x = o
    BY <1>2, <2>1, <2>3
  <2>4. CASE x \notin {o, lastOffer + 1}
    BY <2>1, <2>4 DEF RowStep
  <2> QED
    BY <2>2, <2>3, <2>4
<1>5. ASSUME NEW o \in OfferIds, AcceptOffer(o) PROVE RowStep(x)
  <2>1. CASE x = o
    BY <1>2, <1>5, <2>1, AcceptRows
  <2>2. CASE x # o /\ offers[x].status = "submitted"
    BY <1>2, <1>5, <2>2, AcceptRows
  <2>3. CASE x # o /\ offers[x].status # "submitted"
    BY <1>5, <2>3, AcceptRows DEF RowStep
  <2> QED
    BY <2>1, <2>2, <2>3
<1>6. ASSUME NEW o \in OfferIds, NEW to \in {"declined", "withdrawn"}, NEW u,
             Resolve(o, to, u)
      PROVE  RowStep(x)
  <2>1. CASE x = o
    BY <1>2, <1>6, <2>1, ResolveRows
  <2>2. CASE x # o
    BY <1>6, <2>2, ResolveRows DEF RowStep
  <2> QED
    BY <2>1, <2>2
<1>7. ASSUME NEW to, NEW offerTo \in {"completed", "lapsed"}, NEW action,
             ResolveDeal(to, offerTo, action)
      PROVE  RowStep(x)
  <2>1. PICK o \in OfferIds : /\ offers[o].status = "accepted" /\ Moved(o, offerTo)
                              /\ \A y \in OfferIds \ {o} : offers'[y] = offers[y]
    BY <1>7, DealRows
  <2>2. CASE x = o
    BY <2>1, <2>2 DEF RowStep, Edge, OfferEdges, OfferStatus
  <2>3. CASE x # o
    BY <2>1, <2>3 DEF RowStep
  <2> QED
    BY <2>2, <2>3
<1>8. ASSUME NEW r \in Requests, Write(r) PROVE RowStep(x)
  BY <1>1, <1>3, <1>4, <1>8, LifecycleStatus DEF Write, LifecycleWrite
<1>9. ASSUME Swap PROVE RowStep(x)
  BY <1>5, <1>6, <1>7, <1>9 DEF Swap, DeclineOffer, WithdrawOffer, MarkSold, Relist
<1>10. ASSUME Read \/ Finish \/ UNCHANGED vars PROVE RowStep(x)
  BY <1>1, <1>10, QuietSteps DEF vars, offerVars
<1> QED
  BY <1>8, <1>9, <1>10 DEF Next

\* No request, however it races, rewrites the terms of an offer, moves it back
\* or decides it twice.
THEOREM OffersOnlyMoveForward == Spec => OffersMoveForward
<1>1. Inv /\ [Next]_vars =>
        [\A o \in OfferIds :
           \/ offers'[o] = offers[o]
           \/ offers[o].status = "none" /\ offers'[o].status = "submitted"
           \/ /\ <<offers[o].status, offers'[o].status>> \in OfferEdges
              /\ offers'[o] = [offers[o] EXCEPT !.status = offers'[o].status]]_offers
  <2> SUFFICES ASSUME Inv, [Next]_vars, NEW o \in OfferIds
               PROVE  \/ offers'[o] = offers[o]
                      \/ offers[o].status = "none" /\ offers'[o].status = "submitted"
                      \/ /\ <<offers[o].status, offers'[o].status>> \in OfferEdges
                         /\ offers'[o] = [offers[o] EXCEPT !.status = offers'[o].status]
    OBVIOUS
  <2> QED
    BY RowSteps DEF RowStep, Edge, Moved
<1> QED
  BY <1>1, InvAlways, PTL DEF Spec, OffersMoveForward

LEMMA PriceStep == Inv /\ PriceOfADeal /\ [Next]_vars => PriceOfADeal'
<1> SUFFICES ASSUME Inv, PriceOfADeal, [Next]_vars PROVE PriceOfADeal'
  OBVIOUS
<1>1. \A x \in Completed : x \in Completed' /\ offers'[x].price = offers[x].price
  BY RowSteps DEF RowStep, Edge, OfferEdges, Completed
<1>2. ASSUME UNCHANGED finalPrice PROVE PriceOfADeal'
  BY <1>1, <1>2 DEF PriceOfADeal
<1>3. ASSUME NEW to, NEW offerTo, NEW action, ResolveDeal(to, offerTo, action),
             to = "sold" => offerTo = "completed"
      PROVE  PriceOfADeal'
  <2>1. CASE to # "sold"
    BY <1>2, <1>3, <2>1, DealRows DEF Inv
  <2>2. CASE to = "sold"
    <3>1. PICK o \in OfferIds : finalPrice' = offers[o].price /\ Moved(o, "completed")
      BY <1>3, <2>2, DealRows DEF Inv
    <3> QED
      BY <3>1 DEF PriceOfADeal, Completed, Moved
  <2> QED
    BY <2>1, <2>2
<1>4. ASSUME Read \/ Finish \/ UNCHANGED vars PROVE PriceOfADeal'
  BY <1>2, <1>4, QuietSteps DEF listingVars, vars
<1>5. ASSUME NEW r \in Requests, Write(r) PROVE UNCHANGED finalPrice
  BY <1>5 DEF Write, TransitionWrite, EditWrite, ApproveWrite, RejectWrite, Decide,
              CreateWrite, InsertOffer, CounterWrite, AnswerOffer, listingVars
<1>6. ASSUME Swap PROVE PriceOfADeal'
  <2>1. ASSUME NEW o \in OfferIds, AcceptOffer(o) PROVE PriceOfADeal'
    BY <1>2, <2>1, AcceptRows DEF Inv
  <2>2. ASSUME NEW o, NEW to, NEW u, Resolve(o, to, u) PROVE PriceOfADeal'
    BY <1>2, <2>2 DEF Resolve, Settle, listingVars
  <2> QED
    BY <1>3, <1>6, <2>1, <2>2 DEF Swap, DeclineOffer, WithdrawOffer, MarkSold, Relist
<1> QED
  BY <1>2, <1>4, <1>5, <1>6 DEF Next

\* The recorded sale price is that of an offer that completed, always.
THEOREM PriceIsADeals == Spec => []PriceOfADeal
<1>1. Init => PriceOfADeal
  BY DEF Init, PriceOfADeal
<1> QED
  BY <1>1, PriceStep, InvAlways, PTL DEF Spec

----------------------------------------------------------------------------
(* The schedules without a lost update.                                     *)

SerialInv ==
    /\ Inv
    /\ GatesPassed
    /\ AtMostOneAccepted
    /\ DealHeld
    /\ SweptClean
    /\ SoldOnce
    /\ ContentReviewed

LEMMA SerialInit == Init => SerialInv
<1> SUFFICES ASSUME Init PROVE SerialInv
  OBVIOUS
<1>1. Submitted = {} /\ Accepted = {} /\ Completed = {}
  BY DEF Init, Submitted, Accepted, Completed, NoOffer
<1>2. GatesPassed
  BY DEF Init, GatesPassed, Idle, SellerOps
<1> QED
  BY <1>1, <1>2, InvInit
  DEF Init, SerialInv, AtMostOneAccepted, DealHeld, SweptClean, SoldOnce, ContentReviewed

LEMMA SerialNextIsNext == [SerialNext]_vars => [Next]_vars
  BY DEF SerialNext, Next

\* What the gates of a lifecycle request let pass still holds when it writes.
LEMMA SerialLifecycle ==
    ASSUME NEW r \in Requests, TypeOK, GatesPassed, ContentReviewed,
           Current(r), LifecycleWrite(r)
    PROVE  /\ UNCHANGED <<offers, lastOffer, finalPrice>>
           /\ status \notin {"under_offer", "sold", "closed"}
           /\ status' \notin {"under_offer", "sold"}
           /\ ContentReviewed'
<1>1. status = req[r].saw
  BY DEF Current
<1>2. CASE TransitionWrite(r)
  <2>1. req[r].op \in SellerOps /\ status \in AllowedFrom(req[r].op)
    BY <1>1, <1>2 DEF TransitionWrite, GatesPassed
  <2>2. UNCHANGED <<offers, lastOffer, finalPrice, reviewed>>
    BY <1>2 DEF TransitionWrite, offerVars
  <2>3. CASE req[r].op = "submit"
    BY <1>2, <2>1, <2>2, <2>3 DEF TransitionWrite, AllowedFrom, Allowed, ContentReviewed
  <2>4. CASE req[r].op = "pause"
    BY <1>2, <2>1, <2>2, <2>4 DEF TransitionWrite, AllowedFrom, Allowed, ContentReviewed
  <2>5. CASE req[r].op = "resume"
    BY <1>2, <2>1, <2>2, <2>5 DEF TransitionWrite, AllowedFrom, Allowed, ContentReviewed
  <2>6. CASE req[r].op = "close"
    BY <1>2, <2>1, <2>2, <2>6 DEF TransitionWrite, AllowedFrom, Allowed, ContentReviewed
  <2> QED
    BY <2>1, <2>3, <2>4, <2>5, <2>6 DEF SellerOps
<1>3. CASE EditWrite(r)
  <2>1. status \in ListingStatus \ {"closed", "sold", "under_offer"}
    BY <1>1, <1>3 DEF EditWrite, SentBack, GatesPassed, AllowedFrom, Allowed
  <2> QED
    BY <1>1, <1>3, <2>1 DEF EditWrite, SentBack, ContentReviewed, offerVars
<1>4. CASE ApproveWrite(r)
  <2>1. status = "pending_review"
    BY <1>1, <1>4 DEF ApproveWrite, GatesPassed, AllowedFrom, Allowed
  <2> QED
    BY <1>4, <2>1 DEF ApproveWrite, Decide, ContentReviewed, offerVars
<1>5. CASE RejectWrite(r)
  <2>1. status = "pending_review"
    BY <1>1, <1>5 DEF RejectWrite, GatesPassed, AllowedFrom, Allowed
  <2> QED
    BY <1>5, <2>1 DEF RejectWrite, Decide, ContentReviewed, offerVars
<1> QED
  BY <1>2, <1>3, <1>4, <1>5 DEF LifecycleWrite

\* A request in flight has read a status that its gates let pass.
LEMMA GatesStep == TypeOK /\ GatesPassed /\ [Next]_vars => GatesPassed'
<1> SUFFICES ASSUME TypeOK, GatesPassed, [Next]_vars PROVE GatesPassed'
  OBVIOUS
<1> DEFINE OK(q) == /\ q.op \in SellerOps \cup {"edit", "approve", "reject"} =>
                          q.saw \in AllowedFrom(q.op)
                    /\ q.op \in {"create", "counter"} => q.saw = "live"
<1>0. \A q \in Requests : OK(req[q])
  BY DEF GatesPassed
<1>1. ASSUME \A q \in Requests : OK(req'[q]) PROVE GatesPassed'
  BY <1>1 DEF GatesPassed, AllowedFrom, Allowed, ListingStatus
<1>2. ASSUME UNCHANGED req PROVE GatesPassed'
  BY <1>0, <1>1, <1>2
<1>3. ASSUME NEW r \in Requests, NEW q0, OK(q0), req' = [req EXCEPT ![r] = q0]
      PROVE  GatesPassed'
  <2>1. \A q \in Requests : req'[q] = IF q = r THEN q0 ELSE req[q]
    BY <1>3 DEF TypeOK, RequestsOK
  <2> QED
    BY <1>0, <1>1, <1>3, <2>1
<1>4. OK(Idle)
  BY DEF Idle, SellerOps
<1>5. ASSUME NEW r \in Requests, Done(r) PROVE GatesPassed'
  BY <1>3, <1>4, <1>5 DEF Done
<1>6. ASSUME NEW r \in Requests, NEW op \in SellerOps \cup {"edit", "approve", "reject"},
             LifecycleRead(r, op)
      PROVE  GatesPassed'
  <2>1. op \notin {"create", "counter"}
    BY DEF SellerOps
  <2>2. OK([op |-> op, saw |-> status, buyer |-> Seller, offer |-> 0])
    BY <1>6, <2>1 DEF LifecycleRead
  <2> HIDE DEF OK
  <2> QED
    BY <1>3, <1>6, <2>2 DEF LifecycleRead, Start
<1>7. ASSUME NEW r \in Requests, NEW op \in {"create", "counter"}, NEW b, NEW o,
             status = "live", Start(r, op, b, o)
      PROVE  GatesPassed'
  <2>1. OK([op |-> op, saw |-> status, buyer |-> b, offer |-> o])
    BY <1>7 DEF SellerOps
  <2> HIDE DEF OK
  <2> QED
    BY <1>3, <1>7, <2>1 DEF Start
<1>8. ASSUME NEW r \in Requests, NEW to, NEW action, Decide(r, to, action)
      PROVE  GatesPassed'
  <2>1. PICK q : q = [req[r] EXCEPT !.op = "announce", !.saw = to]
    OBVIOUS
  <2>2. q.op = "announce"
    BY <2>1 DEF TypeOK, RequestsOK, Request
  <2>3. OK(q)
    BY <2>2 DEF SellerOps
  <2>4. req' = [req EXCEPT ![r] = q]
    BY <1>8, <2>1 DEF Decide, TypeOK, RequestsOK
  <2> HIDE DEF OK
  <2> QED
    BY <1>3, <2>3, <2>4
<1>9. ASSUME Read PROVE GatesPassed'
  BY <1>6, <1>7, <1>9 DEF Read, CreateRead, CounterRead
<1>10. ASSUME NEW r \in Requests, Write(r) PROVE GatesPassed'
  BY <1>5, <1>8, <1>10
  DEF Write, TransitionWrite, EditWrite, SentBack, ApproveWrite, RejectWrite, CreateWrite, InsertOffer, CounterWrite, AnswerOffer
<1>11. ASSUME Swap PROVE GatesPassed'
  BY <1>2, <1>11
  DEF Swap, AcceptOffer, Siblings, DeclineOffer, WithdrawOffer, Resolve, Settle, MarkSold, Relist, ResolveDeal, SalePrice
<1>12. ASSUME Finish PROVE GatesPassed'
  BY <1>5, <1>12 DEF Finish, Announce, RequestEnds, Done
<1> QED
  BY <1>2, <1>9, <1>10, <1>11, <1>12 DEF Next, vars

\* While no deal holds or sold the listing, no offer is accepted or completed.
Undealt == \A x \in OfferIds : offers[x].status \notin {"accepted", "completed"}

Dealt == AtMostOneAccepted /\ DealHeld /\ SweptClean /\ SoldOnce

LEMMA UndealtRows ==
    ASSUME Dealt, status \notin {"under_offer", "sold"}
    PROVE  Undealt
  BY DEF Dealt, DealHeld, SoldOnce, Undealt, Accepted, Completed

LEMMA UndealtIsDealt ==
    ASSUME Undealt', status' \notin {"under_offer", "sold"}
    PROVE  Dealt'
<1>1. Accepted' = {} /\ Completed' = {}
  BY DEF Undealt, Accepted, Completed
<1> QED
  BY <1>1 DEF Dealt, AtMostOneAccepted, DealHeld, SweptClean, SoldOnce

\* What a step without a lost update is to the deal: nothing; a move of the
\* lifecycle on or off the market; the agreement on offer o; its resolution.
NoMove ==
    /\ UNCHANGED <<status, finalPrice>>
    /\ UNCHANGED offers \/ (Undealt /\ Undealt' /\ status \notin {"under_offer", "sold"})

MarketMove ==
    /\ Undealt /\ Undealt'
    /\ UNCHANGED finalPrice
    /\ status \notin {"under_offer", "sold", "closed"}
    /\ status' \notin {"under_offer", "sold"}

Agreement(o) ==
    /\ status = "live" /\ status' = "under_offer"
    /\ UNCHANGED finalPrice
    /\ offers[o].status = "submitted"
    /\ offers'[o].buyer = offers[o].buyer /\ offers'[o].price = offers[o].price
    /\ Undealt
    /\ Accepted' = {o} /\ Completed' = {} /\ Submitted' = {}

Resolution(o, to) ==
    /\ status = "under_offer" /\ status' = to
    /\ finalPrice' = IF to = "sold" THEN offers[o].price ELSE finalPrice
    /\ offers'[o].buyer = offers[o].buyer /\ offers'[o].price = offers[o].price
    /\ Accepted = {o} /\ Completed = {}
    /\ Accepted' = {} /\ Submitted' = {}
    /\ Completed' = IF to = "sold" THEN {o} ELSE {}

LEMMA DealCases ==
    ASSUME SerialInv, [SerialNext]_vars
    PROVE  \/ NoMove
           \/ MarketMove
           \/ \E o \in OfferIds : Agreement(o)
           \/ \E o \in OfferIds, to \in {"sold", "live"} : Resolution(o, to)
<1> DEFINE Cases == \/ NoMove
                    \/ MarketMove
                    \/ \E o \in OfferIds : Agreement(o)
                    \/ \E o \in OfferIds, to \in {"sold", "live"} : Resolution(o, to)
<1>0. Dealt /\ TypeOK /\ IdsInOrder /\ GatesPassed /\ ContentReviewed
  BY DEF SerialInv, Inv, Dealt
<1>1. ASSUME UNCHANGED <<offers, listingVars>> PROVE Cases
  BY <1>1 DEF NoMove, listingVars
<1>2. ASSUME NEW r \in Requests, Current(r), LifecycleWrite(r) PROVE Cases
  <2>1. Undealt /\ Undealt'
    BY <1>0, <1>2, SerialLifecycle, UndealtRows DEF Undealt
  <2> QED
    BY <1>0, <1>2, <2>1, SerialLifecycle DEF MarketMove
<1>3. ASSUME NEW r \in Requests, Current(r), CreateWrite(r) PROVE Cases
  <2>1. status = "live" /\ UNCHANGED listingVars
    BY <1>0, <1>3 DEF CreateWrite, InsertOffer, Current, GatesPassed
  <2>2. Undealt
    BY <1>0, <2>1, UndealtRows
  <2>3. Undealt'
    BY <1>0, <1>3, <2>2, CreateRows DEF Undealt
  <2> QED
    BY <2>1, <2>2, <2>3 DEF NoMove, listingVars
<1>4. ASSUME NEW r \in Requests, Current(r), CounterWrite(r) PROVE Cases
  <2>1. status = "live" /\ UNCHANGED listingVars
    BY <1>0, <1>4 DEF CounterWrite, AnswerOffer, Current, GatesPassed
  <2>2. Undealt
    BY <1>0, <2>1, UndealtRows
  <2>3. PICK o \in OfferIds :
           /\ Moved(o, "countered")
           /\ offers'[lastOffer + 1].status = "submitted"
           /\ \A x \in OfferIds \ {o, lastOffer + 1} : offers'[x] = offers[x]
    BY <1>0, <1>4, CounterRows
  <2>4. Undealt'
    BY <2>2, <2>3 DEF Undealt, Moved
  <2> QED
    BY <2>1, <2>2, <2>4 DEF NoMove, listingVars
<1>5. ASSUME NEW o \in OfferIds, AcceptOffer(o) PROVE Cases
  <2>1. status = "live" /\ status' = "under_offer" /\ offers[o].status = "submitted"
    BY <1>0, <1>5, AcceptRows
  <2>2. Undealt
    BY <1>0, <2>1, UndealtRows
  <2>3. Moved(o, "accepted") /\ UNCHANGED finalPrice
    BY <1>0, <1>5, AcceptRows
  <2>4. \A x \in OfferIds \ {o} :
          offers'[x].status \notin {"accepted", "completed", "submitted"}
    <3> SUFFICES ASSUME NEW x \in OfferIds \ {o}
                 PROVE  offers'[x].status \notin {"accepted", "completed", "submitted"}
      OBVIOUS
    <3>1. CASE offers[x].status = "submitted"
      BY <1>0, <1>5, <3>1, AcceptRows DEF Moved
    <3>2. CASE offers[x].status # "submitted"
      BY <1>0, <1>5, <2>2, <3>2, AcceptRows DEF Undealt
    <3> QED
      BY <3>1, <3>2
  <2>5. Accepted' = {o} /\ Completed' = {} /\ Submitted' = {}
    BY <2>3, <2>4 DEF Accepted, Completed, Submitted, Moved
  <2> QED
    BY <2>1, <2>2, <2>3, <2>5 DEF Agreement, Moved
<1>6. ASSUME NEW o \in OfferIds, NEW to \in {"declined", "withdrawn"}, NEW u,
             Resolve(o, to, u)
      PROVE  Cases
  <2>1. offers[o].status = "submitted" /\ UNCHANGED listingVars
    BY <1>0, <1>6, ResolveRows
  <2>2. status \notin {"under_offer", "sold"}
    BY <1>0, <2>1 DEF Dealt, SweptClean, Submitted
  <2>3. Undealt
    BY <1>0, <2>2, UndealtRows
  <2>4. Undealt'
    <3>1. offers'[o].status = to
      BY <1>0, <1>6, ResolveRows DEF Moved
    <3>2. \A x \in OfferIds \ {o} : offers'[x] = offers[x]
      BY <1>0, <1>6, ResolveRows
    <3> QED
      BY <2>3, <3>1, <3>2 DEF Undealt
  <2> QED
    BY <2>1, <2>2, <2>3, <2>4 DEF NoMove, listingVars
<1>7. ASSUME NEW to, NEW offerTo, NEW action, ResolveDeal(to, offerTo, action),
             \/ to = "sold" /\ offerTo = "completed"
             \/ to = "live" /\ offerTo = "lapsed"
      PROVE  Cases
  <2>1. PICK o \in OfferIds :
           /\ offers[o].status = "accepted"
           /\ status = "under_offer" /\ status' = to
           /\ finalPrice' = IF to = "sold" THEN offers[o].price ELSE finalPrice
           /\ Moved(o, offerTo)
           /\ \A x \in OfferIds \ {o} : offers'[x] = offers[x]
    BY <1>0, <1>7, DealRows
  <2>2. /\ offers'[o].status = offerTo
        /\ offers'[o].buyer = offers[o].buyer /\ offers'[o].price = offers[o].price
    BY <2>1 DEF Moved
  <2>3. Accepted = {o} /\ Completed = {} /\ Submitted = {}
    BY <1>0, <2>1 DEF Dealt, AtMostOneAccepted, SweptClean, SoldOnce, Accepted
  <2>4. Accepted' = {} /\ Submitted' = {}
    BY <1>7, <2>1, <2>2, <2>3 DEF Accepted, Submitted
  <2>5. Completed' = IF to = "sold" THEN {o} ELSE {}
    BY <1>7, <2>1, <2>2, <2>3 DEF Completed
  <2>6. Resolution(o, to)
    BY <2>1, <2>2, <2>3, <2>4, <2>5 DEF Resolution
  <2> QED
    BY <1>7, <2>6
<1>8. ASSUME NEW r \in Requests, Current(r), Write(r) PROVE Cases
  BY <1>2, <1>3, <1>4, <1>8 DEF Write, LifecycleWrite
<1>9. ASSUME Swap PROVE Cases
  BY <1>5, <1>6, <1>7, <1>9 DEF Swap, DeclineOffer, WithdrawOffer, MarkSold, Relist
<1>10. ASSUME Read \/ Finish \/ UNCHANGED vars PROVE Cases
  BY <1>1, <1>10, QuietSteps DEF vars, offerVars
<1> QED
  BY <1>8, <1>9, <1>10 DEF SerialNext

LEMMA DealtStep == SerialInv /\ [SerialNext]_vars => Dealt'
<1> SUFFICES ASSUME SerialInv, [SerialNext]_vars PROVE Dealt'
  OBVIOUS
<1>0. Dealt /\ (UNCHANGED vars \/ SerialNext)
  BY DEF SerialInv, Dealt
<1>1. CASE UNCHANGED <<offers, status, finalPrice>>
  BY <1>0, <1>1 DEF Dealt, AtMostOneAccepted, DealHeld, SweptClean, SoldOnce,
                    Accepted, Completed, Submitted
<1>2. CASE NoMove
  BY <1>1, <1>2, UndealtIsDealt DEF NoMove
<1>3. CASE MarketMove
  BY <1>3, UndealtIsDealt DEF MarketMove
<1>4. ASSUME NEW o \in OfferIds, Agreement(o) PROVE Dealt'
  BY <1>4 DEF Agreement, Dealt, AtMostOneAccepted, DealHeld, SweptClean, SoldOnce
<1>5. ASSUME NEW o \in OfferIds, NEW to \in {"sold", "live"}, Resolution(o, to)
      PROVE  Dealt'
  BY <1>5 DEF Resolution, Dealt, AtMostOneAccepted, DealHeld, SweptClean, SoldOnce
<1> QED
  BY <1>2, <1>3, <1>4, <1>5, DealCases

LEMMA ReviewedStep == SerialInv /\ [SerialNext]_vars => ContentReviewed'
<1> SUFFICES ASSUME SerialInv, [SerialNext]_vars PROVE ContentReviewed'
  OBVIOUS
<1>0. TypeOK /\ GatesPassed /\ ContentReviewed /\ IdsInOrder
  BY DEF SerialInv, Inv
<1>1. ASSUME UNCHANGED listingVars PROVE ContentReviewed'
  BY <1>0, <1>1 DEF ContentReviewed, listingVars
<1>2. ASSUME NEW r \in Requests, Current(r), Write(r) PROVE ContentReviewed'
  BY <1>0, <1>1, <1>2, SerialLifecycle DEF Write, LifecycleWrite, CreateWrite, InsertOffer, CounterWrite, AnswerOffer
<1>3. ASSUME Swap PROVE ContentReviewed'
  BY <1>0, <1>1, <1>3
  DEF Swap, AcceptOffer, Siblings, DeclineOffer, WithdrawOffer, Resolve, Settle, MarkSold, Relist,
      ResolveDeal, SalePrice, ContentReviewed
<1> QED
  BY <1>1, <1>2, <1>3, QuietSteps DEF SerialNext, vars

LEMMA SerialStep == SerialInv /\ [SerialNext]_vars => SerialInv'
<1> SUFFICES ASSUME SerialInv, [SerialNext]_vars PROVE SerialInv'
  OBVIOUS
<1>1. Inv /\ TypeOK /\ GatesPassed /\ [Next]_vars
  BY SerialNextIsNext DEF SerialInv, Inv
<1>2. Inv' /\ GatesPassed'
  BY <1>1, InvStep, GatesStep
<1>3. Dealt' /\ ContentReviewed'
  BY DealtStep, ReviewedStep
<1> QED
  BY <1>2, <1>3 DEF SerialInv, Dealt

LEMMA SerialAlways == SerialSpec => []SerialInv
  BY SerialInit, SerialStep, PTL DEF SerialSpec

\* Without a lost update a listing has at most one accepted offer.
THEOREM OneAccepted == SerialSpec => []AtMostOneAccepted
  BY SerialAlways, PTL DEF SerialInv

\* Without a lost update it is under offer exactly while an offer is accepted.
THEOREM UnderOfferIsADeal == SerialSpec => []DealHeld
  BY SerialAlways, PTL DEF SerialInv

\* Without a lost update an agreed deal leaves no other offer open.
THEOREM NothingLeftOpen == SerialSpec => []SweptClean
  BY SerialAlways, PTL DEF SerialInv

\* Without a lost update a listing sells once, at the price agreed.
THEOREM SellsOnce == SerialSpec => []SoldOnce
  BY SerialAlways, PTL DEF SerialInv

\* Without a lost update buyers only ever see reviewed content.
THEOREM OnlyReviewedContent == SerialSpec => []ContentReviewed
  BY SerialAlways, PTL DEF SerialInv

LEMMA TerminalStep ==
    SerialInv /\ [SerialNext]_vars =>
        [(status \in {"closed", "sold"}) => UNCHANGED listingVars]_vars
<1> SUFFICES ASSUME SerialInv, SerialNext, status \in {"closed", "sold"}
             PROVE  UNCHANGED listingVars
  OBVIOUS
<1>0. TypeOK /\ GatesPassed /\ ContentReviewed
  BY DEF SerialInv, Inv
<1>1. ASSUME NEW r \in Requests, Current(r), Write(r) PROVE UNCHANGED listingVars
  BY <1>0, <1>1, SerialLifecycle DEF Write, LifecycleWrite, CreateWrite, InsertOffer, CounterWrite, AnswerOffer
<1>2. ASSUME Swap PROVE UNCHANGED listingVars
  BY <1>2 DEF Swap, AcceptOffer, Siblings, DeclineOffer, WithdrawOffer, Resolve, Settle, MarkSold, Relist,
              ResolveDeal, SalePrice
<1> QED
  BY <1>1, <1>2, QuietSteps DEF SerialNext

\* Without a lost update closed and sold are final.
THEOREM TerminalIsFinal == SerialSpec => TerminalStays
<1>1. SerialInv /\ [SerialNext]_vars =>
        [(status \in {"closed", "sold"}) => UNCHANGED listingVars]_vars
  BY TerminalStep
<1> QED
  BY <1>1, SerialAlways, PTL DEF SerialSpec, TerminalStays
----------------------------------------------------------------------------
(* The contract.                                                            *)

LEMMA TermsStep ==
    TypeOK /\ IdsInOrder /\ RowsHaveTerms /\ [Next]_vars => RowsHaveTerms'
<1> SUFFICES ASSUME TypeOK, IdsInOrder, RowsHaveTerms, [Next]_vars PROVE RowsHaveTerms'
  OBVIOUS
<1> DEFINE Good(row) == row.buyer \in Buyers /\ row.price \in Prices
<1>0. \A x \in OfferIds : offers[x].status # "none" => Good(offers[x])
  BY DEF RowsHaveTerms
<1>1. ASSUME \A x \in OfferIds : \/ offers'[x] = offers[x]
                                 \/ Good(offers'[x])
                                 \/ offers[x].status # "none" /\ \E to : Moved(x, to)
      PROVE  RowsHaveTerms'
  <2> SUFFICES ASSUME NEW x \in OfferIds, offers'[x].status # "none" PROVE Good(offers'[x])
    BY DEF RowsHaveTerms
  <2>1. CASE offers'[x] = offers[x]
    BY <1>0, <2>1
  <2>2. CASE offers[x].status # "none" /\ \E to : Moved(x, to)
    BY <1>0, <2>2 DEF Moved
  <2> QED
    BY <1>1, <2>1, <2>2
<1>2. ASSUME UNCHANGED offers PROVE RowsHaveTerms'
  BY <1>1, <1>2
<1>3. ASSUME NEW r \in Requests, CreateWrite(r) PROVE RowsHaveTerms'
  BY <1>1, <1>3, CreateRows
<1>4. ASSUME NEW r \in Requests, CounterWrite(r) PROVE RowsHaveTerms'
  <2>1. PICK o \in OfferIds :
           /\ offers[o].status = "submitted"
           /\ Moved(o, "countered")
           /\ offers'[lastOffer + 1].buyer = offers[o].buyer
           /\ offers'[lastOffer + 1].price \in Prices
           /\ \A x \in OfferIds \ {o, lastOffer + 1} : offers'[x] = offers[x]
    BY <1>4, CounterRows
  <2>2. Good(offers'[lastOffer + 1])
    BY <1>0, <2>1
  <2> HIDE DEF Good
  <2> QED
    BY <1>1, <2>1, <2>2
<1>5. ASSUME NEW o \in OfferIds, AcceptOffer(o) PROVE RowsHaveTerms'
  <2>1. offers[o].status = "submitted" /\ Moved(o, "accepted")
    BY <1>5, AcceptRows
  <2>2. \A x \in OfferIds \ {o} :
          \/ offers'[x] = offers[x]
          \/ offers[x].status = "submitted" /\ Moved(x, "declined")
    BY <1>5, AcceptRows
  <2> HIDE DEF Good
  <2> QED
    BY <1>1, <2>1, <2>2
<1>6. ASSUME NEW o \in OfferIds, NEW to \in {"declined", "withdrawn"}, NEW u,
             Resolve(o, to, u)
      PROVE  RowsHaveTerms'
  <2>1. /\ offers[o].status = "submitted" /\ Moved(o, to)
        /\ \A x \in OfferIds \ {o} : offers'[x] = offers[x]
    BY <1>6, ResolveRows
  <2> HIDE DEF Good
  <2> QED
    BY <1>1, <2>1
<1>7. ASSUME NEW to, NEW offerTo, NEW action, ResolveDeal(to, offerTo, action)
      PROVE  RowsHaveTerms'
  <2>1. PICK o \in OfferIds : /\ offers[o].status = "accepted" /\ Moved(o, offerTo)
                              /\ \A x \in OfferIds \ {o} : offers'[x] = offers[x]
    BY <1>7, DealRows
  <2> HIDE DEF Good
  <2> QED
    BY <1>1, <2>1
<1>8. ASSUME NEW r \in Requests, Write(r) PROVE RowsHaveTerms'
  BY <1>2, <1>3, <1>4, <1>8, LifecycleStatus DEF Write, LifecycleWrite
<1>9. ASSUME Swap PROVE RowsHaveTerms'
  BY <1>5, <1>6, <1>7, <1>9 DEF Swap, DeclineOffer, WithdrawOffer, MarkSold, Relist
<1>10. ASSUME Read \/ Finish \/ UNCHANGED vars PROVE RowsHaveTerms'
  BY <1>2, <1>10, QuietSteps DEF vars, offerVars
<1> QED
  BY <1>8, <1>9, <1>10 DEF Next

ContractInv == SerialInv /\ RowsHaveTerms

LEMMA ContractInvAlways == SerialSpec => []ContractInv
<1>1. Init => RowsHaveTerms
  BY DEF Init, RowsHaveTerms, NoOffer
<1>2. ContractInv /\ [SerialNext]_vars => RowsHaveTerms'
  BY TermsStep, SerialNextIsNext DEF ContractInv, SerialInv, Inv
<1> QED
  BY <1>1, <1>2, SerialInit, SerialStep, PTL DEF ContractInv, SerialSpec

\* The values the refinement mapping gives the contract's variables.
PhaseOf == CASE status = "live" -> "on"
             [] status = "under_offer" -> "held"
             [] status = "sold" -> "sold"
             [] status = "closed" -> "gone"
             [] OTHER -> "off"

DealOf(o) == <<offers[o].buyer, offers[o].price>>

DealsOf == {DealOf(o) : o \in Accepted \cup Completed}

LEMMA NoDeals == Undealt => DealsOf = {}
  BY DEF Undealt, DealsOf, Accepted, Completed

LEMMA ContractInit == Init => Contract!Init
<1> SUFFICES ASSUME Init PROVE Contract!Init
  OBVIOUS
<1>1. PhaseOf = "off" /\ finalPrice = 0
  BY DEF Init, PhaseOf
<1>2. DealsOf = {}
  BY NoDeals DEF Init, Undealt, NoOffer
<1> QED
  BY <1>1, <1>2 DEF Contract!Init, PhaseOf, DealsOf, DealOf

LEMMA ContractStep == ContractInv /\ [SerialNext]_vars => [Contract!Next]_Contract!vars
<1> SUFFICES ASSUME ContractInv, [SerialNext]_vars PROVE [Contract!Next]_Contract!vars
  OBVIOUS
<1>0. SerialInv /\ RowsHaveTerms
  BY DEF ContractInv
<1>1. ASSUME NoMove PROVE UNCHANGED Contract!vars
  <2>1. DealsOf' = DealsOf
    BY <1>1, NoDeals DEF NoMove, DealsOf, DealOf, Accepted, Completed, Undealt
  <2>2. UNCHANGED <<status, finalPrice>>
    BY <1>1 DEF NoMove
  <2> QED
    BY <2>1, <2>2 DEF Contract!vars, DealsOf, DealOf
<1>2. ASSUME MarketMove PROVE [Contract!Next]_Contract!vars
  <2>1. DealsOf = {} /\ DealsOf' = {} /\ UNCHANGED finalPrice
    BY <1>2, NoDeals DEF MarketMove, DealsOf, DealOf, Accepted, Completed, Undealt
  <2>2. PhaseOf \in {"on", "off"} /\ PhaseOf' \in {"on", "off", "gone"}
    BY <1>2 DEF MarketMove, PhaseOf
  <2> QED
    BY <2>1, <2>2
    DEF Contract!Next, Contract!Offer, Contract!Remove, Contract!Retire, Contract!vars,
        PhaseOf, DealsOf, DealOf
<1>3. ASSUME NEW o \in OfferIds, Agreement(o) PROVE Contract!Agree
  <2>1. PhaseOf = "on" /\ PhaseOf' = "held" /\ UNCHANGED finalPrice
    BY <1>3 DEF Agreement, PhaseOf
  <2>2. DealsOf' = {<<offers[o].buyer, offers[o].price>>}
    BY <1>3 DEF Agreement, DealsOf, DealOf
  <2>3. offers[o].buyer \in Buyers /\ offers[o].price \in Prices
    BY <1>0, <1>3 DEF Agreement, RowsHaveTerms
  <2> QED
    BY <2>1, <2>2, <2>3 DEF Contract!Agree, PhaseOf, DealsOf, DealOf
<1>4. ASSUME NEW o \in OfferIds, Resolution(o, "sold") PROVE Contract!Complete
  <2>1. PhaseOf = "held" /\ PhaseOf' = "sold" /\ finalPrice' = offers[o].price
    BY <1>4 DEF Resolution, PhaseOf
  <2>2. DealsOf = {DealOf(o)} /\ DealsOf' = DealsOf /\ DealOf(o)[2] = offers[o].price
    BY <1>4 DEF Resolution, DealsOf, DealOf
  <2>3. \E d \in DealsOf : finalPrice' = d[2]
    BY <2>1, <2>2
  <2> QED
    BY <2>1, <2>2, <2>3 DEF Contract!Complete, PhaseOf, DealsOf, DealOf
<1>5. ASSUME NEW o \in OfferIds, Resolution(o, "live") PROVE Contract!FallThrough
  <2>1. PhaseOf = "held" /\ PhaseOf' = "on" /\ UNCHANGED finalPrice
    BY <1>5 DEF Resolution, PhaseOf
  <2>2. DealsOf' = {}
    BY <1>5 DEF Resolution, DealsOf
  <2> QED
    BY <2>1, <2>2 DEF Contract!FallThrough, PhaseOf, DealsOf, DealOf
<1> QED
  BY <1>0, <1>1, <1>2, <1>3, <1>4, <1>5, DealCases DEF Contract!Next

\* Without a lost update the two routers together implement the contract: one
\* deal at a time, agreed while on the market, and the sale is that deal's.
THEOREM ListingKeepsContract == SerialSpec => KeepsContract
  BY ContractInit, ContractStep, ContractInvAlways, PTL
  DEF SerialSpec, KeepsContract, Contract!Spec

----------------------------------------------------------------------------
(* The trail of an offer and the notifications of it. *)

\* An id that was not given out has no row.
NoRowYet == \A o \in OfferIds : offers[o].status = "none" => offers[o] = NoOffer

SameTerms(x) ==
    /\ offers'[x].buyer = offers[x].buyer
    /\ offers'[x].by = offers[x].by
    /\ offers'[x].price = offers[x].price
    /\ offers'[x].parent = offers[x].parent

LEMMA MovedTerms ==
    ASSUME TypeOK, NEW x \in OfferIds, NEW to, Moved(x, to)
    PROVE  SameTerms(x)
<1>1. offers[x] \in Offer
  BY DEF TypeOK
<1>2. PICK b, d, s, c, e : offers[x] = [buyer |-> b, by |-> d, status |-> s, price |-> c, parent |-> e]
  BY <1>1 DEF Offer
<1> QED
  BY <1>2 DEF Moved, SameTerms

\* Steps that decide nothing about an offer and open none.
LEMMA QuietTrail ==
    ASSUME Read \/ Finish \/ (\E r \in Requests : LifecycleWrite(r)) \/ UNCHANGED vars
    PROVE  UNCHANGED <<offers, lastOffer, events>> /\ notes \subseteq notes'
<1>1. ASSUME NEW r, NEW op, NEW b, NEW o, Start(r, op, b, o)
      PROVE  UNCHANGED <<offers, lastOffer, events, notes>>
  BY <1>1 DEF Start, offerVars, trailVars
<1>2. CASE Read
  BY <1>1, <1>2 DEF Read, LifecycleRead, CreateRead, CounterRead
<1>3. CASE Finish
  BY <1>3 DEF Finish, Announce, RequestEnds, offerVars, trailVars
<1>4. ASSUME NEW r \in Requests, LifecycleWrite(r)
      PROVE  UNCHANGED <<offers, lastOffer, events, notes>>
  BY <1>4 DEF LifecycleWrite, TransitionWrite, EditWrite, ApproveWrite, RejectWrite, Decide,
     offerVars, trailVars
<1>5. CASE UNCHANGED vars
  BY <1>5 DEF vars, offerVars, trailVars
<1> QED
  BY <1>2, <1>3, <1>4, <1>5

\* An offer is opened: a row, its first event, a notification of the seller.
LEMMA CreateTrail ==
    ASSUME NEW r \in Requests, TypeOK, CreateWrite(r)
    PROVE  LET id == lastOffer + 1
           IN /\ id \in OfferIds
              /\ offers'[id].status = "submitted"
              /\ offers'[id].buyer \in Buyers
              /\ offers'[id].parent = 0
              /\ \A x \in OfferIds \ {id} : offers'[x] = offers[x]
              /\ events' = events \cup {Event(id, "submitted", offers'[id].buyer)}
              /\ notes' = notes \cup {Note(Seller, "submitted", id)}
<1> DEFINE id == lastOffer + 1
           row(p) == [buyer |-> req[r].buyer, by |-> "buyer",
                      status |-> "submitted", price |-> p, parent |-> 0]
<1>1. PICK p \in Prices :
        /\ offers' = [offers EXCEPT ![id] = row(p)]
        /\ events' = events \cup {Event(id, "submitted", row(p).buyer)}
        /\ notes' = notes \cup {Note(Recipient(row(p), "submitted"), "submitted", id)}
  BY DEF CreateWrite, InsertOffer
<1>2. id \in OfferIds /\ req[r].buyer \in Buyers
  BY CreateRows
<1>3. offers'[id] = row(p) /\ \A x \in OfferIds \ {id} : offers'[x] = offers[x]
  BY <1>1, <1>2 DEF TypeOK
<1>4. Recipient(row(p), "submitted") = Seller
  BY DEF Recipient, CounterpartyOf
<1> QED
  BY <1>1, <1>2, <1>3, <1>4

\* An offer is answered: its row moves, its answer is a row of the other side,
\* and whoever did not answer is notified of the answer.
LEMMA CounterTrail ==
    ASSUME NEW r \in Requests, TypeOK, IdsInOrder, CounterWrite(r)
    PROVE  \E o \in OfferIds, u \in Users :
           LET id == lastOffer + 1
           IN /\ id \in OfferIds /\ o # id /\ o < id
              /\ offers[o].status = "submitted"
              /\ Moved(o, "countered")
              /\ offers'[id].status = "submitted"
              /\ offers'[id].buyer = offers[o].buyer
              /\ offers'[id].by # offers[o].by
              /\ offers'[id].parent = o
              /\ \A x \in OfferIds \ {o, id} : offers'[x] = offers[x]
              /\ events' = events \cup {Event(o, "countered", u), Event(id, "submitted", u)}
              /\ \A v \in {offers[o].buyer, Seller} \ {u} : Note(v, "countered", id) \in notes'
              /\ notes \subseteq notes'
<1> DEFINE o  == req[r].offer
           id == lastOffer + 1
           u  == CounterpartyOf(offers[o])
           child(p) == [buyer |-> offers[o].buyer,
                        by |-> IF offers[o].by = "buyer" THEN "seller" ELSE "buyer",
                        status |-> "submitted", price |-> p, parent |-> o]
<1>1. o \in OfferIds /\ id \in OfferIds /\ lastOffer \in Nat
  BY CounterInFlight
<1>2. offers[o].status = "submitted"
  BY DEF CounterWrite, AnswerOffer
<1>3. o # id /\ o < id
  BY <1>1, <1>2 DEF IdsInOrder, OfferIds
<1>4. PICK p \in Prices :
        /\ offers' = [offers EXCEPT ![o].status = "countered", ![id] = child(p)]
        /\ notes' = notes \cup {Note(Recipient(child(p), "countered"), "countered", id)}
  BY DEF CounterWrite, AnswerOffer
<1>5. events' = events \cup {Event(o, "countered", u), Event(id, "submitted", u)}
  BY DEF CounterWrite, AnswerOffer
<1>6. /\ offers'[o] = [offers[o] EXCEPT !.status = "countered"]
      /\ offers'[id] = child(p)
      /\ \A x \in OfferIds \ {o, id} : offers'[x] = offers[x]
  BY <1>1, <1>3, <1>4 DEF TypeOK
<1>7. Moved(o, "countered")
  BY <1>1, <1>6, MovedRow
<1>8. offers[o].by \in {"buyer", "seller"} /\ offers[o].buyer \in Users
  BY <1>1 DEF TypeOK, Offer
<1>9. u \in Users
  BY <1>8 DEF CounterpartyOf, Users
<1>10. \A v \in {offers[o].buyer, Seller} \ {u} : v = Recipient(child(p), "countered")
  BY <1>8 DEF CounterpartyOf, Recipient
<1>11. /\ offers'[id].status = "submitted"
       /\ offers'[id].buyer = offers[o].buyer
       /\ offers'[id].by # offers[o].by
       /\ offers'[id].parent = o
  BY <1>6, <1>8
<1>12. \A v \in {offers[o].buyer, Seller} \ {u} : Note(v, "countered", id) \in notes'
  BY <1>4, <1>10
<1>13. notes \subseteq notes'
  BY <1>4
<1> HIDE DEF u, o, id
<1>14. o \in OfferIds /\ u \in Users
  BY <1>1, <1>9
<1> QED
  BY <1>1, <1>2, <1>3, <1>5, <1>6, <1>7, <1>9, <1>11, <1>12, <1>13, <1>14 DEF id

\* An offer and its siblings are decided by an accept.
LEMMA AcceptTrail ==
    ASSUME NEW o \in OfferIds, TypeOK, AcceptOffer(o)
    PROVE  \E u \in Users :
           /\ events' = events \cup {Event(o, "accepted", u)} \cup
                        {Event(s, "auto_declined", u) : s \in Siblings(o)}
           /\ \A v \in {offers[o].buyer, Seller} \ {u} : Note(v, "accepted", o) \in notes'
           /\ notes \subseteq notes'
<1> DEFINE u == CounterpartyOf(offers[o])
<1>1. offers[o].by \in {"buyer", "seller"} /\ offers[o].buyer \in Users
  BY DEF TypeOK, Offer
<1>2. u \in Users
  BY <1>1 DEF CounterpartyOf, Users
<1>3. \A v \in {offers[o].buyer, Seller} \ {u} : v = Recipient(offers[o], "accepted")
  BY <1>1 DEF CounterpartyOf, Recipient, ProposerOf
<1>4. events' = events \cup {Event(o, "accepted", u)} \cup
                {Event(s, "auto_declined", u) : s \in Siblings(o)}
  BY DEF AcceptOffer
<1>5. /\ Note(Recipient(offers[o], "accepted"), "accepted", o) \in notes'
      /\ notes \subseteq notes'
  BY DEF AcceptOffer
<1> HIDE DEF u
<1> QED
  BY <1>2, <1>3, <1>4, <1>5

\* An offer is decided by one of its parties, and the other is notified.
LEMMA SettleTrail ==
    ASSUME NEW o \in OfferIds, TypeOK, DeclineOffer(o) \/ WithdrawOffer(o)
    PROVE  \E to \in {"declined", "withdrawn"}, u \in Users :
           /\ offers[o].status = "submitted"
           /\ Moved(o, to)
           /\ \A x \in OfferIds \ {o} : offers'[x] = offers[x]
           /\ events' = events \cup {Event(o, to, u)}
           /\ \A v \in {offers[o].buyer, Seller} \ {u} : Note(v, to, o) \in notes'
           /\ notes \subseteq notes'
<1>1. offers[o].by \in {"buyer", "seller"} /\ offers[o].buyer \in Users
  BY DEF TypeOK, Offer
<1>2. CounterpartyOf(offers[o]) \in Users /\ ProposerOf(offers[o]) \in Users
  BY <1>1 DEF CounterpartyOf, ProposerOf, Users
<1>3. ASSUME NEW to \in {"declined", "withdrawn"}, NEW u \in Users, Resolve(o, to, u),
             \A v \in {offers[o].buyer, Seller} \ {u} : v = Recipient(offers[o], to)
      PROVE  /\ offers[o].status = "submitted"
             /\ Moved(o, to)
             /\ \A x \in OfferIds \ {o} : offers'[x] = offers[x]
             /\ events' = events \cup {Event(o, to, u)}
             /\ \A v \in {offers[o].buyer, Seller} \ {u} : Note(v, to, o) \in notes'
             /\ notes \subseteq notes'
  <2>1. /\ events' = events \cup {Event(o, to, u)}
        /\ notes' = notes \cup {Note(Recipient(offers[o], to), to, o)}
    BY <1>3 DEF Resolve, Settle
  <2> QED
    BY <1>3, <2>1, ResolveRows
<1>4. CASE DeclineOffer(o)
  <2>1. \A v \in {offers[o].buyer, Seller} \ {CounterpartyOf(offers[o])} :
            v = Recipient(offers[o], "declined")
    BY <1>1 DEF CounterpartyOf, ProposerOf, Recipient
  <2> QED
    BY <1>2, <1>3, <1>4, <2>1 DEF DeclineOffer
<1>5. CASE WithdrawOffer(o)
  <2>1. \A v \in {offers[o].buyer, Seller} \ {ProposerOf(offers[o])} :
            v = Recipient(offers[o], "withdrawn")
    BY <1>1 DEF CounterpartyOf, ProposerOf, Recipient
  <2> QED
    BY <1>2, <1>3, <1>5, <2>1 DEF WithdrawOffer
<1> QED
  BY <1>4, <1>5

\* A deal is closed or unwound: one accepted offer moves, its buyer is notified,
\* the listing's audit row is written.
LEMMA DealTrail ==
    ASSUME NEW to, NEW offerTo, NEW action \in {"sold", "fell_through"}, TypeOK,
           ResolveDeal(to, offerTo, action)
    PROVE  \E o \in OfferIds :
           /\ offers[o].status = "accepted"
           /\ Moved(o, offerTo)
           /\ \A x \in OfferIds \ {o} : offers'[x] = offers[x]
           /\ events' = events \cup {Event(o, offerTo, Seller)}
           /\ Note(offers[o].buyer, offerTo, o) \in notes'
           /\ notes \subseteq notes'
           /\ log'[action] = log[action] + 1
           /\ \A a \in ListingAction \ {action} : log'[a] = log[a]
           /\ UNCHANGED publishedAt
<1>1. PICK o \in Accepted :
          /\ offers' = [offers EXCEPT ![o].status = offerTo]
          /\ events' = events \cup {Event(o, offerTo, Seller)}
          /\ notes' = notes \cup {Note(offers[o].buyer, offerTo, o)}
  BY DEF ResolveDeal
<1>2. o \in OfferIds /\ offers[o].status = "accepted"
  BY DEF Accepted
<1>3. /\ offers'[o] = [offers[o] EXCEPT !.status = offerTo]
      /\ \A x \in OfferIds \ {o} : offers'[x] = offers[x]
  BY <1>1, <1>2 DEF TypeOK
<1>4. /\ log'[action] = log[action] + 1
      /\ \A a \in ListingAction \ {action} : log'[a] = log[a]
      /\ UNCHANGED publishedAt
  BY DEF ResolveDeal, TypeOK, ListingAction
<1>5. Moved(o, offerTo)
  BY <1>2, <1>3, MovedRow
<1> QED
  BY <1>1, <1>2, <1>3, <1>4, <1>5

----------------------------------------------------------------------------
(* The chain of a negotiation. *)

\* Rows keep their terms; none but a submitted row is countered, and a countered
\* row stays so.
ChainKept ==
    /\ \A x \in OfferIds : SameTerms(x)
    /\ \A x \in OfferIds : (offers'[x].status = "countered") <=> (offers[x].status = "countered")
    /\ \A x \in OfferIds : offers'[x].status = "none" => offers'[x] = offers[x]

LEMMA ChainKeptBy ==
    ASSUME TypeOK,
           \A x \in OfferIds :
               \/ offers'[x] = offers[x]
               \/ \E to \in OfferStatus \ {"countered"} :
                    Moved(x, to) /\ offers[x].status \in {"submitted", "accepted"}
    PROVE  ChainKept
<1>1. ASSUME NEW x \in OfferIds
      PROVE  /\ SameTerms(x)
             /\ (offers'[x].status = "countered") <=> (offers[x].status = "countered")
             /\ offers'[x].status = "none" => offers'[x] = offers[x]
  <2>1. CASE offers'[x] = offers[x]
    BY <2>1 DEF SameTerms
  <2>2. ASSUME NEW to \in OfferStatus \ {"countered"}, Moved(x, to),
               offers[x].status \in {"submitted", "accepted"}
        PROVE  /\ SameTerms(x)
               /\ offers'[x].status # "countered" /\ offers[x].status # "countered"
               /\ offers'[x].status # "none"
    BY <2>2, MovedTerms DEF Moved, OfferStatus
  <2> QED
    BY <2>1, <2>2
<1> QED
  BY <1>1 DEF ChainKept

LEMMA ChainSame ==
    ASSUME TypeOK, NoRowYet, CounterChain, ChainKept
    PROVE  NoRowYet' /\ CounterChain'
<1>1. NoRowYet'
  BY DEF NoRowYet, ChainKept
<1>2. ASSUME NEW o \in OfferIds, offers'[o].parent # 0
      PROVE  LET p == offers'[o].parent
             IN /\ p < o
                /\ offers'[p].status = "countered"
                /\ offers'[p].buyer = offers'[o].buyer
                /\ offers'[p].by # offers'[o].by
  <2> DEFINE p == offers[o].parent
  <2>1. p = offers'[o].parent /\ p # 0
    BY <1>2 DEF ChainKept, SameTerms
  <2>2. p \in OfferIds
    BY <2>1 DEF TypeOK, Offer, OfferIds
  <2>3. /\ p < o /\ offers[p].status = "countered"
        /\ offers[p].buyer = offers[o].buyer /\ offers[p].by # offers[o].by
    BY <2>1 DEF CounterChain
  <2> QED
    BY <2>1, <2>2, <2>3 DEF ChainKept, SameTerms
<1>3. ASSUME NEW o \in OfferIds, offers'[o].status = "countered"
      PROVE  \E c \in OfferIds : {d \in OfferIds : offers'[d].parent = o} = {c}
  <2>1. offers[o].status = "countered"
    BY <1>3 DEF ChainKept
  <2>2. \E c \in OfferIds : {d \in OfferIds : offers[d].parent = o} = {c}
    BY <2>1 DEF CounterChain
  <2>3. {d \in OfferIds : offers'[d].parent = o} = {d \in OfferIds : offers[d].parent = o}
    BY DEF ChainKept, SameTerms
  <2> QED
    BY <2>2, <2>3
<1> QED
  BY <1>1, <1>2, <1>3 DEF CounterChain

ChainInv == NoRowYet /\ CounterChain

LEMMA ChainInit == Init => ChainInv
<1> SUFFICES ASSUME Init PROVE ChainInv
  OBVIOUS
<1>1. \A o \in OfferIds : offers[o] = NoOffer
  BY DEF Init
<1> QED
  BY <1>1 DEF ChainInv, NoRowYet, CounterChain, NoOffer

LEMMA ChainCreate ==
    ASSUME Inv, ChainInv, NEW r \in Requests, CreateWrite(r)
    PROVE  ChainInv'
<1> DEFINE id == lastOffer + 1
<1>1. /\ id \in OfferIds
      /\ offers'[id].status = "submitted"
      /\ offers'[id].parent = 0
      /\ \A x \in OfferIds \ {id} : offers'[x] = offers[x]
  BY CreateTrail DEF Inv
<1>2. offers[id].status = "none" /\ offers[id].parent = 0
  BY <1>1 DEF Inv, IdsInOrder, OfferIds, TypeOK, ChainInv, NoRowYet, NoOffer
<1> HIDE DEF id
<1>3. NoRowYet'
  BY <1>1 DEF ChainInv, NoRowYet
<1>4. ASSUME NEW o \in OfferIds, offers'[o].parent # 0
      PROVE  LET p == offers'[o].parent
             IN /\ p < o
                /\ offers'[p].status = "countered"
                /\ offers'[p].buyer = offers'[o].buyer
                /\ offers'[p].by # offers'[o].by
  <2> DEFINE p == offers[o].parent
  <2>1. offers'[o] = offers[o] /\ p # 0
    BY <1>1, <1>4
  <2>2. p \in OfferIds
    BY <2>1 DEF Inv, TypeOK, Offer, OfferIds
  <2>3. /\ p < o /\ offers[p].status = "countered"
        /\ offers[p].buyer = offers[o].buyer /\ offers[p].by # offers[o].by
    BY <2>1 DEF ChainInv, CounterChain
  <2>4. p # id
    BY <1>2, <2>3
  <2> QED
    BY <1>1, <2>1, <2>2, <2>3, <2>4
<1>5. ASSUME NEW o \in OfferIds, offers'[o].status = "countered"
      PROVE  \E c \in OfferIds : {d \in OfferIds : offers'[d].parent = o} = {c}
  <2>1. offers[o].status = "countered"
    BY <1>1, <1>5
  <2>2. \E c \in OfferIds : {d \in OfferIds : offers[d].parent = o} = {c}
    BY <2>1 DEF ChainInv, CounterChain
  <2>3. {d \in OfferIds : offers'[d].parent = o} = {d \in OfferIds : offers[d].parent = o}
    BY <1>1, <1>2
  <2> QED
    BY <2>2, <2>3
<1> QED
  BY <1>3, <1>4, <1>5 DEF ChainInv, CounterChain

LEMMA ChainCounter ==
    ASSUME Inv, ChainInv, NEW r \in Requests, CounterWrite(r)
    PROVE  ChainInv'
<1> DEFINE id == lastOffer + 1
<1>1. PICK k \in OfferIds :
        /\ id \in OfferIds /\ k # id /\ k < id
        /\ offers[k].status = "submitted"
        /\ Moved(k, "countered")
        /\ offers'[id].status = "submitted"
        /\ offers'[id].buyer = offers[k].buyer
        /\ offers'[id].by # offers[k].by
        /\ offers'[id].parent = k
        /\ \A x \in OfferIds \ {k, id} : offers'[x] = offers[x]
  BY CounterTrail DEF Inv
<1>2. offers[id].status = "none" /\ offers[id].parent = 0
  BY <1>1 DEF Inv, IdsInOrder, OfferIds, TypeOK, ChainInv, NoRowYet, NoOffer
<1> HIDE DEF id
<1>3. SameTerms(k) /\ offers'[k].status = "countered"
  BY <1>1, MovedTerms DEF Inv, Moved
<1>4. \A x \in OfferIds \ {id} : SameTerms(x)
  BY <1>1, <1>3 DEF SameTerms
<1>5. NoRowYet'
  BY <1>1, <1>3 DEF ChainInv, NoRowYet
<1>6. k \in Nat \ {0}
  BY DEF OfferIds
<1>7. ASSUME NEW o \in OfferIds, offers'[o].parent # 0
      PROVE  LET p == offers'[o].parent
             IN /\ p < o
                /\ offers'[p].status = "countered"
                /\ offers'[p].buyer = offers'[o].buyer
                /\ offers'[p].by # offers'[o].by
  <2>1. CASE o = id
    BY <1>1, <1>3, <2>1 DEF SameTerms
  <2>2. CASE o # id
    <3> DEFINE p == offers[o].parent
    <3>1. p = offers'[o].parent /\ p # 0
      BY <1>4, <1>7, <2>2 DEF SameTerms
    <3>2. p \in OfferIds
      BY <3>1 DEF Inv, TypeOK, Offer, OfferIds
    <3>3. /\ p < o /\ offers[p].status = "countered"
          /\ offers[p].buyer = offers[o].buyer /\ offers[p].by # offers[o].by
      BY <3>1 DEF ChainInv, CounterChain
    <3>4. p \notin {k, id}
      BY <1>1, <1>2, <3>3
    <3>5. offers'[p] = offers[p]
      BY <1>1, <3>2, <3>4
    <3> QED
      BY <1>4, <2>2, <3>1, <3>3, <3>5 DEF SameTerms
  <2> QED
    BY <2>1, <2>2
<1>8. \A d \in OfferIds : offers[d].parent # k
  <2> SUFFICES ASSUME NEW d \in OfferIds, offers[d].parent = k PROVE FALSE
    OBVIOUS
  <2>1. offers[k].status = "countered"
    BY <1>6 DEF ChainInv, CounterChain
  <2> QED
    BY <1>1, <2>1
<1>9. ASSUME NEW o \in OfferIds, offers'[o].status = "countered"
      PROVE  \E c \in OfferIds : {d \in OfferIds : offers'[d].parent = o} = {c}
  <2>1. CASE o = k
    <3>1. {d \in OfferIds : offers'[d].parent = k} = {id}
      BY <1>1, <1>4, <1>8 DEF SameTerms
    <3> QED
      BY <1>1, <2>1, <3>1
  <2>2. CASE o # k
    <3>1. offers[o].status = "countered"
      BY <1>1, <1>9, <2>2
    <3>2. \E c \in OfferIds : {d \in OfferIds : offers[d].parent = o} = {c}
      BY <3>1 DEF ChainInv, CounterChain
    <3>3. o # 0
      BY DEF OfferIds
    <3>4. {d \in OfferIds : offers'[d].parent = o} = {d \in OfferIds : offers[d].parent = o}
      BY <1>1, <1>2, <1>4, <2>2, <3>3 DEF SameTerms
    <3> QED
      BY <3>2, <3>4
  <2> QED
    BY <2>1, <2>2
<1> QED
  BY <1>5, <1>7, <1>9 DEF ChainInv, CounterChain

LEMMA ChainStep == Inv /\ ChainInv /\ [Next]_vars => ChainInv'
<1> SUFFICES ASSUME Inv, ChainInv, [Next]_vars PROVE ChainInv'
  OBVIOUS
<1>1. ChainKept => ChainInv'
  BY ChainSame DEF Inv, ChainInv
<1>2. CASE Read \/ Finish \/ (\E r \in Requests : LifecycleWrite(r)) \/ UNCHANGED vars
  BY <1>1, <1>2, QuietTrail, ChainKeptBy DEF Inv
<1>3. ASSUME NEW o \in OfferIds, AcceptOffer(o) PROVE ChainInv'
  <2>1. \A x \in OfferIds :
          \/ offers'[x] = offers[x]
          \/ \E to \in OfferStatus \ {"countered"} :
               Moved(x, to) /\ offers[x].status \in {"submitted", "accepted"}
    BY <1>3, AcceptRows DEF Inv, OfferStatus
  <2> QED
    BY <1>1, <2>1, ChainKeptBy DEF Inv
<1>4. ASSUME NEW o \in OfferIds, DeclineOffer(o) \/ WithdrawOffer(o) PROVE ChainInv'
  <2>1. \A x \in OfferIds :
          \/ offers'[x] = offers[x]
          \/ \E to \in OfferStatus \ {"countered"} :
               Moved(x, to) /\ offers[x].status \in {"submitted", "accepted"}
    BY <1>4, SettleTrail DEF Inv, OfferStatus
  <2> QED
    BY <1>1, <2>1, ChainKeptBy DEF Inv
<1>5. ASSUME NEW to, NEW offerTo \in {"completed", "lapsed"},
             NEW action \in {"sold", "fell_through"}, ResolveDeal(to, offerTo, action)
      PROVE  ChainInv'
  <2>1. \A x \in OfferIds :
          \/ offers'[x] = offers[x]
          \/ \E s \in OfferStatus \ {"countered"} :
               Moved(x, s) /\ offers[x].status \in {"submitted", "accepted"}
    BY <1>5, DealTrail DEF Inv, OfferStatus
  <2> QED
    BY <1>1, <2>1, ChainKeptBy DEF Inv
<1>6. ASSUME NEW r \in Requests, Write(r) PROVE ChainInv'
  BY <1>2, <1>6, ChainCreate, ChainCounter DEF Write, LifecycleWrite
<1>7. CASE Swap
  BY <1>3, <1>4, <1>5, <1>7 DEF Swap, MarkSold, Relist
<1> QED
  BY <1>2, <1>6, <1>7 DEF Next

LEMMA ChainAlways == Spec => []ChainInv
  BY ChainInit, ChainStep, InvAlways, PTL DEF Spec

\* A counter-offer answers one countered offer of the other side, and a
\* countered offer has one answer, whichever counters raced.
THEOREM NegotiationIsAChain == Spec => []CounterChain
  BY ChainAlways, PTL DEF ChainInv

----------------------------------------------------------------------------
(* The trail of an offer. *)

RowsOf(o)    == {e \in events : e.offer = o}
ActionsOf(o) == {e.action : e \in RowsOf(o)}

History(o) ==
    /\ ActionsOf(o) \in TrailsOf(offers[o].status)
    /\ \A e, f \in RowsOf(o) : e.action = f.action => e = f

LEMMA TrailsAre ==
    /\ TrailsOf("none") = {{}}
    /\ TrailsOf("submitted") = {{"submitted"}}
    /\ TrailsOf("accepted") = {{"submitted", "accepted"}}
    /\ TrailsOf("declined") = {{"submitted", "declined"}, {"submitted", "auto_declined"}}
    /\ TrailsOf("countered") = {{"submitted", "countered"}}
    /\ TrailsOf("withdrawn") = {{"submitted", "withdrawn"}}
    /\ TrailsOf("completed") = {{"submitted", "accepted", "completed"}}
    /\ TrailsOf("lapsed") = {{"submitted", "accepted", "lapsed"}}
BY DEF TrailsOf

LEMMA HistorySame ==
    ASSUME NEW o, History(o), offers'[o].status = offers[o].status,
           RowsOf(o)' = RowsOf(o)
    PROVE  History(o)'
BY DEF History, ActionsOf

LEMMA HistoryMove ==
    ASSUME NEW o, NEW a, NEW u, History(o), a \notin ActionsOf(o),
           RowsOf(o)' = RowsOf(o) \cup {Event(o, a, u)},
           ActionsOf(o) \cup {a} \in TrailsOf(offers'[o].status)
    PROVE  History(o)'
<1> DEFINE new == Event(o, a, u)
<1>1. new.action = a
  BY DEF Event
<1> HIDE DEF new
<1>2. RowsOf(o)' = RowsOf(o) \cup {new}
  BY DEF new
<1>3. ActionsOf(o)' = ActionsOf(o) \cup {a}
  BY <1>1, <1>2 DEF ActionsOf
<1>4. \A e \in RowsOf(o) : e.action # a
  BY DEF ActionsOf
<1>5. \A e, f \in RowsOf(o)' : e.action = f.action => e = f
  BY <1>1, <1>2, <1>4 DEF History
<1> QED
  BY <1>3, <1>5 DEF History

LEMMA EventOffer == \A o, a, u : Event(o, a, u).offer = o
  BY DEF Event

\* One event more, of one offer.
LEMMA OneMore ==
    ASSUME NEW o, NEW a, NEW u, events' = events \cup {Event(o, a, u)}
    PROVE  /\ RowsOf(o)' = RowsOf(o) \cup {Event(o, a, u)}
           /\ \A x : x # o => RowsOf(x)' = RowsOf(x)
BY EventOffer DEF RowsOf

LEMMA HistoryInit == Init => \A o \in OfferIds : History(o)
<1> SUFFICES ASSUME Init, NEW o \in OfferIds PROVE History(o)
  OBVIOUS
<1>1. RowsOf(o) = {} /\ offers[o].status = "none"
  BY DEF Init, RowsOf, NoOffer
<1>2. ActionsOf(o) = {}
  BY <1>1 DEF ActionsOf
<1> QED
  BY <1>1, <1>2, TrailsAre DEF History

LEMMA HistoryStep ==
    ASSUME Inv, \A o \in OfferIds : History(o), [Next]_vars
    PROVE  \A o \in OfferIds : History(o)'
<1>1. CASE Read \/ Finish \/ (\E r \in Requests : LifecycleWrite(r)) \/ UNCHANGED vars
  BY <1>1, QuietTrail, HistorySame DEF RowsOf
<1>2. ASSUME NEW r \in Requests, CreateWrite(r), NEW x \in OfferIds PROVE History(x)'
  <2>0. PICK id, u : id = lastOffer + 1 /\ u = offers'[lastOffer + 1].buyer
    OBVIOUS
  <2>1. /\ id \in OfferIds
        /\ offers'[id].status = "submitted"
        /\ \A y \in OfferIds \ {id} : offers'[y] = offers[y]
        /\ events' = events \cup {Event(id, "submitted", u)}
    BY <1>2, <2>0, CreateTrail DEF Inv
  <2>2. offers[id].status = "none"
    BY <2>0, <2>1 DEF Inv, IdsInOrder, OfferIds, TypeOK
  <2>3. CASE x = id
    <3>1. ActionsOf(id) = {}
      BY <2>1, <2>2, TrailsAre DEF History
    <3>2. ActionsOf(id) \cup {"submitted"} \in TrailsOf(offers'[id].status)
      BY <2>1, <3>1, TrailsAre
    <3>3. RowsOf(id)' = RowsOf(id) \cup {Event(id, "submitted", u)}
      BY <2>1, OneMore
    <3>4. "submitted" \notin ActionsOf(id) /\ History(id)
      BY <2>1, <3>1
    <3>5. History(id)'
      BY ONLY <3>2, <3>3, <3>4, HistoryMove
    <3> QED
      BY <2>3, <3>5
  <2>4. CASE x # id
    BY <2>1, <2>4, OneMore, HistorySame
  <2> QED
    BY <2>3, <2>4
<1>3. ASSUME NEW r \in Requests, CounterWrite(r), NEW x \in OfferIds PROVE History(x)'
  <2>0. PICK id : id = lastOffer + 1
    OBVIOUS
  <2>1. PICK k \in OfferIds, u \in Users :
        /\ id \in OfferIds /\ k # id
        /\ offers[k].status = "submitted"
        /\ Moved(k, "countered")
        /\ offers'[id].status = "submitted"
        /\ \A y \in OfferIds \ {k, id} : offers'[y] = offers[y]
        /\ events' = events \cup {Event(k, "countered", u), Event(id, "submitted", u)}
    BY <1>3, <2>0, CounterTrail DEF Inv
  <2>2. offers[id].status = "none"
    BY <2>0, <2>1 DEF Inv, IdsInOrder, OfferIds, TypeOK
  <2>3. /\ RowsOf(k)' = RowsOf(k) \cup {Event(k, "countered", u)}
        /\ RowsOf(id)' = RowsOf(id) \cup {Event(id, "submitted", u)}
        /\ x \notin {k, id} => RowsOf(x)' = RowsOf(x)
    <3> DEFINE a == Event(k, "countered", u)
               b == Event(id, "submitted", u)
    <3>1. a.offer = k /\ b.offer = id
      BY EventOffer
    <3>2. events' = events \cup {a, b}
      BY <2>1
    <3> HIDE DEF a, b
    <3>3. RowsOf(k)' = RowsOf(k) \cup {a}
      BY <2>1, <3>1, <3>2 DEF RowsOf
    <3>4. RowsOf(id)' = RowsOf(id) \cup {b}
      BY <2>1, <3>1, <3>2 DEF RowsOf
    <3>5. x \notin {k, id} => RowsOf(x)' = RowsOf(x)
      BY <3>1, <3>2 DEF RowsOf
    <3> QED
      BY <3>3, <3>4, <3>5 DEF a, b
  <2>4. CASE x = id
    <3>1. ActionsOf(id) = {}
      BY <2>1, <2>2, TrailsAre DEF History
    <3>2. ActionsOf(id) \cup {"submitted"} \in TrailsOf(offers'[id].status)
      BY <2>1, <3>1, TrailsAre
    <3>3. "submitted" \notin ActionsOf(id) /\ History(id)
      BY <2>1, <3>1
    <3>4. RowsOf(id)' = RowsOf(id) \cup {Event(id, "submitted", u)}
      BY <2>3
    <3>5. History(id)'
      BY ONLY <3>2, <3>3, <3>4, HistoryMove
    <3> QED
      BY <2>4, <3>5
  <2>5. CASE x = k
    <3>1. ActionsOf(k) = {"submitted"}
      BY <2>1, TrailsAre DEF History
    <3>2. ActionsOf(k) \cup {"countered"} \in TrailsOf(offers'[k].status)
      BY <2>1, <3>1, TrailsAre DEF Moved
    <3>3. "countered" \notin ActionsOf(k) /\ History(k)
      BY <3>1
    <3>4. RowsOf(k)' = RowsOf(k) \cup {Event(k, "countered", u)}
      BY <2>3
    <3>5. History(k)'
      BY ONLY <3>2, <3>3, <3>4, HistoryMove
    <3> QED
      BY <2>5, <3>5
  <2>6. CASE x \notin {k, id}
    BY <2>1, <2>3, <2>6, HistorySame
  <2> QED
    BY <2>4, <2>5, <2>6
<1>4. ASSUME NEW o \in OfferIds, AcceptOffer(o), NEW x \in OfferIds PROVE History(x)'
  <2>1. PICK u \in Users :
           events' = events \cup {Event(o, "accepted", u)} \cup
                        {Event(s, "auto_declined", u) : s \in Siblings(o)}
    BY <1>4, AcceptTrail DEF Inv
  <2>2. /\ offers[o].status = "submitted" /\ Moved(o, "accepted")
        /\ \A y \in OfferIds \ {o} : IF offers[y].status = "submitted"
                                     THEN Moved(y, "declined") ELSE offers'[y] = offers[y]
        /\ \A y \in OfferIds : y \in Siblings(o) <=> y # o /\ offers[y].status = "submitted"
    BY <1>4, AcceptRows DEF Inv, Siblings, Submitted
  <2>3. CASE x = o
    <3>1. RowsOf(o)' = RowsOf(o) \cup {Event(o, "accepted", u)}
      BY <2>1, <2>2, EventOffer DEF RowsOf
    <3>2. ActionsOf(o) = {"submitted"}
      BY <2>2, TrailsAre DEF History
    <3>3. ActionsOf(o) \cup {"accepted"} \in TrailsOf(offers'[o].status)
      BY <2>2, <3>2, TrailsAre DEF Moved
    <3>4. "accepted" \notin ActionsOf(o) /\ History(o)
      BY <3>2
    <3>5. History(o)'
      BY ONLY <3>1, <3>3, <3>4, HistoryMove
    <3> QED
      BY <2>3, <3>5
  <2>4. CASE x # o /\ offers[x].status = "submitted"
    <3>1. RowsOf(x)' = RowsOf(x) \cup {Event(x, "auto_declined", u)}
      BY <2>1, <2>2, <2>4, EventOffer DEF RowsOf
    <3>2. ActionsOf(x) = {"submitted"}
      BY <2>4, TrailsAre DEF History
    <3>3. offers'[x].status = "declined"
      BY <2>2, <2>4 DEF Moved
    <3>4. ActionsOf(x) \cup {"auto_declined"} = {"submitted", "auto_declined"}
      BY <3>2
    <3>5. ActionsOf(x) \cup {"auto_declined"} \in TrailsOf(offers'[x].status)
      BY <3>3, <3>4, TrailsAre
    <3>6. "auto_declined" \notin ActionsOf(x) /\ History(x)
      BY <3>2
    <3> QED
      BY ONLY <3>1, <3>5, <3>6, HistoryMove
  <2>5. CASE x # o /\ offers[x].status # "submitted"
    <3>1. RowsOf(x)' = RowsOf(x)
      BY <2>1, <2>2, <2>5, EventOffer DEF RowsOf
    <3> QED
      BY <2>2, <2>5, <3>1, HistorySame
  <2> QED
    BY <2>3, <2>4, <2>5
<1>5. ASSUME NEW o \in OfferIds, DeclineOffer(o) \/ WithdrawOffer(o), NEW x \in OfferIds
      PROVE  History(x)'
  <2>1. PICK to \in {"declined", "withdrawn"}, u \in Users :
           /\ offers[o].status = "submitted"
           /\ Moved(o, to)
           /\ \A y \in OfferIds \ {o} : offers'[y] = offers[y]
           /\ events' = events \cup {Event(o, to, u)}
    BY <1>5, SettleTrail DEF Inv
  <2>2. CASE x = o
    <3>1. ActionsOf(o) = {"submitted"}
      BY <2>1, TrailsAre DEF History
    <3>2. ActionsOf(o) \cup {to} \in TrailsOf(offers'[o].status)
      BY <2>1, <3>1, TrailsAre DEF Moved
    <3>3. RowsOf(o)' = RowsOf(o) \cup {Event(o, to, u)}
      BY <2>1, OneMore
    <3>4. to \notin ActionsOf(o) /\ History(o)
      BY <3>1
    <3>5. History(o)'
      BY ONLY <3>2, <3>3, <3>4, HistoryMove
    <3> QED
      BY <2>2, <3>5
  <2>3. CASE x # o
    BY <2>1, <2>3, OneMore, HistorySame
  <2> QED
    BY <2>2, <2>3
<1>6. ASSUME NEW to, NEW offerTo \in {"completed", "lapsed"},
             NEW action \in {"sold", "fell_through"}, ResolveDeal(to, offerTo, action),
             NEW x \in OfferIds
      PROVE  History(x)'
  <2>1. PICK o \in OfferIds :
           /\ offers[o].status = "accepted"
           /\ Moved(o, offerTo)
           /\ \A y \in OfferIds \ {o} : offers'[y] = offers[y]
           /\ events' = events \cup {Event(o, offerTo, Seller)}
    BY <1>6, DealTrail DEF Inv
  <2>2. CASE x = o
    <3>1. ActionsOf(o) = {"submitted", "accepted"}
      BY <2>1, TrailsAre DEF History
    <3>2. ActionsOf(o) \cup {offerTo} \in TrailsOf(offers'[o].status)
      BY <2>1, <3>1, TrailsAre DEF Moved
    <3>3. RowsOf(o)' = RowsOf(o) \cup {Event(o, offerTo, Seller)}
      BY <2>1, OneMore
    <3>4. offerTo \notin ActionsOf(o) /\ History(o)
      BY <3>1
    <3>5. History(o)'
      BY ONLY <3>2, <3>3, <3>4, HistoryMove
    <3> QED
      BY <2>2, <3>5
  <2>3. CASE x # o
    BY <2>1, <2>3, OneMore, HistorySame
  <2> QED
    BY <2>2, <2>3
<1>7. ASSUME NEW r \in Requests, Write(r) PROVE \A x \in OfferIds : History(x)'
  BY <1>1, <1>2, <1>3, <1>7 DEF Write, LifecycleWrite
<1>8. ASSUME Swap PROVE \A x \in OfferIds : History(x)'
  BY <1>4, <1>5, <1>6, <1>8 DEF Swap, MarkSold, Relist
<1> QED
  BY <1>1, <1>7, <1>8 DEF Next

Histories == \A o \in OfferIds : History(o)

LEMMA HistoriesAlways == Spec => []Histories
<1>1. Init => Histories
  BY HistoryInit DEF Histories
<1>2. Inv /\ Histories /\ [Next]_vars => Histories'
  BY HistoryStep DEF Histories
<1> QED
  BY <1>1, <1>2, InvAlways, PTL DEF Spec

\* An offer is decided once: its events are the history of its status, whichever
\* requests raced to decide it.
THEOREM DecidedOnce == Spec => []TrailIsHistory
<1>1. Histories => TrailIsHistory
  BY DEF Histories, History, ActionsOf, RowsOf, TrailIsHistory
<1> QED
  BY <1>1, HistoriesAlways, PTL

----------------------------------------------------------------------------
(* The notification of an event. *)

Told(e) ==
    e.action # "auto_declined" =>
        \A u \in {offers[e.offer].buyer, Seller} \ {e.actor} :
            \E n \in notes : n.to = u /\ TellsOf(n, e)

\* A row that has an event has been given out.
LEMMA EventsAreOfRows ==
    ASSUME TypeOK, Histories, NEW e \in events
    PROVE  e.offer \in OfferIds /\ offers[e.offer].status # "none"
<1>1. e.offer \in OfferIds
  BY DEF TypeOK, OfferEvent
<1>2. e \in RowsOf(e.offer)
  BY DEF RowsOf
<1>3. e.action \in ActionsOf(e.offer)
  BY <1>2 DEF ActionsOf
<1>4. ASSUME offers[e.offer].status = "none" PROVE FALSE
  <2>1. ActionsOf(e.offer) \in {{}}
    BY <1>1, <1>4, TrailsAre DEF Histories, History
  <2> QED
    BY <1>3, <2>1
<1> QED
  BY <1>1, <1>4

\* No row loses its buyer, no answer its question and no one a notification.
LEMMA ToldStays ==
    ASSUME TypeOK, Histories, NoRowYet, OtherPartyTold, notes \subseteq notes',
           \A x \in OfferIds : offers[x].status # "none" => SameTerms(x)
    PROVE  \A e \in events : Told(e)'
<1> SUFFICES ASSUME NEW e \in events, e.action # "auto_declined",
                    NEW u \in {offers[e.offer].buyer, Seller} \ {e.actor}
             PROVE  \E n \in notes' : n.to = u /\ TellsOf(n, e)'
  <2>1. \A e \in events : offers'[e.offer].buyer = offers[e.offer].buyer
    BY EventsAreOfRows DEF SameTerms
  <2> QED
    BY <2>1 DEF Told
<1>1. PICK n \in notes : n.to = u /\ TellsOf(n, e)
  BY DEF OtherPartyTold
<1>2. e.offer \in OfferIds /\ e.offer # 0
  BY EventsAreOfRows DEF OfferIds
<1>3. n.offer \in 0 .. MaxOffers
  BY DEF TypeOK, Notification
<1>4. ASSUME n.offer # 0, offers[n.offer].parent = e.offer
      PROVE  offers'[n.offer].parent = e.offer
  <2>1. n.offer \in OfferIds
    BY <1>3, <1>4 DEF OfferIds
  <2>2. offers[n.offer].status # "none"
    BY <1>2, <1>4, <2>1 DEF NoRowYet, NoOffer
  <2> QED
    BY <1>4, <2>1, <2>2 DEF SameTerms
<1>5. TellsOf(n, e)'
  BY <1>1, <1>4 DEF TellsOf
<1> QED
  BY <1>1, <1>5

LEMMA SameRow == ASSUME NEW x, offers'[x] = offers[x] PROVE SameTerms(x)
BY DEF SameTerms

\* One event more, told under its own name.
LEMMA ToldNow ==
    ASSUME NEW o, NEW a, NEW u,
           \A v \in {offers'[o].buyer, Seller} \ {u} : Note(v, a, o) \in notes'
    PROVE  Told(Event(o, a, u))'
<1> DEFINE e == Event(o, a, u)
<1>1. e.offer = o /\ e.action = a /\ e.actor = u
  BY DEF Event
<1> HIDE DEF e
<1>2. ASSUME NEW v \in {offers'[e.offer].buyer, Seller} \ {e.actor}
      PROVE  \E n \in notes' : n.to = v /\ TellsOf(n, e)'
  <2>1. Note(v, a, o) \in notes'
    BY <1>1, <1>2
  <2>2. Note(v, a, o).to = v /\ Note(v, a, o).offer = o /\ Note(v, a, o).type = a
    BY DEF Note
  <2>3. TellsOf(Note(v, a, o), e)'
    BY <1>1, <2>2 DEF TellsOf
  <2> QED
    BY <2>1, <2>2, <2>3
<1>3. Told(e)'
  BY <1>2 DEF Told
<1> QED
  BY <1>3 DEF e

LEMMA ToldStep ==
    ASSUME Inv, NoRowYet, Histories, OtherPartyTold, [Next]_vars
    PROVE  OtherPartyTold'
<1>0. ASSUME \A e \in events' : Told(e)' PROVE OtherPartyTold'
  BY <1>0 DEF OtherPartyTold, Told
<1> USE DEF Inv
<1>1. ASSUME Read \/ Finish \/ (\E r \in Requests : LifecycleWrite(r)) \/ UNCHANGED vars
      PROVE  OtherPartyTold'
  <2>1. UNCHANGED <<offers, lastOffer, events>> /\ notes \subseteq notes'
    BY <1>1, QuietTrail
  <2>2. \A x \in OfferIds : SameTerms(x)
    BY <2>1, SameRow
  <2> QED
    BY <1>0, <2>1, <2>2, ToldStays
<1>2. ASSUME NEW r \in Requests, CreateWrite(r) PROVE OtherPartyTold'
  <2>0. PICK id, u : id = lastOffer + 1 /\ u = offers'[lastOffer + 1].buyer
    OBVIOUS
  <2>1. /\ id \in OfferIds
        /\ u = offers'[id].buyer
        /\ \A y \in OfferIds \ {id} : offers'[y] = offers[y]
        /\ events' = events \cup {Event(id, "submitted", u)}
        /\ notes' = notes \cup {Note(Seller, "submitted", id)}
    BY <1>2, <2>0, CreateTrail
  <2>2. offers[id].status = "none"
    BY <2>0, <2>1 DEF IdsInOrder, OfferIds, TypeOK
  <2>3. \A x \in OfferIds : offers[x].status # "none" => SameTerms(x)
    BY <2>1, <2>2, SameRow
  <2>4. \A e \in events : Told(e)'
    BY <2>1, <2>3, ToldStays
  <2>5. \A v \in {offers'[id].buyer, Seller} \ {u} : Note(v, "submitted", id) \in notes'
    BY <2>1
  <2>6. Told(Event(id, "submitted", u))'
    BY <2>5, ToldNow
  <2> QED
    BY <1>0, <2>1, <2>4, <2>6
<1>3. ASSUME NEW r \in Requests, CounterWrite(r) PROVE OtherPartyTold'
  <2>0. PICK id : id = lastOffer + 1
    OBVIOUS
  <2>1. PICK k \in OfferIds, u \in Users :
        /\ id \in OfferIds /\ k # id
        /\ Moved(k, "countered")
        /\ offers'[id].buyer = offers[k].buyer
        /\ offers'[id].parent = k
        /\ \A y \in OfferIds \ {k, id} : offers'[y] = offers[y]
        /\ events' = events \cup {Event(k, "countered", u), Event(id, "submitted", u)}
        /\ \A v \in {offers[k].buyer, Seller} \ {u} : Note(v, "countered", id) \in notes'
        /\ notes \subseteq notes'
    BY <1>3, <2>0, CounterTrail
  <2>2. offers[id].status = "none" /\ id # 0
    BY <2>0, <2>1 DEF IdsInOrder, OfferIds, TypeOK
  <2>3. \A x \in OfferIds : offers[x].status # "none" => SameTerms(x)
    BY <2>1, <2>2, SameRow, MovedTerms
  <2>4. \A e \in events : Told(e)'
    BY <2>1, <2>3, ToldStays
  <2>5. offers'[k].buyer = offers[k].buyer
    BY <2>1 DEF Moved
  <2>6. ASSUME NEW e \in {Event(k, "countered", u), Event(id, "submitted", u)}
        PROVE  Told(e)'
    <3>1. /\ e.actor = u
          /\ \/ e.action = "submitted" /\ e.offer = id
             \/ e.action = "countered" /\ e.offer = k
      BY DEF Event
    <3>2. offers'[e.offer].buyer = offers[k].buyer
      BY <2>1, <2>5, <3>1
    <3>3. ASSUME NEW v \in {offers'[e.offer].buyer, Seller} \ {e.actor}
          PROVE  \E n \in notes' : n.to = v /\ TellsOf(n, e)'
      <4>1. Note(v, "countered", id) \in notes'
        BY <2>1, <3>1, <3>2, <3>3
      <4>2. /\ Note(v, "countered", id).to = v
            /\ Note(v, "countered", id).offer = id
            /\ Note(v, "countered", id).type = "countered"
        BY DEF Note
      <4>3. TellsOf(Note(v, "countered", id), e)'
        BY <2>1, <2>2, <3>1, <4>2 DEF TellsOf
      <4> QED
        BY <4>1, <4>2, <4>3
    <3> QED
      BY <3>3 DEF Told
  <2> QED
    BY <1>0, <2>1, <2>4, <2>6
<1>4. ASSUME NEW o \in OfferIds, AcceptOffer(o) PROVE OtherPartyTold'
  <2>1. PICK u \in Users :
           /\ events' = events \cup {Event(o, "accepted", u)} \cup
                        {Event(s, "auto_declined", u) : s \in Siblings(o)}
           /\ \A v \in {offers[o].buyer, Seller} \ {u} : Note(v, "accepted", o) \in notes'
           /\ notes \subseteq notes'
    BY <1>4, AcceptTrail
  <2>2. /\ Moved(o, "accepted")
        /\ \A y \in OfferIds \ {o} : Moved(y, "declined") \/ offers'[y] = offers[y]
    BY <1>4, AcceptRows
  <2>3. \A x \in OfferIds : SameTerms(x)
    BY <2>2, SameRow, MovedTerms
  <2>4. \A e \in events : Told(e)'
    BY <2>1, <2>3, ToldStays
  <2>5. Told(Event(o, "accepted", u))'
    <3>1. offers'[o].buyer = offers[o].buyer
      BY <2>2 DEF Moved
    <3> QED
      BY <2>1, <3>1, ToldNow
  <2>6. \A s \in Siblings(o) : Told(Event(s, "auto_declined", u))'
    BY DEF Told, Event
  <2> QED
    BY <1>0, <2>1, <2>4, <2>5, <2>6
<1>5. ASSUME NEW o \in OfferIds, DeclineOffer(o) \/ WithdrawOffer(o) PROVE OtherPartyTold'
  <2>1. PICK to \in {"declined", "withdrawn"}, u \in Users :
           /\ Moved(o, to)
           /\ \A y \in OfferIds \ {o} : offers'[y] = offers[y]
           /\ events' = events \cup {Event(o, to, u)}
           /\ \A v \in {offers[o].buyer, Seller} \ {u} : Note(v, to, o) \in notes'
           /\ notes \subseteq notes'
    BY <1>5, SettleTrail
  <2>2. \A x \in OfferIds : SameTerms(x)
    BY <2>1, SameRow, MovedTerms
  <2>3. \A e \in events : Told(e)'
    BY <2>1, <2>2, ToldStays
  <2>4. Told(Event(o, to, u))'
    <3>1. offers'[o].buyer = offers[o].buyer
      BY <2>1 DEF Moved
    <3> QED
      BY <2>1, <3>1, ToldNow
  <2> QED
    BY <1>0, <2>1, <2>3, <2>4
<1>6. ASSUME NEW to, NEW offerTo, NEW action \in {"sold", "fell_through"},
             ResolveDeal(to, offerTo, action)
      PROVE  OtherPartyTold'
  <2>1. PICK o \in OfferIds :
           /\ Moved(o, offerTo)
           /\ \A y \in OfferIds \ {o} : offers'[y] = offers[y]
           /\ events' = events \cup {Event(o, offerTo, Seller)}
           /\ Note(offers[o].buyer, offerTo, o) \in notes'
           /\ notes \subseteq notes'
    BY <1>6, DealTrail
  <2>2. \A x \in OfferIds : SameTerms(x)
    BY <2>1, SameRow, MovedTerms
  <2>3. \A e \in events : Told(e)'
    BY <2>1, <2>2, ToldStays
  <2>4. Told(Event(o, offerTo, Seller))'
    <3>1. \A v \in {offers'[o].buyer, Seller} \ {Seller} : Note(v, offerTo, o) \in notes'
      BY <2>1 DEF Moved
    <3> QED
      BY <3>1, ToldNow
  <2> QED
    BY <1>0, <2>1, <2>3, <2>4
<1>7. ASSUME NEW r \in Requests, Write(r) PROVE OtherPartyTold'
  BY <1>1, <1>2, <1>3, <1>7 DEF Write, LifecycleWrite
<1>8. ASSUME Swap PROVE OtherPartyTold'
  BY <1>4, <1>5, <1>6, <1>8 DEF Swap, MarkSold, Relist
<1> QED
  BY <1>1, <1>7, <1>8 DEF Next

\* Whatever one party does to an offer, the other is notified of that very move.
THEOREM BothPartiesKnow == Spec => []OtherPartyTold
<1>1. Init => OtherPartyTold
  BY DEF Init, OtherPartyTold
<1>2. Inv /\ NoRowYet /\ Histories /\ OtherPartyTold /\ [Next]_vars => OtherPartyTold'
  BY ToldStep
<1>3. ChainInv => NoRowYet
  BY DEF ChainInv
<1> QED
  BY <1>1, <1>2, <1>3, InvAlways, ChainAlways, HistoriesAlways, PTL DEF Spec

----------------------------------------------------------------------------
(* The sweep of an accept. *)

\* An offer that an accept swept is declined to the party that proposed it: the
\* losing buyer whose own offer was open is told, and so LosingBuyerTold fails
\* of the seller's counter-offers only (offers.py on accept_offer).
SweptProposerTold ==
    \A e \in events :
        e.action = "auto_declined" =>
            Note(ProposerOf(offers[e.offer]), "auto_declined", e.offer) \in notes

\* Only an accept sweeps.
LEMMA OnlyAcceptSweeps ==
    ASSUME Inv, [Next]_vars, \A o \in OfferIds : ~AcceptOffer(o)
    PROVE  /\ \A e \in events' \ events : e.action # "auto_declined"
           /\ notes \subseteq notes'
<1> DEFINE Quietly == /\ \A e \in events' \ events : e.action # "auto_declined"
                      /\ notes \subseteq notes'
<1> USE DEF Inv
<1>1. ASSUME Read \/ Finish \/ (\E r \in Requests : LifecycleWrite(r)) \/ UNCHANGED vars
      PROVE  Quietly
  BY <1>1, QuietTrail
<1>2. ASSUME NEW a \in {"submitted", "countered", "declined", "withdrawn", "completed", "lapsed"},
             NEW o, NEW u
      PROVE  Event(o, a, u).action # "auto_declined"
  BY DEF Event
<1>3. ASSUME NEW r \in Requests, CreateWrite(r) PROVE Quietly
  <2>1. PICK id : id = lastOffer + 1
    OBVIOUS
  <2>2. /\ events' = events \cup {Event(id, "submitted", offers'[id].buyer)}
        /\ notes' = notes \cup {Note(Seller, "submitted", id)}
    BY <1>3, <2>1, CreateTrail
  <2> QED BY <1>2, <2>2
<1>4. ASSUME NEW r \in Requests, CounterWrite(r) PROVE Quietly
  <2>1. PICK id : id = lastOffer + 1
    OBVIOUS
  <2>2. PICK o \in OfferIds, u \in Users :
        /\ events' = events \cup {Event(o, "countered", u), Event(id, "submitted", u)}
        /\ notes \subseteq notes'
    BY <1>4, <2>1, CounterTrail
  <2> QED BY <1>2, <2>2
<1>5. ASSUME NEW o \in OfferIds, DeclineOffer(o) \/ WithdrawOffer(o) PROVE Quietly
  <2>1. PICK to \in {"declined", "withdrawn"}, u \in Users :
        /\ events' = events \cup {Event(o, to, u)}
        /\ notes \subseteq notes'
    BY <1>5, SettleTrail
  <2> QED BY <1>2, <2>1
<1>6. ASSUME NEW to, NEW offerTo \in {"completed", "lapsed"},
             NEW action \in {"sold", "fell_through"}, ResolveDeal(to, offerTo, action)
      PROVE  Quietly
  <2>1. PICK o \in OfferIds :
        /\ events' = events \cup {Event(o, offerTo, Seller)}
        /\ notes \subseteq notes'
    BY <1>6, DealTrail
  <2> QED BY <1>2, <2>1
<1>7. ASSUME NEW r \in Requests, Write(r) PROVE Quietly
  BY <1>1, <1>3, <1>4, <1>7 DEF Write, LifecycleWrite
<1>8. ASSUME Swap PROVE Quietly
  BY <1>5, <1>6, <1>8 DEF Swap, MarkSold, Relist
<1> QED BY <1>1, <1>7, <1>8 DEF Next

LEMMA SweptStep ==
    ASSUME Inv, Histories, SweptProposerTold, [Next]_vars
    PROVE  SweptProposerTold'
<1> USE DEF Inv
<1>1. ASSUME NEW e \in events, e.action = "auto_declined", notes \subseteq notes'
      PROVE  Note(ProposerOf(offers'[e.offer]), "auto_declined", e.offer) \in notes'
  <2>1. PICK x \in OfferIds : x = e.offer /\ offers[x].status # "none"
    BY EventsAreOfRows
  <2>2. RowStep(x)
    BY RowSteps
  <2>3. SameTerms(x)
    BY <2>1, <2>2, SameRow, MovedTerms DEF RowStep, Edge
  <2>4. ProposerOf(offers'[x]) = ProposerOf(offers[x])
    BY <2>3 DEF SameTerms, ProposerOf
  <2> QED BY <1>1, <2>1, <2>4 DEF SweptProposerTold
<1>2. CASE \A o \in OfferIds : ~AcceptOffer(o)
  BY <1>1, <1>2, OnlyAcceptSweeps DEF SweptProposerTold
<1>3. ASSUME NEW o \in OfferIds, AcceptOffer(o) PROVE SweptProposerTold'
  <2>1. notes \subseteq notes'
    BY <1>3 DEF AcceptOffer
  <2>2. ASSUME NEW s \in Siblings(o)
        PROVE  Note(ProposerOf(offers'[s]), "auto_declined", s) \in notes'
    <3>1. s \in OfferIds /\ s # o
      BY DEF Siblings, Submitted
    <3>2. offers'[s] = [offers[s] EXCEPT !.status = "declined"]
      BY <1>3, <3>1 DEF AcceptOffer
    <3>3. offers[s] \in Offer
      BY <3>1 DEF TypeOK
    <3>4. ProposerOf(offers'[s]) = ProposerOf(offers[s])
      BY <3>2, <3>3 DEF ProposerOf, Offer
    <3>5. Recipient(offers[s], "auto_declined") = ProposerOf(offers[s])
      BY DEF Recipient
    <3>6. Note(Recipient(offers[s], "auto_declined"), "auto_declined", s) \in notes'
      BY <1>3 DEF AcceptOffer
    <3> QED BY <3>4, <3>5, <3>6
  <2>3. PICK u \in Users :
           events' = events \cup {Event(o, "accepted", u)} \cup
                     {Event(s, "auto_declined", u) : s \in Siblings(o)}
    BY <1>3, AcceptTrail
  <2>4. \A e \in events' \ events :
            \/ e.action = "accepted"
            \/ \E s \in Siblings(o) : e.offer = s
    BY <2>3 DEF Event
  <2> QED BY <1>1, <2>1, <2>2, <2>4 DEF SweptProposerTold
<1> QED BY <1>2, <1>3

\* Whoever proposed an offer that an accept swept is told (accept_offer): what
\* LosingBuyerTold misses is the buyer whom a swept counter-offer was made to.
THEOREM SweptProposersKnow == Spec => []SweptProposerTold
<1>1. Init => SweptProposerTold
  BY DEF Init, SweptProposerTold
<1>2. Inv /\ Histories /\ SweptProposerTold /\ [Next]_vars => SweptProposerTold'
  BY SweptStep
<1> QED
  BY <1>1, <1>2, InvAlways, HistoriesAlways, PTL DEF Spec

----------------------------------------------------------------------------
(* The audit trail of the listing. *)

\* Steps that resolve no deal leave the two counts of resolved offers alone.
LEMMA ResolvedSame ==
    ASSUME NEW s \in {"completed", "lapsed"},
           \A x \in OfferIds : (offers'[x].status = s) <=> (offers[x].status = s)
    PROVE  OffersIn(s)' = OffersIn(s)
BY DEF OffersIn

LEMMA OneMoreResolved ==
    ASSUME NEW s, NEW o \in OfferIds, offers[o].status # s, offers'[o].status = s,
           \A x \in OfferIds \ {o} : offers'[x] = offers[x]
    PROVE  Cardinality(OffersIn(s)') = Cardinality(OffersIn(s)) + 1
<1>1. OffersIn(s)' = OffersIn(s) \cup {o} /\ o \notin OffersIn(s)
  BY DEF OffersIn
<1>2. IsFiniteSet(OfferIds)
  <2>1. 1 \in Int /\ MaxOffers \in Int
    BY DealsAssumption DEF DealsAssumption
  <2> QED
    BY <2>1, FS_Interval DEF OfferIds
<1>3. IsFiniteSet(OffersIn(s))
  BY <1>2, FS_Subset DEF OffersIn
<1> QED
  BY <1>1, <1>3, FS_AddElement

LEMMA AuditDeal ==
    ASSUME TypeOK, AuditAgrees, NEW to,
           NEW offerTo \in {"completed", "lapsed"}, NEW action \in {"sold", "fell_through"},
           offerTo = "completed" <=> action = "sold",
           ResolveDeal(to, offerTo, action)
    PROVE  AuditAgrees'
<1>1. PICK o \in OfferIds :
           /\ offers[o].status = "accepted"
           /\ offers'[o].status = offerTo
           /\ \A x \in OfferIds \ {o} : offers'[x] = offers[x]
           /\ log'[action] = log[action] + 1
           /\ \A a \in ListingAction \ {action} : log'[a] = log[a]
           /\ UNCHANGED publishedAt
  <2>1. PICK o \in OfferIds :
           /\ offers[o].status = "accepted"
           /\ Moved(o, offerTo)
           /\ \A x \in OfferIds \ {o} : offers'[x] = offers[x]
           /\ log'[action] = log[action] + 1
           /\ \A a \in ListingAction \ {action} : log'[a] = log[a]
           /\ UNCHANGED publishedAt
    BY DealTrail
  <2>2. offers'[o].status = offerTo
    BY <2>1 DEF Moved
  <2> QED
    BY <2>1, <2>2
<1>2. Cardinality(OffersIn(offerTo)') = Cardinality(OffersIn(offerTo)) + 1
  BY <1>1, OneMoreResolved
<1>3. \A s \in {"completed", "lapsed"} \ {offerTo} : OffersIn(s)' = OffersIn(s)
  BY <1>1, ResolvedSame
<1>4. {"sold", "fell_through", "approved"} \subseteq ListingAction
  BY DEF ListingAction
<1>5. CASE offerTo = "completed"
  <2>1. log'["sold"] = log["sold"] + 1 /\ log'["fell_through"] = log["fell_through"]
        /\ log'["approved"] = log["approved"]
    BY <1>1, <1>4, <1>5
  <2> QED
    BY <1>1, <1>2, <1>3, <1>5, <2>1 DEF AuditAgrees
<1>6. CASE offerTo = "lapsed"
  <2>1. log'["fell_through"] = log["fell_through"] + 1 /\ log'["sold"] = log["sold"]
        /\ log'["approved"] = log["approved"]
    BY <1>1, <1>4, <1>6
  <2> QED
    BY <1>1, <1>2, <1>3, <1>6, <2>1 DEF AuditAgrees
<1> QED
  BY <1>5, <1>6

LEMMA AuditQuiet ==
    ASSUME AuditAgrees, UNCHANGED <<log, publishedAt>>,
           \A x \in OfferIds, s \in {"completed", "lapsed"} :
              (offers'[x].status = s) <=> (offers[x].status = s)
    PROVE  AuditAgrees'
<1>1. OffersIn("completed")' = OffersIn("completed") /\ OffersIn("lapsed")' = OffersIn("lapsed")
  BY ResolvedSame
<1> QED
  BY <1>1 DEF AuditAgrees

LEMMA AuditStep == Inv /\ AuditAgrees /\ [Next]_vars => AuditAgrees'
<1> SUFFICES ASSUME Inv, AuditAgrees, [Next]_vars PROVE AuditAgrees'
  OBVIOUS
<1> USE DEF Inv
<1>1. ASSUME UNCHANGED <<offers, log, publishedAt>> PROVE AuditAgrees'
  BY <1>1, AuditQuiet
<1>2. ASSUME NEW r, NEW op, NEW b, NEW o, Start(r, op, b, o) PROVE AuditAgrees'
  BY <1>1, <1>2 DEF Start, listingVars, offerVars, trailVars
<1>3. CASE Read
  BY <1>2, <1>3 DEF Read, LifecycleRead, CreateRead, CounterRead
<1>4. CASE Finish
  BY <1>1, <1>4 DEF Finish, Announce, RequestEnds, listingVars, offerVars, trailVars
<1>5. CASE UNCHANGED vars
  BY <1>1, <1>5 DEF vars, listingVars, offerVars, trailVars
<1>6. ASSUME NEW r \in Requests, TransitionWrite(r) \/ EditWrite(r) PROVE AuditAgrees'
  BY <1>1, <1>6 DEF TransitionWrite, EditWrite, offerVars, trailVars
<1>7. ASSUME NEW r \in Requests, ApproveWrite(r) \/ RejectWrite(r) PROVE AuditAgrees'
  <2>1. UNCHANGED offers
    BY <1>7 DEF ApproveWrite, RejectWrite, Decide, offerVars
  <2>2. OffersIn("completed")' = OffersIn("completed") /\ OffersIn("lapsed")' = OffersIn("lapsed")
    BY <2>1 DEF OffersIn
  <2>3. log \in [ListingAction -> Nat] /\ publishedAt \in Nat
    BY DEF TypeOK
  <2>4. CASE ApproveWrite(r)
    BY <2>2, <2>3, <2>4 DEF ApproveWrite, Decide, AuditAgrees, ListingAction
  <2>5. CASE RejectWrite(r)
    BY <2>2, <2>3, <2>5 DEF RejectWrite, Decide, AuditAgrees, ListingAction
  <2> QED
    BY <1>7, <2>4, <2>5
<1>8. ASSUME NEW r \in Requests, CreateWrite(r) PROVE AuditAgrees'
  <2>0. PICK id : id = lastOffer + 1
    OBVIOUS
  <2>1. /\ id \in OfferIds
        /\ offers'[id].status = "submitted"
        /\ \A y \in OfferIds \ {id} : offers'[y] = offers[y]
    BY <1>8, <2>0, CreateTrail
  <2>2. offers[id].status = "none"
    BY <2>0, <2>1 DEF IdsInOrder, OfferIds, TypeOK
  <2>3. UNCHANGED <<log, publishedAt>>
    BY <1>8 DEF CreateWrite, InsertOffer, listingVars
  <2> QED
    BY <2>1, <2>2, <2>3, AuditQuiet
<1>9. ASSUME NEW r \in Requests, CounterWrite(r) PROVE AuditAgrees'
  <2>0. PICK id : id = lastOffer + 1
    OBVIOUS
  <2>1. PICK k \in OfferIds, u \in Users :
        /\ id \in OfferIds
        /\ offers[k].status = "submitted"
        /\ Moved(k, "countered")
        /\ offers'[id].status = "submitted"
        /\ \A y \in OfferIds \ {k, id} : offers'[y] = offers[y]
    BY <1>9, <2>0, CounterTrail
  <2>2. offers[id].status = "none" /\ offers'[k].status = "countered"
    BY <2>0, <2>1 DEF IdsInOrder, OfferIds, TypeOK, Moved
  <2>3. UNCHANGED <<log, publishedAt>>
    BY <1>9 DEF CounterWrite, AnswerOffer, listingVars
  <2> QED
    BY <2>1, <2>2, <2>3, AuditQuiet
<1>10. ASSUME NEW o \in OfferIds, AcceptOffer(o) PROVE AuditAgrees'
  <2>1. /\ offers[o].status = "submitted"
        /\ offers'[o].status = "accepted"
        /\ \A y \in OfferIds \ {o} :
              \/ offers[y].status = "submitted" /\ offers'[y].status = "declined"
              \/ offers'[y] = offers[y]
    BY <1>10, AcceptRows DEF Moved
  <2>2. UNCHANGED <<log, publishedAt>>
    BY <1>10 DEF AcceptOffer
  <2> QED
    BY <2>1, <2>2, AuditQuiet
<1>11. ASSUME NEW o \in OfferIds, DeclineOffer(o) \/ WithdrawOffer(o) PROVE AuditAgrees'
  <2>1. PICK to \in {"declined", "withdrawn"} :
           /\ offers[o].status = "submitted"
           /\ offers'[o].status = to
           /\ \A y \in OfferIds \ {o} : offers'[y] = offers[y]
    BY <1>11, SettleTrail DEF Moved
  <2>2. UNCHANGED <<log, publishedAt>>
    BY <1>11 DEF DeclineOffer, WithdrawOffer, Resolve, Settle, listingVars
  <2> QED
    BY <2>1, <2>2, AuditQuiet
<1>12. MarkSold \/ Relist => AuditAgrees'
  BY AuditDeal DEF MarkSold, Relist
<1>13. ASSUME NEW r \in Requests, Write(r) PROVE AuditAgrees'
  BY <1>6, <1>7, <1>8, <1>9, <1>13 DEF Write
<1>14. CASE Swap
  BY <1>10, <1>11, <1>12, <1>14 DEF Swap
<1> QED
  BY <1>3, <1>4, <1>5, <1>13, <1>14 DEF Next

\* The audit trail of the listing counts exactly the deals that were resolved
\* and the stamps of its publication.
THEOREM AuditIsTrue == Spec => []AuditAgrees
<1>1. ASSUME Init PROVE AuditAgrees
  <2>1. OffersIn("completed") = {} /\ OffersIn("lapsed") = {}
    BY <1>1 DEF Init, OffersIn, NoOffer
  <2> QED
    BY <1>1, <2>1, FS_EmptySet DEF Init, AuditAgrees, ListingAction
<1> QED
  BY <1>1, AuditStep, InvAlways, PTL DEF Spec
=============================================================================
