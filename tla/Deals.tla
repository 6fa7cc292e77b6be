------------------------------- MODULE Deals -------------------------------
(***************************************************************************)
(* One listing of the marketplace and every offer made on it: the          *)
(* lifecycle the seller and the admin drive (routers/listings.py), the     *)
(* negotiation between the seller and the buyers (routers/offers.py) and   *)
(* the close of the deal.                                                  *)
(*                                                                         *)
(* Every request runs in a database session of its own (db.py).  What a    *)
(* handler reads, its gates included, is a snapshot; what it writes, from  *)
(* its first statement to its commit, is one atomic transaction, because   *)
(* SQLite has one writer at a time.  A handler whose write is guarded by   *)
(* the snapshot is therefore two steps here, a read that remembers the     *)
(* status it saw and a write that may come any time later.  A handler      *)
(* whose write is a rowcount-checked UPDATE ... WHERE status = ... reads   *)
(* nothing it relies on, and is one step.  An attempt that is refused      *)
(* changes nothing and is no step.                                         *)
(*                                                                         *)
(* Buyers are the users whose access request on the listing is approved:   *)
(* they alone pass require_approved_buyer.                                 *)
(***************************************************************************)
EXTENDS Naturals, FiniteSets

CONSTANTS
    Buyers,            \* users who may open a negotiation on the listing
    Seller,            \* the user who owns it
    Subscribers,       \* buyers with a saved search the listing matches
    Prices,            \* prices an offer may name
    Requests,          \* read-then-write requests that may be in flight
    MaxOffers,         \* bound: rows of the offer table
    MaxDecisions       \* bound: decisions an admin takes on the listing

ASSUME DealsAssumption ==
    /\ Seller \notin Buyers
    /\ Subscribers \subseteq Buyers
    /\ Prices \subseteq Nat \ {0}
    /\ MaxOffers \in Nat
    /\ MaxDecisions \in Nat

VARIABLES
    status,        \* listing.status
    publishedAt,   \* listing.published_at: 0 for NULL, n for the n-th stamp
    finalPrice,    \* listing.final_price, with sold_at: 0 for NULL
    reviewed,      \* an admin approved the listing after its last edit
    offers,        \* the offer table, by id
    lastOffer,     \* the highest offer id given out
    events,        \* the offerevent rows
    notes,         \* the notification rows
    log,           \* how many listingevent rows there are of each action
    req            \* the requests between their reads and their writes

listingVars == <<status, publishedAt, finalPrice, reviewed>>
offerVars   == <<offers, lastOffer>>
trailVars   == <<events, notes, log>>
vars        == <<listingVars, offerVars, trailVars, req>>

----------------------------------------------------------------------------
(* The rows. *)

ListingStatus == {"draft", "pending_review", "rejected", "live", "paused",
                  "under_offer", "sold", "closed"}

OfferStatus == {"submitted", "accepted", "declined", "countered",
                "withdrawn", "completed", "lapsed"}

Users    == Buyers \cup {Seller}
OfferIds == 1 .. MaxOffers

\* A row of the offer table; "none" is the status of an id not given out yet.
Offer == [buyer: Users, by: {"buyer", "seller"}, status: OfferStatus \cup {"none"},
          price: Prices \cup {0}, parent: 0 .. MaxOffers]

NoOffer == [buyer |-> Seller, by |-> "buyer", status |-> "none",
            price |-> 0, parent |-> 0]

OfferAction == {"submitted", "accepted", "declined", "countered", "withdrawn",
                "auto_declined", "completed", "lapsed"}

\* decided_by_id and decided_at of a row are the actor and the moment of the
\* event that moved it; from_status and to_status follow from the action.
OfferEvent == [offer: OfferIds, action: OfferAction, actor: Users]

Notification == [to: Users, offer: 0 .. MaxOffers,
                 type: OfferAction \cup {"approved", "rejected", "listing_matched"}]

\* from_status and to_status of a listingevent row follow from its action too.
ListingAction == {"approved", "rejected", "sold", "fell_through"}

SellerOps == {"submit", "pause", "resume", "close"}
Ops       == SellerOps \cup {"edit", "approve", "reject", "create", "counter"}

\* A request in flight: its operation, the listing status its gates read and
\* what it is about.  A request that has published a decision and has yet to
\* notify of it is at "announce".
Request == [op: Ops \cup {"idle", "announce"}, saw: ListingStatus,
            buyer: Users, offer: 0 .. MaxOffers]

Idle == [op |-> "idle", saw |-> "draft", buyer |-> Seller, offer |-> 0]

----------------------------------------------------------------------------
(* Reading the offer table. *)

Submitted == {o \in OfferIds : offers[o].status = "submitted"}
Accepted  == {o \in OfferIds : offers[o].status = "accepted"}
Completed == {o \in OfferIds : offers[o].status = "completed"}

ActiveOf(b) == {o \in Submitted : offers[o].buyer = b}

ProposerOf(row)     == IF row.by = "buyer" THEN row.buyer ELSE Seller
CounterpartyOf(row) == IF row.by = "buyer" THEN Seller ELSE row.buyer

\* Mutant of Recipient: the retraction of a proposal goes to who retracted it.
DecisionToProposer(row, action) ==
    IF action \in {"submitted", "countered"}
    THEN CounterpartyOf(row) ELSE ProposerOf(row)

\* Who notify_offer writes to: a new proposal, or its withdrawal, reaches the
\* counterparty of the row, a decision its proposer.
Recipient(row, action) ==
    IF action \in {"submitted", "countered", "withdrawn"}
    THEN CounterpartyOf(row) ELSE ProposerOf(row)

Event(o, action, actor) == [offer |-> o, action |-> action, actor |-> actor]
Note(to, action, o)     == [to |-> to, offer |-> o, type |-> action]

----------------------------------------------------------------------------
Init ==
    /\ status = "draft"
    /\ publishedAt = 0
    /\ finalPrice = 0
    /\ reviewed = FALSE
    /\ offers = [o \in OfferIds |-> NoOffer]
    /\ lastOffer = 0
    /\ events = {}
    /\ notes = {}
    /\ log = [a \in ListingAction |-> 0]
    /\ req = [r \in Requests |-> Idle]

----------------------------------------------------------------------------
(* The reads of a read-then-write request: its gates pass on the snapshot. *)

Start(r, op, b, o) ==
    /\ req[r] = Idle
    /\ req' = [req EXCEPT ![r] = [op |-> op, saw |-> status,
                                  buyer |-> b, offer |-> o]]
    /\ UNCHANGED <<listingVars, offerVars, trailVars>>

\* The statuses from which each lifecycle operation is allowed.
Allowed == [submit  |-> {"draft"},
            pause   |-> {"live"},
            resume  |-> {"paused"},
            close   |-> {"draft", "pending_review", "live", "paused"},
            edit    |-> ListingStatus \ {"closed", "sold", "under_offer"},
            approve |-> {"pending_review"},
            reject  |-> {"pending_review"}]

\* Mutants of AllowedFrom: a held listing may be resumed, a sold one edited.
ResumeHeldToo(op) == IF op = "resume" THEN {"paused", "under_offer"} ELSE Allowed[op]

EditSoldToo(op) == IF op = "edit" THEN ListingStatus \ {"closed", "under_offer"} ELSE Allowed[op]

AllowedFrom(op) == Allowed[op]

LifecycleRead(r, op) ==
    /\ status \in AllowedFrom(op)
    /\ Start(r, op, Seller, 0)

CreateRead(r, b) ==
    /\ publishedAt # 0
    /\ status = "live"
    /\ ActiveOf(b) = {}
    /\ Start(r, "create", b, 0)

\* The caller is the party who did not propose the offer.
CounterRead(r, o) ==
    /\ offers[o].status # "none"
    /\ status = "live"
    /\ Start(r, "counter", offers[o].buyer, o)

\* The request ends with nothing written: refused, rolled back on the unique
\* index, or lost with the process.
RequestEnds(r) ==
    /\ req[r] # Idle
    /\ req' = [req EXCEPT ![r] = Idle]
    /\ UNCHANGED <<listingVars, offerVars, trailVars>>

----------------------------------------------------------------------------
(* The writes of the lifecycle: the flush is UPDATE ... WHERE id, with the  *)
(* columns the snapshot showed to change, whatever the row says by now.     *)

Done(r) == req' = [req EXCEPT ![r] = Idle]

TransitionWrite(r) ==
    /\ req[r].op \in SellerOps
    /\ status' = CASE req[r].op = "submit" -> "pending_review"
                   [] req[r].op = "pause"  -> "paused"
                   [] req[r].op = "resume" -> "live"
                   [] req[r].op = "close"  -> "closed"
    /\ Done(r)
    /\ UNCHANGED <<publishedAt, finalPrice, reviewed, offerVars, trailVars>>

\* Mutant of SentBack: a paused listing keeps its approval through an edit.
LiveOnly == {"live"}

\* The statuses from which an edit of public content goes back to review.
SentBack == {"live", "paused"}

\* From any other status the status column is not among the columns written.
EditWrite(r) ==
    /\ req[r].op = "edit"
    /\ reviewed' = FALSE
    /\ status' = IF req[r].saw \in SentBack THEN "pending_review" ELSE status
    /\ Done(r)
    /\ UNCHANGED <<publishedAt, finalPrice, offerVars, trailVars>>

\* The admin's decision commits before the notification of it is written.
Decide(r, to, action) ==
    /\ status' = to
    /\ log["approved"] + log["rejected"] < MaxDecisions
    /\ log' = [log EXCEPT ![action] = @ + 1]
    /\ req' = [req EXCEPT ![r].op = "announce", ![r].saw = to]
    /\ UNCHANGED <<finalPrice, offerVars, events, notes>>

ApproveWrite(r) ==
    /\ req[r].op = "approve"
    /\ publishedAt' = publishedAt + 1
    /\ reviewed' = TRUE
    /\ Decide(r, "live", "approved")

RejectWrite(r) ==
    /\ req[r].op = "reject"
    /\ Decide(r, "rejected", "rejected")
    /\ UNCHANGED <<publishedAt, reviewed>>

\* The second transaction: the owner learns the decision and, if the listing
\* was published, every buyer whose saved search matches learns of it, once.
Announce(r) ==
    /\ req[r].op = "announce"
    /\ notes' = notes \cup
         IF req[r].saw = "live"
         THEN {Note(Seller, "approved", 0)} \cup
              {Note(b, "listing_matched", 0) : b \in Subscribers}
         ELSE {Note(Seller, "rejected", 0)}
    /\ Done(r)
    /\ UNCHANGED <<listingVars, offerVars, events, log>>

----------------------------------------------------------------------------
(* The writes that add a row to the offer table. *)

InsertOffer(r) ==
    /\ req[r].op = "create"
    /\ lastOffer < MaxOffers
    /\ LET id == lastOffer + 1
       IN \E p \in Prices :
            LET row == [buyer |-> req[r].buyer, by |-> "buyer",
                        status |-> "submitted", price |-> p, parent |-> 0]
            IN /\ offers' = [offers EXCEPT ![id] = row]
               /\ lastOffer' = id
               /\ events' = events \cup {Event(id, "submitted", row.buyer)}
               /\ notes' = notes \cup {Note(Recipient(row, "submitted"), "submitted", id)}
    /\ Done(r)
    /\ UNCHANGED <<listingVars, log>>

\* The partial unique index refuses a second submitted row of the same buyer.
\* (Mutant: InsertOffer, without the index.)
CreateWrite(r) == ActiveOf(req[r].buyer) = {} /\ InsertOffer(r)

AnswerOffer(r) ==
    LET o  == req[r].offer
        id == lastOffer + 1
        actor == CounterpartyOf(offers[o])
    IN /\ req[r].op = "counter"
       /\ lastOffer < MaxOffers
       /\ \E p \in Prices :
            LET child == [buyer |-> offers[o].buyer,
                          by |-> IF offers[o].by = "buyer" THEN "seller" ELSE "buyer",
                          status |-> "submitted", price |-> p, parent |-> o]
            IN /\ offers' = [offers EXCEPT ![o].status = "countered", ![id] = child]
               /\ notes' = notes \cup {Note(Recipient(child, "countered"), "countered", id)}
       /\ lastOffer' = id
       /\ events' = events \cup {Event(o, "countered", actor), Event(id, "submitted", actor)}
       /\ Done(r)
       /\ UNCHANGED <<listingVars, log>>

\* The parent is claimed by compare-and-swap, then the child is inserted past
\* the same index.  (Mutant: AnswerOffer, without the claim.)
CounterWrite(r) ==
    LET o == req[r].offer
    IN /\ req[r].op = "counter"
       /\ offers[o].status = "submitted"
       /\ ActiveOf(offers[o].buyer) \subseteq {o}
       /\ AnswerOffer(r)

----------------------------------------------------------------------------
(* The compare-and-swap operations. *)

\* Mutant of Siblings: only the accepted buyer's own offers are swept.
SameBuyers(o) == ActiveOf(offers[o].buyer) \ {o}

\* The other offers on the listing that are still open.
Siblings(o) == Submitted \ {o}

\* One transaction: the offer, the listing, and every sibling.  Each declined
\* sibling is notified like a decline.
AcceptOffer(o) ==
    LET actor    == CounterpartyOf(offers[o])
        siblings == Siblings(o)
    IN /\ offers[o].status = "submitted"
       /\ status = "live"
       /\ status' = "under_offer"
       /\ offers' = [x \in OfferIds |->
                        IF x = o THEN [offers[x] EXCEPT !.status = "accepted"]
                        ELSE IF x \in siblings
                             THEN [offers[x] EXCEPT !.status = "declined"]
                             ELSE offers[x]]
       /\ events' = events \cup {Event(o, "accepted", actor)} \cup
                    {Event(s, "auto_declined", actor) : s \in siblings}
       /\ notes' = notes \cup {Note(Recipient(offers[o], "accepted"), "accepted", o)} \cup
                   {Note(Recipient(offers[s], "auto_declined"), "auto_declined", s) :
                        s \in siblings}
       /\ UNCHANGED <<publishedAt, finalPrice, reviewed, lastOffer, log, req>>

Settle(o, to, actor) ==
    /\ offers' = [offers EXCEPT ![o].status = to]
    /\ events' = events \cup {Event(o, to, actor)}
    /\ notes' = notes \cup {Note(Recipient(offers[o], to), to, o)}
    /\ UNCHANGED <<listingVars, lastOffer, log, req>>

\* A submitted row is resolved by one of its parties, touching nothing else.
\* (Mutant: Settle, without the compare of the compare-and-swap.)
Resolve(o, to, actor) == offers[o].status = "submitted" /\ Settle(o, to, actor)

DeclineOffer(o)  == Resolve(o, "declined", CounterpartyOf(offers[o]))
WithdrawOffer(o) == Resolve(o, "withdrawn", ProposerOf(offers[o]))

\* Mutants of SalePrice: a deal that falls through leaves its price, and the
\* price of a counter-offer is taken from the offer it answered.
DealPrice(to, o) == offers[o].price

OpeningPrice(to, o) ==
    IF to # "sold" THEN finalPrice
    ELSE IF offers[o].parent # 0 THEN offers[offers[o].parent].price ELSE offers[o].price

\* final_price is written with the sale, and by nothing else.
SalePrice(to, o) == IF to = "sold" THEN offers[o].price ELSE finalPrice

\* The seller closes or unwinds the deal.  The listing is claimed first, then
\* the accepted offer of the lowest id; with none, everything rolls back.
ResolveDeal(to, offerTo, action) ==
    /\ status = "under_offer"
    /\ \E o \in Accepted :
         /\ \A p \in Accepted : o <= p
         /\ offers' = [offers EXCEPT ![o].status = offerTo]
         /\ finalPrice' = SalePrice(to, o)
         /\ events' = events \cup {Event(o, offerTo, Seller)}
         /\ notes' = notes \cup {Note(offers[o].buyer, offerTo, o)}
    /\ status' = to
    /\ log' = [log EXCEPT ![action] = @ + 1]
    /\ UNCHANGED <<publishedAt, reviewed, lastOffer, req>>

\* Mutants of MarkSold: the listing's new status on the offer, and the audit
\* action of the other resolution.
MarkOfferSold == ResolveDeal("sold", "sold", "sold")

MarkSoldAsFailed == ResolveDeal("sold", "completed", "fell_through")

MarkSold == ResolveDeal("sold", "completed", "sold")

Relist == ResolveDeal("live", "lapsed", "fell_through")

----------------------------------------------------------------------------
Read ==
    \E r \in Requests :
        \/ \E op \in SellerOps \cup {"edit", "approve", "reject"} : LifecycleRead(r, op)
        \/ \E b \in Buyers : CreateRead(r, b)
        \/ \E o \in OfferIds : CounterRead(r, o)

Write(r) ==
    \/ TransitionWrite(r)
    \/ EditWrite(r)
    \/ ApproveWrite(r)
    \/ RejectWrite(r)
    \/ CreateWrite(r)
    \/ CounterWrite(r)

Swap ==
    \/ \E o \in OfferIds : AcceptOffer(o) \/ DeclineOffer(o) \/ WithdrawOffer(o)
    \/ MarkSold
    \/ Relist

Finish == \E r \in Requests : Announce(r) \/ RequestEnds(r)

Next == Read \/ (\E r \in Requests : Write(r)) \/ Swap \/ Finish

Spec == Init /\ [][Next]_vars

(***************************************************************************)
(* The schedules without a lost update: no request writes after the status *)
(* it read has changed.  These are the schedules the sequential tests run, *)
(* and all there would be if each lifecycle write, like accept's, repeated *)
(* the status in its WHERE.                                                *)
(***************************************************************************)
Current(r) == status = req[r].saw

SerialNext == Read \/ (\E r \in Requests : Current(r) /\ Write(r)) \/ Swap \/ Finish

SerialSpec == Init /\ [][SerialNext]_vars

----------------------------------------------------------------------------
\* A counter-offer in flight is about a row of the offer table, an offer in
\* flight is a buyer's.
RequestsOK ==
    /\ req \in [Requests -> Request]
    /\ \A r \in Requests :
         /\ req[r].op = "counter" => req[r].offer \in OfferIds
         /\ req[r].op = "create" => req[r].buyer \in Buyers

\* Every row and every request in flight has its columns' types.
TypeOK ==
    /\ status \in ListingStatus
    /\ publishedAt \in Nat
    /\ finalPrice \in Prices \cup {0}
    /\ reviewed \in BOOLEAN
    /\ offers \in [OfferIds -> Offer]
    /\ lastOffer \in 0 .. MaxOffers
    /\ events \subseteq OfferEvent
    /\ notes \subseteq Notification
    /\ log \in [ListingAction -> Nat]
    /\ RequestsOK

----------------------------------------------------------------------------
(* What holds in every schedule, the lost updates of the lifecycle included. *)

\* A buyer has at most one open offer on the listing (spec 007 D7), although
\* create_offer checks it in an earlier read and a counter opens one as well.
OneActivePerPair ==
    \A x, y \in Submitted : offers[x].buyer = offers[y].buyer => x = y

\* A negotiation is a chain: a counter-offer answers one countered offer of the
\* same buyer made by the other side, and a countered offer has one answer.
CounterChain ==
    \A o \in OfferIds :
        /\ offers[o].parent # 0 =>
             LET p == offers[o].parent
             IN /\ p < o
                /\ offers[p].status = "countered"
                /\ offers[p].buyer = offers[o].buyer
                /\ offers[p].by # offers[o].by
        /\ offers[o].status = "countered" =>
             \E c \in OfferIds :
                {d \in OfferIds : offers[d].parent = o} = {c}

\* A listing is under_offer only because an accept put it there: there is an
\* accepted offer to resolve (the comment on _resolve_deal's third refusal).
UnderOfferHasAccepted == status = "under_offer" => Accepted # {}

\* The recorded sale price was never invented or kept from a deal that fell
\* through: it is the price of an offer that completed (spec 012 S1).
PriceOfADeal ==
    finalPrice # 0 => \E o \in Completed : offers[o].price = finalPrice

OffersIn(s) == {o \in OfferIds : offers[o].status = s}

\* The two audit trails and the rows they are about agree: each resolution of a
\* deal is logged once on the listing for the one offer it moved, and each
\* stamp of published_at has its approval row.
AuditAgrees ==
    /\ log["sold"] = Cardinality(OffersIn("completed"))
    /\ log["fell_through"] = Cardinality(OffersIn("lapsed"))
    /\ log["approved"] = publishedAt

\* The actions the trail of an offer shows once it has a given status.
TrailsOf(s) ==
    CASE s = "none"     -> {{}}
      [] s = "submitted" -> {{"submitted"}}
      [] s = "declined" -> {{"submitted", "declined"}, {"submitted", "auto_declined"}}
      [] s \in {"completed", "lapsed"} -> {{"submitted", "accepted", s}}
      [] OTHER -> {{"submitted", s}}

\* An offer is decided once: its trail is the history of its status, with one
\* row for each move, whichever requests raced to decide it.
TrailIsHistory ==
    \A o \in OfferIds :
        LET rows == {e \in events : e.offer = o}
        IN /\ {e.action : e \in rows} \in TrailsOf(offers[o].status)
           /\ \A e, f \in rows : e.action = f.action => e = f

\* The notification that tells of an event: of its own kind about its own row,
\* except that a counter-offer's two events are told as one, about the child.
TellsOf(n, e) ==
    \/ n.offer = e.offer /\ n.type = e.action
    \/ /\ n.type = "countered"
       /\ \/ e.action = "submitted" /\ n.offer = e.offer
          \/ e.action = "countered" /\ n.offer # 0 /\ offers[n.offer].parent = e.offer

\* Whatever one party does to an offer, the other party of that negotiation is
\* notified of that very move, in the transaction that makes it.  (The sweep of
\* accept is the exception: see LosingBuyerTold.)
OtherPartyTold ==
    \A e \in events :
        e.action # "auto_declined" =>
            \A u \in {offers[e.offer].buyer, Seller} \ {e.actor} :
                \E n \in notes : n.to = u /\ TellsOf(n, e)

\* An offer moves along the negotiation's edges only, and no move rewrites the
\* terms or the parties of a row: terminal rows stay, accepted rows can only
\* complete or lapse, and no id is reused.
OfferEdges ==
    ({"submitted"} \X {"accepted", "declined", "countered", "withdrawn"}) \cup
    ({"accepted"} \X {"completed", "lapsed"})

OffersMoveForward ==
    [][\A o \in OfferIds :
         \/ offers'[o] = offers[o]
         \/ offers[o].status = "none" /\ offers'[o].status = "submitted"
         \/ /\ <<offers[o].status, offers'[o].status>> \in OfferEdges
            /\ offers'[o] = [offers[o] EXCEPT !.status = offers'[o].status]]_offers

----------------------------------------------------------------------------
(* What the repository says of the program, and what holds as long as no    *)
(* lifecycle write is based on a status that is gone.                       *)

\* At most one accepted offer per listing (spec 012 D5, spec 007 S6).
AtMostOneAccepted == \A x, y \in Accepted : x = y

\* The listing is under offer exactly while an accepted offer awaits its close.
DealHeld == (status = "under_offer") <=> (Accepted # {})

\* A listing sells at most once, at the price of the one offer that completed.
\* Spec 012 (D4(b)) and models.py:135-137 say that a re-listed listing may sell
\* again and leave two completed offers; but sold is terminal (models.py:131-132)
\* and relist takes a listing under offer only, so in the code it cannot.
SoldOnce ==
    /\ (status = "sold") <=> (Completed # {})
    /\ \A x, y \in Completed : x = y
    /\ \A x \in Completed : offers[x].price = finalPrice

\* Once a deal is agreed no other offer is left open (spec 007 D2, E1-E4).
SweptClean == status \in {"under_offer", "sold"} => Submitted = {}

\* What buyers can see, or one resume or relist away from it, is content an
\* admin approved after its last edit (listings.py on resume_listing).
ContentReviewed == status \in {"live", "paused", "under_offer", "sold"} => reviewed

\* closed and sold are terminal: the listing row never changes again
\* (_EDIT_LOCKED, spec 012 D1 and S14).
TerminalStays == [][(status \in {"closed", "sold"}) => UNCHANGED listingVars]_vars

\* The buyer whose open offer is swept by an accept is told of it (spec 008 C12).
LosingBuyerTold ==
    \A e \in events :
        e.action = "auto_declined" =>
            Note(offers[e.offer].buyer, "auto_declined", e.offer) \in notes

----------------------------------------------------------------------------
(* The contract of the listing with its parties, and how the rows keep it. *)

Contract == INSTANCE DealContract WITH
    phase <- CASE status = "live" -> "on"
               [] status = "under_offer" -> "held"
               [] status = "sold" -> "sold"
               [] status = "closed" -> "gone"
               [] OTHER -> "off",
    deals <- {<<offers[o].buyer, offers[o].price>> : o \in Accepted \cup Completed},
    sale  <- finalPrice

\* Without a lost update, the listing keeps its promises to its parties.
KeepsContract == Contract!Spec
=============================================================================
