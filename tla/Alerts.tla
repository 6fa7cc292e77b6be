------------------------------- MODULE Alerts -------------------------------
(***************************************************************************)
(* Saved searches (routers/saved_searches.py), the alerts a publication     *)
(* fans out to them (notifications.py, saved_search_matching.py), and the   *)
(* inbox they arrive in (routers/notifications.py), for one listing.        *)
(*                                                                          *)
(* The fan-out is one transaction: its first query flushes the decision's   *)
(* notification, which takes SQLite's write lock until the commit.  Other   *)
(* requests read and write in two steps.                                    *)
(***************************************************************************)
EXTENDS Integers, Sequences, FiniteSets

CONSTANTS
    Users,         \* accounts, the listing's owner among them
    Owner,         \* who owns the listing
    Buyer,         \* the account whose browser is looked at
    Requests,      \* HTTP requests that may be in flight
    Filters,       \* filter sets a search may be saved with
    Facts,         \* what the listing may say when it is published
    Letters,       \* what texts are made of
    Newline,       \* the letter that ends a line
    Casefold,      \* what str.casefold makes of a letter: one letter or several
    SqlLower,      \* what SQLite's lower makes of it: it knows ASCII only
    SearchCap,     \* settings.saved_search_max_per_user
    MaxRequests    \* bound: requests served

\* SavedSearchFilters: the value of a filter that is set, or none.
Filter == [type: SUBSET STRING, min_price: SUBSET Nat, max_price: SUBSET Nat,
           min_profit: SUBSET Int, q: SUBSET (Seq(Letters) \ {<<>>})]

Coherent(f) == \A low \in f.min_price, high \in f.max_price : low <= high

\* The public columns the filters are about.
Fact == [type: STRING, asking_price: Nat, ttm_profit: Int,
         headline: Seq(Letters), description: Seq(Letters)]

ASSUME AlertsAssumption ==
    /\ IsFiniteSet(Requests) /\ Requests # {}
    /\ {Owner, Buyer} \subseteq Users
    /\ Owner # Buyer
    /\ Filters \subseteq Filter
    /\ \A f \in Filters : Coherent(f)
    /\ Facts \subseteq Fact
    /\ {SearchCap, MaxRequests} \subseteq Nat

\* Both leave a newline alone; what one takes for the same letter in another
\* case, the other does.
ASSUME LettersAssumption ==
    /\ Newline \in Letters
    /\ Casefold \in [Letters -> Seq(Letters)]
    /\ SqlLower \in [Letters -> Letters]
    /\ Casefold[Newline] = <<Newline>>
    /\ \A c \in Letters : (SqlLower[c] = Newline) <=> (c = Newline)
    /\ \A c \in Letters : Casefold[SqlLower[c]] = Casefold[c]

VARIABLES
    status,        \* the status of the listing, once it was submitted
    facts,         \* its public columns, as last edited
    searches,      \* the savedsearch rows
    inbox,         \* the notification rows of each recipient, oldest first
    stamps,        \* how many moments have been written to a read_at
    req,           \* the requests in flight
    begun,         \* requests begun so far
    overlapped     \* two requests of the users have been in flight together

alertsVars == <<status, facts, searches, inbox, stamps, req, begun, overlapped>>

SavedSearch == [id: Nat, user: Users, filter: Filters]

\* read is the read_at of the row: the number of the moment, 0 for NULL.
Notification == [type: {"listing_matched", "other"}, read: Nat]

Note(type) == [type |-> type, read |-> 0]

ServerOp == {"search", "approved", "announce", "mark", "markall"}
BrowserOp == {"marked", "counted", "listed", "watched", "entries", "unwatched"}

\* A request in flight: who makes it, the row it is about or the number it
\* read, the rows it read, the listing it loaded, and the flag it read.
Request == [op: {"idle"} \cup ServerOp \cup BrowserOp, user: Users, n: Nat,
            rows: SUBSET Nat, card: SUBSET Facts, flag: BOOLEAN]

Idle == [op |-> "idle", user |-> Owner, n |-> 0, rows |-> {}, card |-> {},
         flag |-> FALSE]

AlertsInit ==
    /\ status = "pending_review"
    /\ facts \in Facts
    /\ searches = {}
    /\ inbox = [u \in Users |-> <<>>]
    /\ stamps = 0
    /\ req = [r \in Requests |-> Idle]
    /\ begun = 0
    /\ overlapped = FALSE

----------------------------------------------------------------------------
(* Matching. *)

Seqs == INSTANCE SequencesExt

Casefolded(text) == Seqs!FlattenSeq([i \in DOMAIN text |-> Casefold[text[i]]])
Lowered(text)    == [i \in DOMAIN text |-> SqlLower[text[i]]]

\* term in text, letter by letter.
Holds(text, term) ==
    \E i \in 0 .. Len(text) - Len(term) : \A j \in 1 .. Len(term) : text[i + j] = term[j]

\* The text listing_matches looks the term up in.
Haystack(l) == l.headline \o <<Newline>> \o l.description

\* listing_matches: a filter that is set and not met refuses the listing.
Matches(l, f) ==
    ~ \/ \E type \in f.type : l.type # type
      \/ \E low \in f.min_price : l.asking_price < low
      \/ \E high \in f.max_price : l.asking_price > high
      \/ \E low \in f.min_profit : l.ttm_profit < low
      \/ \E term \in f.q : ~Holds(Casefolded(Haystack(l)), Casefolded(term))

\* One ILIKE of browse_listings, its wildcards escaped.
ILike(column, term) == Holds(Lowered(column), Lowered(term))

\* browse_listings: the conditions of the query, on a live listing.
Found(l, f) ==
    /\ \A type \in f.type : l.type = type
    /\ \A low \in f.min_price : l.asking_price >= low
    /\ \A high \in f.max_price : l.asking_price <= high
    /\ \A low \in f.min_profit : l.ttm_profit >= low
    /\ \A term \in f.q : ILike(l.headline, term) \/ ILike(l.description, term)

----------------------------------------------------------------------------
(* Requests. *)

InFlight == {r \in Requests : req[r].op \notin {"idle", "approved", "announce"}}

Begins(r) ==
    /\ req[r].op = "idle"
    /\ begun < MaxRequests
    /\ begun' = begun + 1

Becomes(r, task) == req' = [req EXCEPT ![r] = task]

\* A user's request begins, others of theirs perhaps in flight.
UserBegins(r, task) ==
    /\ Begins(r)
    /\ Becomes(r, task)
    /\ overlapped' = (overlapped \/ InFlight # {})

Ends(r) == Becomes(r, Idle)

----------------------------------------------------------------------------
(* Saved searches. *)

SearchesOf(u) == {s \in searches : s.user = u}

\* Mutant of UnderCap: the search that fills the cap is not the last.
AtCap(u) == Cardinality(SearchesOf(u)) <= SearchCap
UnderCap(u) == Cardinality(SearchesOf(u)) < SearchCap

SearchRead(r, u) ==
    /\ UnderCap(u)
    /\ UserBegins(r, [Idle EXCEPT !.op = "search", !.user = u, !.n = begun + 1])
    /\ UNCHANGED <<status, facts, searches, inbox, stamps>>

SearchWrite(r, f) ==
    /\ req[r].op = "search"
    /\ searches' = searches \cup {[id |-> req[r].n, user |-> req[r].user, filter |-> f]}
    /\ Ends(r)
    /\ UNCHANGED <<status, facts, inbox, stamps, begun, overlapped>>

\* The row is deleted by id; a second delete finds nothing.
SearchDelete(s) ==
    /\ s \in searches
    /\ searches' = searches \ {s}
    /\ UNCHANGED <<status, facts, inbox, stamps, req, begun, overlapped>>

----------------------------------------------------------------------------
(* Publication. *)

\* The owner's requests: pause, resume and an edit, each one step here; Deals has
\* their two.
Pause ==
    /\ status = "live"
    /\ status' = "paused"
    /\ UNCHANGED <<facts, searches, inbox, stamps, req, begun, overlapped>>

Resume ==
    /\ status = "paused"
    /\ status' = "live"
    /\ UNCHANGED <<facts, searches, inbox, stamps, req, begun, overlapped>>

Edit(l) ==
    /\ facts' = l
    /\ status' = "pending_review"
    /\ UNCHANGED <<searches, inbox, stamps, req, begun, overlapped>>

\* approve_listing: the status is committed, the listing loaded again, and what
\* was loaded announced.
Approve(r) ==
    /\ status = "pending_review"
    /\ Begins(r)
    /\ status' = "live"
    /\ Becomes(r, [Idle EXCEPT !.op = "approved"])
    /\ UNCHANGED <<facts, searches, inbox, stamps, overlapped>>

Refresh(r) ==
    /\ req[r].op = "approved"
    /\ Becomes(r, [req[r] EXCEPT !.op = "announce", !.card = {facts}])
    /\ UNCHANGED <<status, facts, searches, inbox, stamps, begun, overlapped>>

Alerted(u) == \E i \in DOMAIN inbox[u] : inbox[u][i].type = "listing_matched"

AlertUnread(u) ==
    \E i \in DOMAIN inbox[u] : inbox[u][i].type = "listing_matched" /\ inbox[u][i].read = 0

Subscribed(l, u) == u # Owner /\ \E s \in SearchesOf(u) : Matches(l, s.filter)

\* Mutant of NewAlerts: an alert that was read does not count.
AlertsUnlessUnread(l, u) ==
    IF Subscribed(l, u) /\ ~AlertUnread(u) THEN <<Note("listing_matched")>> ELSE <<>>

\* fan_out_saved_searches of listing l, as far as u is concerned.
NewAlerts(l, u) == IF Subscribed(l, u) /\ ~Alerted(u) THEN <<Note("listing_matched")>> ELSE <<>>

FanOut(r) ==
    /\ req[r].op = "announce"
    /\ \E l \in req[r].card : inbox' = [u \in Users |-> inbox[u] \o NewAlerts(l, u)]
    /\ Ends(r)
    /\ UNCHANGED <<status, facts, searches, stamps, begun, overlapped>>

\* The decision is committed; loading the listing again fails, or the transaction
\* of the fan-out, or the process.  Nothing announces the listing later.
FanOutLost(r) ==
    /\ req[r].op \in {"approved", "announce"}
    /\ Ends(r)
    /\ UNCHANGED <<status, facts, searches, inbox, stamps, begun, overlapped>>

\* notify, from another part of the system.
Arrive(r) ==
    /\ Begins(r)
    /\ inbox' = [inbox EXCEPT ![Buyer] = Append(@, Note("other"))]
    /\ UNCHANGED <<status, facts, searches, stamps, req, overlapped>>

----------------------------------------------------------------------------
(* Read receipts. *)

Unread(u) == {i \in DOMAIN inbox[u] : inbox[u][i].read = 0}

Stamp(u, rows) ==
    inbox' = [inbox EXCEPT ![u] =
        [i \in DOMAIN @ |-> IF i \in rows THEN [@[i] EXCEPT !.read = stamps + 1] ELSE @[i]]]

MarkRead(r, i) ==
    /\ UserBegins(r, [Idle EXCEPT !.op = "mark", !.user = Buyer, !.n = i,
                                  !.rows = Unread(Buyer) \cap {i}])
    /\ UNCHANGED <<status, facts, searches, inbox, stamps>>

\* Mutant of StampOnce: every receipt stamps the row.
StampAlways(r) == Stamp(Buyer, {req[r].n})
StampOnce(r) == Stamp(Buyer, req[r].rows)

\* A row that was read when it was loaded keeps its stamp.
MarkWrite(r) ==
    /\ req[r].op = "mark"
    /\ StampOnce(r)
    /\ stamps' = stamps + 1
    /\ Becomes(r, [req[r] EXCEPT !.op = "marked"])
    /\ UNCHANGED <<status, facts, searches, begun, overlapped>>

ReadAll(r) ==
    /\ UserBegins(r, [Idle EXCEPT !.op = "markall", !.user = Buyer, !.rows = Unread(Buyer)])
    /\ UNCHANGED <<status, facts, searches, inbox, stamps>>

ReadAllWrite(r) ==
    /\ req[r].op = "markall"
    /\ Stamp(Buyer, req[r].rows)
    /\ stamps' = stamps + 1
    /\ Ends(r)
    /\ UNCHANGED <<status, facts, searches, begun, overlapped>>

----------------------------------------------------------------------------
AlertsTypeOK ==
    /\ status \in {"pending_review", "live", "paused"}
    /\ facts \in Facts
    /\ searches \subseteq SavedSearch
    /\ inbox \in [Users -> Seq(Notification)]
    /\ stamps \in Nat
    /\ req \in [Requests -> Request]
    /\ begun \in 0 .. MaxRequests
    /\ overlapped \in BOOLEAN
=============================================================================
