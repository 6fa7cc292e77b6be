# NextOwner, modelled and proved

NextOwner is a marketplace where businesses are sold: a seller lists one, an
admin reviews it, buyers who signed the NDA ask for access to its data room,
talk to the seller and negotiate offers until the listing is sold. The backend
is FastAPI over a SQL database (`src/backend/app`), the client a React and MobX
single-page application (`src/app/src`).

This directory holds TLA+ modules of the backend's core and of the two browser
stores that depend on the order of answers, the TLC configurations that check
them, and the theorems TLAPS proves about them.

## How the program runs, and how that becomes steps

* Every HTTP request has a database session of its own (`db.py:26-33`). The
  sync endpoints run in a thread pool; the chat socket, the two uploads and the
  revocation are coroutines on one event loop. There is one process: the
  documented command (`docs/design_implementation.md:215`) starts one worker, and
  the registry of sockets and the counters of the limiter live in it.
* The database is SQLite by default (`config.py:17`). Reads open no
  transaction, so what a handler reads, its permission gates included, is a
  snapshot that may be stale when it is used. From its first write to its
  commit a handler is alone: one writer at a time.
* The ORM flushes the columns that changed with `UPDATE ... WHERE id = ?`.
  A status checked in Python is not checked again by that statement.

A handler whose write is guarded only by what it read (`_transition`,
`update_listing`, both `_decide`s, the token and account endpoints, the saved
search cap, read receipts) is therefore two steps: a read that remembers what it
saw, and a write that may come any time later. A handler whose write is a
rowcount-checked `UPDATE ... WHERE status = ...` (accept, decline, counter,
withdraw, mark-sold, relist) relies on no read and is one step. A coroutine is
one step from one `await` to the next. Each commit of a handler that commits
twice is a step of its own. An attempt that is refused changes nothing and is no
step.

**Schedules.** `Spec` of each module has every interleaving. Some promises hold
of every schedule; others only of those in which no write is made from a read
that others have overtaken: what the repository's sequential tests run, and all
there would be if each such write repeated what it relies on in its `WHERE`.
Deals, Access, Chat, Verification and Accounts name those schedules by a
specification, `SerialSpec` (`SerialChatSpec` in Chat). Verification and Accounts
say it with a history variable, `raced`, FALSE until the first such write, and so
do Alerts and Inbox with `overlapped`; properties that depend on one say so in
their first line. A property stated of these schedules says what the code keeps
outside a race, and how the race itself ends is said below.

**One at a time.** Every statement of the modelled routers filters by listing
id, by (listing, buyer), by account or by primary key, so two listings or two
accounts share no state. Deals and Alerts model one listing with all its buyers,
Access and Chat one buyer of one listing, Verification one buyer and one data
room, Accounts one account, Inbox one browser.

## Inventory

| component | code | state | operations | what is hard |
|---|---|---|---|---|
| listing lifecycle | `routers/listings.py` | `listing.status`, `published_at`, `final_price`, audit rows | create, edit, submit, approve, reject, pause, resume, close, mark-sold, relist, upload | read-then-write transitions racing the deal |
| negotiation | `routers/offers.py` | `offer`, `offerevent` | create, accept (with sweep), decline, counter, withdraw | two parties deciding one row at once; unique open offer per buyer |
| access | `routers/access.py` | `accessrequest`, its events | ask, approve, deny, revoke | read-then-write decisions; two-transaction operations |
| chat | `routers/chat.py`, `chat_broker.py` | `conversation`, `message`, in-memory registry of sockets | connect, frame, publish, unregister, close on revocation; history, mark read | interleaving at each await; revocation against handshakes and frames |
| notifications | `notifications.py`, `routers/notifications.py` | `notification` | one per event, in the event's transaction; fan-out on publication; mark read | recipient derivation; repeated publication; two receipts of one row |
| verification | `routers/verification.py` | `user.verification_status`, documents, events | submit, approve, reject, revoke | a submission against a decision, two decisions, partial column flushes |
| uploads | `uploads.py`, `storage.py` | quota counts, files, rows | validate, check, store, insert | a count before an insert; a file without its row |
| accounts | `routers/auth.py`, `tokens.py`, `security.py` | user, single-use tokens | register, login, NDA, roles, forgot, reset, verify, resend | double redemption, several live links, stamps written twice |
| rate limiter | `ratelimit.py` | attempts per key, in memory | check, hit, sweep | threads over one dictionary, boundaries of window and sweep |
| mailer | `mailer.py` | mail pending on a session, a pool | queue, flush at commit, drop at rollback, send | mail for what never committed |
| saved searches | `routers/saved_searches.py`, `saved_search_matching.py` | one row a search | add, delete, match | cap before the insert; a matcher that mirrors a query |
| watchlist | `routers/watchlist.py` | one row per user and listing | add, list, delete | unique constraint, entries of listings no longer live |
| valuation | `valuation.py` | none | estimate | rounding, clamps, change of driver |
| browser stores | `src/app/src/stores/*.ts` | last answer of an endpoint, live chat frames | load, act, receive | answers out of order, lost, or about what changed elsewhere |

Routers call the gates of `permissions.py`, then write their rows, events and
notifications in one transaction. `revoke_access_request` calls the chat broker.
An approved access request is what lets a buyer make offers, read the data room
and hold a socket. Publishing a listing fans out to the saved searches, whose
alerts the browser counts on its badge. The account endpoints call the limiter
before they read, issue a link in their transaction, and queue its mail on the
session, which the commit hands over.

Correct means, part by part: the listing never shows unreviewed content and
never changes after it closes or sells; one deal at a time, sold once at its
price, nobody's open offer forgotten; a negotiation is a chain decided once at
each link with an audit row each; a request is decided once, a revocation
reaches every live socket; no message is lost between stored and sent; every
party is told, once. A buyer is verified only by an approval that stands, no
owner exceeds the quota, no row lacks its file; a link works once, a mail leaves
if and only if its link is durable, an address has a budget; a subscriber is
alerted once; the browser shows what the server holds.

## Modules

| module | models | notes |
|---|---|---|
| `Deals` | one listing: lifecycle, offers, close | read-then-write requests in flight, compare-and-swap operations in one step |
| `DealContract` | what a listing promises its parties | abstract specification, five phases |
| `RoomContract` | what the seller is promised of a conversation | abstract specification: who stands where, who is in the room |
| `ReviewContract` | what "verified buyer" promises a seller | abstract specification: a standing, documents no decision has covered |
| `LinkContract` | what an account's owner is promised of reset links | abstract specification: the good link, the links used |
| `Access` | one access request and its decisions | approve and ask take two transactions |
| `Chat` | `EXTENDS Access`: sockets, coroutines, registry, messages | composition: a revocation closes sockets, a connection reads the request's status |
| `Verification` | one buyer's verification and one data room | both upload routes on one event loop, decisions in threads |
| `RateLimit` | one limiter and its clock | a hit is a step per access to the dictionary, its sweep a step per key; no specification of its own |
| `Accounts` | `EXTENDS RateLimit`: account, links, mail | composition: the budget decides whether a link is issued |
| `Alerts` | saved searches, fan-out, receipts | server side, no specification of its own |
| `Inbox` | `EXTENDS Alerts`: badge, inbox, heart and their calls | composition: the browser beside the server |
| `Valuation` | the calculator | a pure function, theorems only |
| `MCDeals`, `MCAccounts`, `MCInbox` | symmetry sets, filters and listings for TLC | |
| `DealsProofs`, `AccessProofs`, `ChatProofs`, `VerificationProofs`, `AccountsProofs`, `InboxProofs`, `ValuationProofs` | theorems and proofs | those about Alerts are in `InboxProofs` |
| `Induction` | lemmas: induction over naturals and intervals, iteration | stated of sets and functions, so that a proof can cite them |

### Deals
`status`, `publishedAt`, `finalPrice` are columns of the listing; `reviewed` is
a history variable, TRUE from an approval until the next edit. `offers` is the
offer table by id. `events` and `notes` hold offer events and notifications with
the columns that the properties tell apart: decided_by and decided_at of a row
are those of the event that moved it. `log` counts the listing's audit rows by
action. `req[r]` is a request between its read and its write. `Buyers` are the
holders of approved access; a revocation during a request is one more stale read
and changes no row here.

### Access and Chat
`row`, `trail`, `conv` are the request's status, its event rows and whether the
conversation exists; `asked` whether the seller was notified. `task[r]` is where
an HTTP request is. `failures` counts transactions that failed and restarts.
In Chat, `handler[s]` is where the coroutine of a socket is (in `accept`, in
`receive_text`, with a frame, in `publish`), `link[s]` the socket itself,
`registered` the broker's registry, `publishing[s]` the progress of a publish,
`closing[r]` that of a `close_user`. `owed[s]` is a history variable: what was
stored while a socket was open and has not been sent down it. A socket connects
once; a member who connects again uses another.
Any await may yield, whether or not the installed server lets it.
For `RoomContract` the standing is `row`, and the room is `Present`: the buyer's
sockets that are open and that no revocation is about to close. `close_user`
closes one socket after another; the commit of the revocation is already the step
that takes them all out.

Three failures leave a half-done step behind. The second read of the role in a
handshake comes after `register` and before the `try` whose `finally` unregisters
(`chat.py:87`, `:96`, `:108`): when it fails (`HandshakeFails`) the connection is
gone and its socket stays in the registry, where a publish sends to it in vain,
until a restart. The reads that follow the revocation's commit (`access.py:221`,
`:277`) may fail before `close_user` (`RevokeUnclosed`): the request is revoked
and every socket stays open. `missed` records it, and `Standing`, the standing
that `RoomContract` sees, stays "approved": the sockets have not felt the
revocation. A message may be committed and the read of it fail (`StoreUnheard`):
it is in the history and nobody is sent it.

### Verification
`user` is the buyer's status with the reason and the review stamp, each named by
the place in the trail of the decision it came from. `docs` holds the document
rows of the two shelves (the buyer's proofs, the listing's data room), `files`
the keys on disk. `req[r]` holds the row a request loaded and, for an upload past
its quota, the file it has written: from there to the commit nothing is awaited,
so `LoopIsFree` keeps other uploads out (in one process: `docs/security.md:226`
describes two uploads that both count 19 documents and both insert, and
`uploads.py:47-50` and specs/010 D11 accept that race; it takes two workers). A write flushes the columns that differ
from what was loaded (`FlushedUser`), so two overlapping writes may mix: a
rejection that overlaps an approval leaves its reason beside a verified status,
and an upload that straddles an approval takes the buyer back to pending. `raced`
records that such a write has happened. For `ReviewContract` the documents nobody
has looked at are those beyond the ones the last decision found on file.

### RateLimit and Accounts
`hits` is the limiter's dictionary, `hit[r]` where an attempt is: it has read the
clock, found a sweep due, listed the keys to delete (`doomed`), or read its own
attempts. Other threads run between any two of these steps, so a sweep may delete
a key hit since it was listed, or find it deleted by another sweep, which is the
KeyError of `ratelimit.py:94` (`SweepBreaks`). Only the budget by address is
modelled: of the named limiters of the process (`_windows`), it alone decides
whether mail is sent.

In Accounts `links` are the token rows of both kinds with their time of issue.
`mail` says where the mail of each token ever drawn is: "pending" on the session
of its request, "dropped" with a rollback, and, once `after_commit` has handed it
over (`HandOver`, a step of its own after the commit), "queued" in the pool, then
"delivered" or "lost". A token is drawn when the request reads, and its row is
inserted by the commit. `resets` are the links that changed the password, `spent`
the attempts the address's budget let through. A redemption reads the link and
writes after the password is hashed. `raced` records a step that relied on what
others had changed since it was read: a write to the account, the links or the
counter, or a step of a sweep. `failures` and `restarts` share one bound; a
restart forgets the counters, the sessions and what was still queued. For `LinkContract` the good link is the last
row as long as some row is unused, and the uses are `resets`.

### Alerts and Inbox
Filters are records of sets with at most one value; terms and texts are sequences
of `Letters`. `Casefold` gives the letters Python's `casefold` makes of one, and
`SqlLower` the letter SQLite's `lower` makes of it: all the model knows of them is
that neither touches the newline and that letters which SQLite holds for the same
casefold alike (`LettersAssumption`). The matcher looks a term up in headline,
newline and description joined and casefolded, the query in headline and in
description, as substrings (`Holds`). `req[r].card` is the listing an approval
loaded to announce, which is a step after its commit (`Refresh`). The fan-out is
one step: its first query flushes the decision's notification and with it takes
SQLite's write lock until the commit; the partial unique index stands behind. It is
a transaction of its own after the approval's (`listings.py:857-859`), although
specs/008-alerts/spec.md:50 (D12) wants it inside: it may be lost after the
approval is durable (`FanOutLost`), and then nobody is ever told, unless the
listing is edited and approved again. `read` numbers the moments.
Pause, resume and edit are one step here: their races are those of Deals.
In Inbox, `badge`, `shown` and `heart` are the stores' fields; the server's part
of a call and the arrival of its answer are separate steps, so answers arrive in
any order or never. `current` is a history variable: no notification has come
and no answer was lost since a count that found every row shown as unread
unread. `overlapped` records that two of the users' requests have been in flight
together.

### Valuation
Figures in cents, percentages and multiples in hundredths, so that the program's
decimals are integers and its only division is the rounding. The numbers exceed
what TLC can count: the module is for the proofs.

## Runs

| run | specification | bounds | shows |
|---|---|---|---|
| `deals_race` | `Spec` | 2 buyers, 2 requests in flight, 3 offers, 1 price, 1 decision | what the negotiation keeps in every schedule |
| `deals_serial` | `SerialSpec` | 2 buyers, 2 requests, 2 offers, 2 prices, 2 decisions | the deal, review and finality promises, and refinement of `DealContract` |
| `deals_two_accepted` | `Spec` | 1 request | violated: a stale lifecycle write reopens a listing under offer |
| `deals_unreviewed` | `Spec` | 2 requests, 2 decisions | violated: an edit straddles an approval |
| `deals_losing_buyer` | `Spec` | 1 request, 3 offers | violated: a swept counter-offer notifies its proposer, the seller |
| `access_race` | `Spec` | 3 requests, 1 failure | what row, trail and conversation keep whatever races (their types are part of `ChatTypeOK` in `chat`) |
| `access_final` | `Spec` | 2 requests | violated: two decisions from one status |
| `chat` | `FairChatSpec` | 2 buyer sockets, 1 seller socket, 1 message, 1 HTTP request, 1 failure | live revocation, delivery, that revocation reaches, and refinement of `RoomContract` |
| `chat_after_revoke` | `ChatSpec` | 1 socket each, 1 message | violated: a frame already received is stored after the revocation |
| `verification` | `Spec` | 2 requests, quota of 2 documents and 3 bytes, sizes 1 and 2, 3 decisions, 1 failure | status, quota and disk in every schedule; reason and decision trail without stale writes |
| `accounts` | `Spec` | 2 requests in flight, 3 served, 3 ticks, 1 failure or restart, budget of 1 in a window of 2, a sweep every tick, 1 address, registered as a buyer | mail, links, stamps, roles and the budget |
| `inbox` | `Spec` | 2 in flight, 5 served, cap of 1, 2 searches, 2 contents of the listing, 6 letters, 1 lost answer or fan-out | alerts, receipts, the cap, and the browser beside the server |

**Why the bounds are enough.** Two buyers have siblings to sweep; three offers
hold a counter-offer and a competitor, or a second round after a relist; two
requests in flight are what a lost update takes. A second price is needed only
where prices are compared, a second decision where a review is repeated.
Three decisions in flight let one straddle two others. Two sockets of one
buyer are what `close_user` awaits between; a third on the other side makes
`publish` go through two users. One message in flight is enough for delivery,
as two publishes share only the registry; the theorem covers any number.

In `verification` the quota can be reached by count and by bytes, and an upload
can be in flight when it has one place left; three decisions are an approval, its
revocation and a decision on the resubmission. In `accounts` one tick separates
the lifetimes of the two kinds of link, and the window and the sweep elapse at
different ticks; three requests are two in flight with one before or after
them, or an issue, its redemption and a second redemption. The limiter judges
each key apart, so one address shows what a sweep does to a count; `add_role`
treats the two roles alike, so an account registered as a buyer is enough. In
`inbox` the one
place under the cap is read by two requests; five requests are two publications
with a search and a receipt between them, or a count, a list, a click and what
overtakes them; the two filters and contents meet every limit exactly, pass it,
and hold a capital, an accented capital and a sharp s, so that a term matches
across the foldings. The proofs drop all of these bounds.

`CHECK_DEADLOCK FALSE`: a sold listing with nothing open, a decided request,
a conversation whose sockets are used up, and a server that served its last
request really stop.

**Fairness** is assumed only in `FairChatSpec`. Weak fairness on each coroutine
and on `close_user` says the event loop runs what is ready and that the awaits
of accept, send and close return (the server drops a peer that answers no
ping). Strong fairness on the end of a coroutine whose socket is gone says a
client that left had queued finitely many frames. Nothing is assumed of clients
or of HTTP requests, so the other modules state no liveness: whether a request
is made, or a mail can be sent, is nobody's promise.

**What the violations say.** They are in `PROJECT.json` with the line each
contradicts. Two are stale writes of the lifecycle (`listings.py:419`, `:363`),
one a stale write of a decision (`access.py:203`), one the recipient of a swept
counter-offer (`offers.py:220`), one a frame accepted before and stored after a
revocation (`chat.py:137`).

**What holds only without stale writes**, beyond those, and what a racing
schedule does instead:

* Verification: the reason and date shown (a rejection's reason beside a verified
  status), each decision following the one before (two decisions from one
  status), every document covered by the decision (an upload whose row commits
  after it).
* Accounts: one live link of a kind (two issues in flight leave two), a link's
  single use (both redemptions read it unused), the first stamps, the mail budget
  (two threads count one attempt; a sweep deletes a key hit since it was listed).
  After a restart the budget begins anew.
* Chat holds in every schedule, but a revocation whose request fails between its
  commit and `close_user` closes nothing (`missed`); what it promises is stated of
  one that gets there.
* Deals: a stale create or counter leaves an open offer on a listing under offer
  (`SweptClean`), and a stale lifecycle write changes a closed or sold listing
  (`TerminalStays`); `TrailIsHistory`, `CounterChain` and the others of
  `deals_race` hold regardless.
* Inbox: the badge (a row opened twice before the first answer is taken off
  twice; one read elsewhere is taken off though it was not counted), the heart
  (a list asked for before a removal arrives after it), the first moment of
  reading (a receipt and a read-all both loaded the row unread).

## Proofs

All theorems hold for any sets of buyers, sockets, requests, filters and sizes
and any bounds, from the named assumptions of the modules, each as weak as the
code's settings and gates make it: `DealsAssumption` (the seller is no buyer of
the listing, prices are positive), `AccessAssumption`, `ChatAssumption` (a socket
is of one side), `VerificationAssumption` (finitely many requests, sizes are
positive), `RateLimitAssumption` and `AccountsAssumption` (lifetimes and windows
are positive), `AlertsAssumption` (the owner is not the buyer looked at, filters
are coherent, finitely many requests and one at least), `InboxAssumption`. TLC
evaluates them in the runs.

* **Deals, every schedule.** `Inv` adds to `TypeOK` that ids are given out in
  order, so that a new row overwrites none, to the two safety invariants that
  hold even when requests interleave. From it: `OneActiveOffer`, `AlwaysAnOfferToResolve`,
  `OffersOnlyMoveForward` (an action property), `PriceIsADeals`. `ChainInv` adds
  that an id not given out has an empty row, so that no answer points at a row
  yet to come (`NegotiationIsAChain`). `Histories` says of each offer what
  `TrailIsHistory` says of all (`DecidedOnce`); the six `...Trail` lemmas say
  once what each step adds to events and notifications, and serve
  `BothPartiesKnow` too, where a notification stays good because a given-out row
  keeps its terms. `AuditIsTrue` counts: a resolution adds one element to one
  finite set.
* **Deals, serial schedules.** `SerialInv` relates the listing's status to the
  statuses of its offers; a request in flight may write only if what it saw is
  still there, which is what `AllowedFrom` was checked against (`GatesPassed`).
  `ContractInv` adds that rows have terms (`RowsHaveTerms`). From it:
  `OneAccepted`, `UnderOfferIsADeal`, `NothingLeftOpen`, `SellsOnce`,
  `OnlyReviewedContent`, `TerminalIsFinal`. `ListingKeepsContract` shows that
  the listing and its offers implement `DealContract` under the mapping at the
  end of `Deals`: each step maps to a step of the contract or a stutter.
* **Deals, two sales.** `SellsOnce` contradicts two sentences of the repository.
  specs/012-deal-completion/spec.md:65-66 (D4(b)) and `models.py:135-137` store the
  price because "a re-listed listing can sell twice", after which the completed
  offer is not unique. The code has no such path: `relist` starts from
  `under_offer` (`listings.py:664`), and `sold` is terminal in both directions
  (`models.py:131-132`, `listings.py:645`). The column is still right; the reason
  given for it describes a state the program cannot reach.
* **Deals, the sweep.** `LosingBuyerTold` is violated, and `SweptProposersKnow` says
  how far: in every schedule whoever proposed an offer that an accept swept is told,
  so the buyers left untold are those to whom the seller had counter-offered.
* **Access.** `OpenersApproved` (who is about to open a conversation has
  approved) and `DecidersSawRow` make the trail and second-half properties
  inductive. `Final` proves, for serial schedules, that the trail is one of four.
* **Chat.** `ChatRunsAccess` shows the composition's steps are Access's or
  stutters. The inductive invariant `ChatInv` needs `Shape`: the registry holds
  exactly the coroutines past their handshake and the failed handshakes, none exists without the
  conversation, and a coroutine outside `publish` has nothing left to send.
  From it, in every schedule: `RevocationCloses`, `MessagesReach`,
  `NothingOwedAtRest`, `RegistryIsExact` (the registry holds the sockets being
  served and those whose handshake failed once registered, which nothing but a
  restart takes out), and `RevokedStayOut`, the safe half of
  `RevocationReaches`: from a revocation on, the buyer's sockets only leave.
* **Chat, serial schedules.** `ConversationKeepsRoom` shows that sockets, broker and
  decisions implement `RoomContract`. The step that takes thought is a coroutine
  that registers: it has looked at the role once more, in the same step, so whoever
  enters is approved. From the contract: `OnlyApprovedInside`. `LateFrames` then
  says what is left of `OnlyMembersTalk`, which `chat_after_revoke` violates: a
  message stored without an approval came down a socket already out of the room, or
  after a revocation that never came to the sockets.
* **Verification.** `Inv` adds to types that keys are given out in order, that only
  uploads hold a file, that each request in flight passed its gate, and that an
  unverified buyer has never submitted: with it `StatusIsExplained` is inductive in
  every schedule. `Current` adds, while nothing raced, that a queued buyer has
  more documents than the last decision covered (`ReasonsAreCurrent`,
  `DecisionsFollow`), which is what `VerificationKeepsReview` needs to show that
  each commit is a step of `ReviewContract`; hence `VerifiedSeenWhole`. `OnDisk`
  counts: one upload at a time is past its quota, and what it was let in with is
  still free when it commits (`QuotaHolds`), and rows, uploads and failures account
  for every file (`RowsKeepFiles`). The bytes of a shelf are a recursive function
  of how many documents are summed, so `SizeAppended`, that one more document adds
  its size, is an induction on that number.
* **Accounts, links.** `Inv` says for each token where its mail is and where its row
  is, in the database or with the request that drew it, that no two requests hold
  one token, that no link precedes the account, and what a request in flight has read.
  A mail that is handed over has its row, one that is dropped has none, and one
  still on a session has a request that holds the token: this is what makes
  `MailIffDurable` inductive. `SingleInv` adds, while nothing raced, that a link that
  changed the password is marked used. From them: `MailFollowsCommit`,
  `LinksAreSingleUse`, `RecordsAreKept` (an action property), and, for serial
  schedules, that the reset links implement `LinkContract` (`AccountKeepsLinks`)
  and are used in the order of their issue (`ResetsInOrder`).
* **Accounts, budget.** `Limiter` says the stamps of a key are in order and no later
  than the clock, so that the attempts in a window are the last ones
  (`WindowIsLast`, an induction over the stamps). `SpentCounted` then keeps every
  attempt that was let through among the counted ones as long as its window lasts,
  whatever is filtered, swept or refused meanwhile; it counts from the end of both
  sequences, as refusals are counted too. From it `BudgetHolds`. `TypeCorrect` needs
  the same induction, for the type of what is kept. `EvictionChangesNothing` is the
  sweep's own promise (`ratelimit.py:60`), as long as no thread acts on what another
  has changed: the stamps a sweep drops are outside the window of every clock from
  the last sweep on. In a race it is false, and the model has both ways it fails.
* **Inbox.** `FoundIsMatched` and `MirrorInStep` compare the matcher with the
  query for any filter, listing and alphabet, without state. What the query finds
  the matcher matches, always; the converse holds where `casefold` and `lower` agree
  on every letter and no term holds the newline. The three exceptions are a letter
  SQLite does not lower (an accented capital), a letter that casefolds to several (a
  sharp s) and a term that spans headline and description; in each an alert leads to
  a search that finds nothing. Both rest on casefolding a text being joining the
  foldings of its letters (`FoldedAppend`, `FoldedConcat`), an induction over texts. `CapInv` counts the searches of
  a user with the requests that have
  read a free place (`OvershootIsBounded`). `AlertsInv` and the step formula it
  preserves give `OneAlertEach`. `AloneInv` says what a lone request has read is still
  so (`FirstReadIsKept`); `BadgeInv` relates the badge to the unread rows at each
  stage of a call, `HeartInv` the heart to the watchlist row (`BrowserKeepsUp`).
* **Valuation.** The range is in order and never negative, and monotone in growth,
  churn and profit. `FirstProfitCanLower` exhibits the exception: the driver
  changes from revenue to profit at the first unit of profit, although
  `valuation.py:21-22` says that raising profit never lowers the estimate.
* **Induction.** The library states induction for a predicate, which the provers
  here cannot instantiate. `SetInduction` states it for a set of naturals and is
  proved from the well-foundedness of `<`; the lemmas on intervals and on iteration
  follow: that a function defined from its value one below exists and is what its
  equation says. They are all that is used to reason about recursion.

**Only model-checked:** `RevocationReaches`, as liveness under fairness is out of
the prover's reach, and so is ENABLED. Every other property of a passing run is also
a theorem. `KeepsReview` and `KeepsLinks` are theorems only; TLC finds them to hold
at the bounds of `verification` and `accounts` under `SerialSpec`. No module declares
a RECURSIVE operator.

## Not modelled, and why

* Responses, schemas, logging and layout; JWTs, password hashes and the NDA text.
  They are library calls or have no state of their own.
* Static gates (role, ownership, signed NDA), which only fix who may act.
* The database is its transactions: no isolation level of another engine is
  modelled.
* Login, and the limits by client address on login, registration and reset
  requests: they share no key with the budget of an address, and refuse before
  anything is read. `reset`, which a login that succeeds calls, is theirs alone;
  the address of a client behind a proxy is configuration.
* The loss of `create_listing`'s second transaction (`listings.py:230-237`), which
  leaves a listing without its private half; Deals begins with a listing whose
  creation went through, and no property is about its private columns.
* The order in which two publishes reach two sockets, and marking a conversation
  read, whose stamp is a clock reading compared with other clock readings.
* `chatStore.ts`, which merges history with live frames, and `ChatWindow`'s
  reconnect effect; the other stores only keep the last answer of an endpoint.
  A logout with answers still on their way: the browser has one account.
* Valuation leads: one insert nothing reads back.
* Profile, debug, health and admin endpoints, configuration and assembly: reads
  and one-row updates with nothing to race.
* `listing.published_at` is stamped by every approval (`listings.py:851`), though
  `models.py:125` says "never restamped"; the model stamps as the code does.

## Plan

1. `ClientChat`: history against live frames and reconnects, composed with Chat.
2. Chat: marking a conversation read.
3. The limiters by client address, with `reset`, beside that of the account.
4. Proofs: abstract specifications of the inbox and of the two trails that only
   Access and Verification check step by step.

The order is by how much the product's promises rest on each part.
