------------------------------- MODULE Inbox -------------------------------
(***************************************************************************)
(* One buyer's browser beside the server of Alerts: the badge and the inbox *)
(* (stores/notificationStore.ts, NotificationInbox.tsx, NavBar.tsx) and the *)
(* heart of one listing (stores/watchlistStore.ts, routers/watchlist.py).   *)
(*                                                                          *)
(* A call is answered by the server, and its answer is applied when it      *)
(* arrives, whatever has been asked or answered since.  The server's own    *)
(* part of a call is one step where it is a query, or a write the database  *)
(* makes idempotent; marking a row read is two.                             *)
(***************************************************************************)
EXTENDS Alerts

CONSTANT MaxFailures    \* bound: answers and fan-outs lost

ASSUME InboxAssumption == MaxFailures \in Nat

VARIABLES
    watched,       \* the watchlistentry row of the buyer and the listing
    badge,         \* notificationStore.unreadCount
    shown,         \* the rows notificationStore.notifications shows as unread
    heart,         \* the listing is in watchlistStore.entries
    current,       \* no notification came, and no answer was lost, since a
                   \* count that found every row shown as unread unread
    failures       \* answers and fan-outs lost so far

browserVars == <<watched, badge, shown, heart, current, failures>>
inboxVars   == <<alertsVars, browserVars>>

Init ==
    /\ AlertsInit
    /\ watched = FALSE
    /\ badge = 0
    /\ shown = {}
    /\ heart = FALSE
    /\ current = TRUE
    /\ failures = 0

Answered(r, task) == UserBegins(r, task) /\ UNCHANGED <<status, facts, searches, inbox, stamps>>

\* The answer of r is applied: what it was about is r's no more.
Applied(r) ==
    /\ Ends(r)
    /\ UNCHANGED <<status, facts, searches, inbox, stamps, begun, overlapped, watched, failures>>

----------------------------------------------------------------------------
(* The badge and the inbox. *)

\* loadUnreadCount, on every change of route.
Count(r) ==
    /\ Answered(r, [Idle EXCEPT !.op = "counted", !.user = Buyer,
                                !.n = Cardinality(Unread(Buyer))])
    /\ current' = (shown \subseteq Unread(Buyer))
    /\ UNCHANGED <<watched, badge, shown, heart, failures>>

CountApplied(r) ==
    /\ req[r].op = "counted"
    /\ badge' = req[r].n
    /\ Applied(r)
    /\ UNCHANGED <<shown, heart, current>>

List(r) ==
    /\ Answered(r, [Idle EXCEPT !.op = "listed", !.user = Buyer, !.rows = Unread(Buyer)])
    /\ UNCHANGED browserVars

ListApplied(r) ==
    /\ req[r].op = "listed"
    /\ shown' = req[r].rows
    /\ Applied(r)
    /\ UNCHANGED <<badge, heart, current>>

\* Mutant of Click: a row may be opened again.
ClickAgain(r, i) ==
    /\ i \in DOMAIN inbox[Buyer]
    /\ MarkRead(r, i)
    /\ UNCHANGED browserVars

\* Opening a row that shows as unread marks it read first.
Click(r, i) == i \in shown /\ ClickAgain(r, i)

\* Mutant of Decremented: nothing keeps the badge from going below zero.
BelowZero == badge - 1
Decremented == IF badge = 0 THEN 0 ELSE badge - 1

MarkApplied(r) ==
    /\ req[r].op = "marked"
    /\ shown' = shown \ {req[r].n}
    /\ badge' = Decremented
    /\ Applied(r)
    /\ UNCHANGED <<heart, current>>

----------------------------------------------------------------------------
(* The heart. *)

\* The unique constraint makes the insert idempotent.
Watch(r) ==
    /\ status = "live"
    /\ ~heart
    /\ Answered(r, [Idle EXCEPT !.op = "watched", !.user = Buyer])
    /\ watched' = TRUE
    /\ UNCHANGED <<badge, shown, heart, current, failures>>

\* list_watchlist: the entry shows while the listing is live.
Listed == watched /\ status = "live"

Entries(r) ==
    /\ Answered(r, [Idle EXCEPT !.op = "entries", !.user = Buyer, !.flag = Listed])
    /\ UNCHANGED browserVars

\* add loads the list again.
WatchApplied(r) ==
    /\ req[r].op = "watched"
    /\ Becomes(r, [req[r] EXCEPT !.op = "entries", !.flag = Listed])
    /\ UNCHANGED <<status, facts, searches, inbox, stamps, begun, overlapped, browserVars>>

EntriesApplied(r) ==
    /\ req[r].op = "entries"
    /\ heart' = req[r].flag
    /\ Applied(r)
    /\ UNCHANGED <<badge, shown, current>>

\* The delete does not ask for the listing's status.
Unwatch(r) ==
    /\ heart
    /\ Answered(r, [Idle EXCEPT !.op = "unwatched", !.user = Buyer])
    /\ watched' = FALSE
    /\ UNCHANGED <<badge, shown, heart, current, failures>>

\* No load: the entry is taken out of the list.
UnwatchApplied(r) ==
    /\ req[r].op = "unwatched"
    /\ heart' = FALSE
    /\ Applied(r)
    /\ UNCHANGED <<badge, shown, current>>

----------------------------------------------------------------------------
\* The answer never arrives.  A failed count empties the badge.
AnswerLost(r) ==
    /\ req[r].op \in BrowserOp
    /\ failures < MaxFailures
    /\ failures' = failures + 1
    /\ Ends(r)
    /\ badge' = IF req[r].op = "counted" THEN 0 ELSE badge
    /\ current' = FALSE
    /\ UNCHANGED <<status, facts, searches, inbox, stamps, begun, overlapped,
                   watched, shown, heart>>

AnnounceFails(r) ==
    /\ failures < MaxFailures
    /\ failures' = failures + 1
    /\ FanOutLost(r)
    /\ UNCHANGED <<watched, badge, shown, heart, current>>

\* The server's own steps.  What arrives, or is read elsewhere, the badge
\* learns from the next count.
Server(r) ==
    /\ \/ \E u \in Users : SearchRead(r, u)
       \/ \E f \in Filters : SearchWrite(r, f)
       \/ Approve(r)
       \/ Refresh(r)
       \/ FanOut(r)
       \/ Arrive(r)
       \/ MarkWrite(r)
       \/ ReadAll(r)
       \/ ReadAllWrite(r)
    /\ current' = (current /\ Len(inbox'[Buyer]) = Len(inbox[Buyer]) /\ req'[r].op # "markall")
    /\ UNCHANGED <<watched, badge, shown, heart, failures>>

Elsewhere ==
    /\ \/ Pause
       \/ Resume
       \/ \E l \in Facts : Edit(l)
       \/ \E s \in searches : SearchDelete(s)
    /\ UNCHANGED browserVars

Browser(r) ==
    \/ Count(r) \/ CountApplied(r)
    \/ List(r) \/ ListApplied(r)
    \/ \E i \in 1 .. Len(inbox[Buyer]) : Click(r, i)
    \/ MarkApplied(r)
    \/ Watch(r) \/ WatchApplied(r)
    \/ Entries(r) \/ EntriesApplied(r)
    \/ Unwatch(r) \/ UnwatchApplied(r)
    \/ AnswerLost(r)

Next == Elsewhere \/ \E r \in Requests : Server(r) \/ AnnounceFails(r) \/ Browser(r)

Spec == Init /\ [][Next]_inboxVars

----------------------------------------------------------------------------
(* Properties. *)

\* Every row, request and store has its type.
TypeOK ==
    /\ AlertsTypeOK
    /\ watched \in BOOLEAN
    /\ badge \in Nat
    /\ shown \subseteq Nat
    /\ heart \in BOOLEAN
    /\ current \in BOOLEAN
    /\ failures \in 0 .. MaxFailures

AlertsOf(u) == {i \in DOMAIN inbox[u] : inbox[u][i].type = "listing_matched"}

\* Whoever has a search that a listing matches has one alert of it once the
\* fan-out of its approval commits (spec 008 B1), and from then on, however often
\* it is published again (B7), and its owner never has one (B5).  An approval
\* whose fan-out is lost tells nobody.
AlertedOnce ==
    [][\A u \in Users :
        /\ Cardinality(AlertsOf(u)') <= 1
        /\ u = Owner => AlertsOf(u)' = {}
        /\ \A r \in Requests :
               req[r].op = "announce" /\ req'[r].op = "idle" /\ failures' = failures =>
               \A l \in req[r].card, s \in SearchesOf(u) :
                   u # Owner /\ Matches(l, s.filter) => AlertsOf(u)' # {}]_inboxVars

\* The cap is overshot by no more than the requests that read the last free
\* place together (create_saved_search: a count, then an insert).
CapOvershoot ==
    \A u \in Users : Cardinality(SearchesOf(u)) <= SearchCap + Cardinality(Requests) - 1

\* The moment a notification was first seen is not rewritten
\* (spec 008 E10, mark_read and mark_all_read).
FirstReadStands ==
    [][~overlapped' =>
          \A i \in DOMAIN inbox[Buyer] :
              inbox[Buyer][i].read # 0 => inbox'[Buyer][i].read = inbox[Buyer][i].read]_inboxVars

\* With every call of the browser answered and no two of them in flight
\* together, the badge counts the unread rows, none of which was read elsewhere
\* while it showed as unread (notificationStore.ts: badge and inbox cannot
\* disagree after a mark-read), and no heart shows for a listing that is not on
\* the watchlist (watchlistStore.ts, spec 009 D3).
BrowserAgrees ==
    ~overlapped /\ InFlight = {} =>
        /\ current => badge = Cardinality(Unread(Buyer))
        /\ failures = 0 /\ heart => watched
=============================================================================
