------------------------------- MODULE Access -------------------------------
(***************************************************************************)
(* One buyer's request to see one listing's data room, and the seller's    *)
(* decisions on it (routers/access.py).  The buyer has signed the NDA, does *)
(* not own the listing, and the listing has been published: none of these  *)
(* is ever undone.                                                         *)
(*                                                                         *)
(* A decision loads the row in require_request_decider and compares its    *)
(* status in _decide; the flush that follows is UPDATE accessrequest SET   *)
(* status WHERE id, so what it read may be gone by then.  Requesting and   *)
(* approving each take two transactions.                                   *)
(***************************************************************************)
EXTENDS Naturals, Sequences

CONSTANTS
    Requests,      \* HTTP requests that may be in flight
    MaxFailures    \* bound: transactions and processes lost

ASSUME AccessAssumption == MaxFailures \in Nat

VARIABLES
    row,           \* accessrequest.status, "none" before there is a row
    trail,         \* the accessrequestevent rows, oldest first
    asked,         \* the seller has the access_requested notification
    conv,          \* the conversation row of the pair exists
    task,          \* what each HTTP request in flight is about to do
    failures       \* transactions that failed and restarts so far

accessVars == <<row, trail, asked, conv, task, failures>>

Decision == {"approve", "deny", "revoke"}

RowStatus == {"none", "requested", "approved", "denied", "revoked"}

\* A decision between its read and its write; a request at "ask" or "open" has
\* its first transaction behind it and its second to do; one at "close" has
\* revoked and is closing sockets.
Task == Decision \cup {"idle", "ask", "open", "close"}

\* The status a decision is taken from, and the one it leads to.
From == [approve |-> "requested", deny |-> "requested", revoke |-> "approved"]
To   == [approve |-> "approved", deny |-> "denied", revoke |-> "revoked"]

Init ==
    /\ row = "none"
    /\ trail = <<>>
    /\ asked = FALSE
    /\ conv = FALSE
    /\ task = [r \in Requests |-> "idle"]
    /\ failures = 0

Becomes(r, t) == task' = [task EXCEPT ![r] = t]

----------------------------------------------------------------------------
\* The row is inserted past the unique constraint on the pair, which alone
\* decides between two attempts; the seller is told in a second transaction.
\* (Mutant: Reask, without the constraint.)
Reask(r) ==
    /\ task[r] = "idle"
    /\ row' = "requested"
    /\ Becomes(r, "ask")
    /\ UNCHANGED <<trail, asked, conv, failures>>

AskWrite(r) == row = "none" /\ Reask(r)

AskNotify(r) ==
    /\ task[r] = "ask"
    /\ asked' = TRUE
    /\ Becomes(r, "idle")
    /\ UNCHANGED <<row, trail, conv, failures>>

----------------------------------------------------------------------------
DecideRead(r, d) ==
    /\ task[r] = "idle"
    /\ row = From[d]
    /\ Becomes(r, d)
    /\ UNCHANGED <<row, trail, asked, conv, failures>>

\* The status and the event of the decision commit together.
Decide(r, d, next) ==
    /\ task[r] = d
    /\ row' = To[d]
    /\ trail' = Append(trail, d)
    /\ Becomes(r, next)
    /\ UNCHANGED <<asked, conv, failures>>

\* Mutants: approving opens nothing, and any decision opens the conversation.
ApproveOnly(r) == Decide(r, "approve", "idle")
DenyAndOpen(r) == Decide(r, "deny", "open")

ApproveWrite(r) == Decide(r, "approve", "open")
DenyWrite(r)    == Decide(r, "deny", "idle")

\* With no conversation there is no socket to close.
RevokeWrite(r)  == Decide(r, "revoke", IF conv THEN "close" ELSE "idle")

\* The second transaction of an approval.  With the pair's conversation already
\* there the unique constraint fails it, which changes nothing.
OpenConversation(r) ==
    /\ task[r] = "open"
    /\ conv' = TRUE
    /\ Becomes(r, "idle")
    /\ UNCHANGED <<row, trail, asked, failures>>

\* close_user has been through every socket it found.
RevokeDone(r) ==
    /\ task[r] = "close"
    /\ Becomes(r, "idle")
    /\ UNCHANGED <<row, trail, asked, conv, failures>>

Fails == failures < MaxFailures /\ failures' = failures + 1

\* The request's next transaction fails: the one before it stands.
RequestFails(r) ==
    /\ task[r] \in Decision \cup {"ask", "open"}
    /\ Fails
    /\ Becomes(r, "idle")
    /\ UNCHANGED <<row, trail, asked, conv>>

\* The process dies between any two transactions; nothing in flight resumes.
Crash ==
    /\ Fails
    /\ task' = [r \in Requests |-> "idle"]
    /\ UNCHANGED <<row, trail, asked, conv>>

----------------------------------------------------------------------------
Step(r) ==
    \/ AskWrite(r)
    \/ AskNotify(r)
    \/ \E d \in Decision : DecideRead(r, d)
    \/ ApproveWrite(r)
    \/ DenyWrite(r)
    \/ RevokeWrite(r)
    \/ OpenConversation(r)
    \/ RevokeDone(r)
    \/ RequestFails(r)

Next == Crash \/ \E r \in Requests : Step(r)

Spec == Init /\ [][Next]_accessVars

\* No decision is written after the status it read has changed.
Current(r) == task[r] \in Decision => row = From[task[r]]

SerialNext == Crash \/ \E r \in Requests : Current(r) /\ Step(r)

SerialSpec == Init /\ [][SerialNext]_accessVars

----------------------------------------------------------------------------
\* Every column and request has its type.
TypeOK ==
    /\ row \in RowStatus
    /\ trail \in Seq(Decision)
    /\ asked \in BOOLEAN
    /\ conv \in BOOLEAN
    /\ task \in [Requests -> Task]
    /\ failures \in 0 .. MaxFailures

Decided == {trail[i] : i \in DOMAIN trail}

\* The row is where the audit trail says it is, whichever decisions raced: with
\* no decision on record it is undecided, else the last one put it there.
TrailExplainsRow ==
    IF trail = <<>> THEN row \in {"none", "requested"} ELSE row = To[trail[Len(trail)]]

\* Only an approval opens a conversation (spec 006 A2).
OnlyApprovalOpens == conv => "approve" \in Decided

\* Each of the two-transaction operations does its second half unless that
\* half failed or the process died in between: an approved buyer has a conversation (spec 006 A1),
\* and the seller has been told of the request (spec 008 C3).
SecondHalfDone ==
    failures = 0 =>
        /\ row = "approved" => conv \/ \E r \in Requests : task[r] = "open"
        /\ row # "none" => asked \/ \E r \in Requests : task[r] = "ask"

\* A request is decided once, and revoked only after that (access.py: denied
\* and revoked are terminal).
DecisionsAreFinal ==
    trail \in {<<>>, <<"approve">>, <<"deny">>, <<"approve", "revoke">>}
=============================================================================
