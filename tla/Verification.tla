---------------------------- MODULE Verification ----------------------------
(***************************************************************************)
(* One buyer's verification (routers/verification.py) and one listing's     *)
(* data room (upload_document, routers/listings.py): the two routes that    *)
(* store an uploaded document, through one quota (uploads.py) and one       *)
(* storage backend (storage.py).                                            *)
(*                                                                          *)
(* An upload is a coroutine.  Its gates have read the buyer or the listing  *)
(* before it starts; it awaits the bytes, and from there to its commit      *)
(* nothing is awaited, so no second upload runs in between.  A decision     *)
(* runs in a thread and may fall anywhere.  Nobody compares and swaps: a    *)
(* write flushes the columns that differ from what was loaded.              *)
(***************************************************************************)
EXTENDS Naturals, Sequences, FiniteSets

CONSTANTS
    Requests,      \* HTTP requests that may be in flight
    Sizes,         \* sizes a document may have
    MaxDocs,       \* settings.max_documents_per_owner
    MaxBytes,      \* settings.max_total_upload_bytes_per_owner
    MaxDecisions,  \* bound: decisions the admins take
    MaxFailures    \* bound: writes that fail and processes lost

ASSUME VerificationAssumption ==
    /\ IsFiniteSet(Requests)
    /\ Sizes \subseteq Nat \ {0}
    /\ {MaxDocs, MaxBytes, MaxDecisions, MaxFailures} \subseteq Nat

VARIABLES
    user,          \* the buyer's verification_status, _reason and _reviewed_at
    locked,        \* the listing's status is in _EDIT_LOCKED
    docs,          \* the document rows of each shelf, oldest first
    files,         \* the keys of the files on disk
    trail,         \* the buyerverificationevent rows, oldest first
    req,           \* the requests between their reads and their writes
    raced,         \* some write was made from a snapshot no longer current
    failures       \* writes that failed and restarts so far

verificationVars == <<user, locked, docs, files, trail, req, raced, failures>>

----------------------------------------------------------------------------
(* The rows. *)

Status == {"unverified", "pending", "verified", "rejected"}

\* A reason and a review stamp are named by the decision they come from: its
\* place in the trail, 0 for NULL.
UserRow == [status: Status, reason: Nat, reviewed: Nat]

\* Whose documents: the buyer's proofs of funds, the listing's data room.
Shelf == {"proof", "room"}

Doc == [key: Nat \ {0}, size: Sizes]

Decision == {"approve", "reject"}

\* Mutant of DecidedStatus: the status is named after the action.
DecidedByName == [approve |-> "approved", reject |-> "rejected"]

DecidedStatus == [approve |-> "verified", reject |-> "rejected"]

\* _UPLOAD_ALLOWED_FROM, _APPROVE_ALLOWED_FROM and _REJECT_ALLOWED_FROM.
\* (Mutant: AllowedToRepeat, a rejected buyer may be rejected again.)
AllowedToRepeat == [proof |-> Status \ {"verified"}, approve |-> {"pending"},
                    reject |-> {"pending", "verified", "rejected"}]
AllowedFrom == [proof |-> Status \ {"verified"}, approve |-> {"pending"},
                reject |-> {"pending", "verified"}]

\* held counts the documents on file when the decision was written.
Event == [action: Decision, from: Status, held: Nat]

\* A request and the snapshot its gates read.  An upload whose bytes are on
\* disk and whose row is not committed yet names the file.
Request == [op: Shelf \cup Decision \cup {"idle"}, user: UserRow,
            locked: BOOLEAN, file: Nat, size: Sizes \cup {0}]

NewBuyer == [status |-> "unverified", reason |-> 0, reviewed |-> 0]

Idle == [op |-> "idle", user |-> NewBuyer, locked |-> FALSE,
         file |-> 0, size |-> 0]

Init ==
    /\ user = NewBuyer
    /\ locked = FALSE
    /\ docs = [s \in Shelf |-> <<>>]
    /\ files = {}
    /\ trail = <<>>
    /\ req = [r \in Requests |-> Idle]
    /\ raced = FALSE
    /\ failures = 0

----------------------------------------------------------------------------
(* Uploads. *)

\* The bytes of the first documents of a shelf, by how many they are.
SizeOfFirst(rows) ==
    LET size[n \in 0 .. Len(rows)] ==
            IF n = 0 THEN 0 ELSE rows[n].size + size[n - 1]
    IN  size

TotalSize(rows) == SizeOfFirst(rows)[Len(rows)]

\* enforce_upload_quota, on the rows as they are.
Fits(shelf, size) ==
    /\ Len(docs[shelf]) + 1 <= MaxDocs
    /\ TotalSize(docs[shelf]) + size <= MaxBytes

NewKey == Cardinality(files) + 1

Storing == {r \in Requests : req[r].file # 0}

\* An upload that has stored its bytes keeps the event loop until it commits.
\* (Mutant: LoopYields, an await between the quota and the commit.)
LoopYields == TRUE
LoopIsFree == Storing = {}

Ends(r) == req' = [req EXCEPT ![r] = Idle]

Reads(r, op) ==
    req' = [req EXCEPT ![r] = IF op = "room" THEN [Idle EXCEPT !.op = op, !.locked = locked]
                              ELSE [Idle EXCEPT !.op = op, !.user = user]]

ProofRead(r) ==
    /\ req[r].op = "idle"
    /\ user.status \in AllowedFrom["proof"]
    /\ Reads(r, "proof")
    /\ UNCHANGED <<user, locked, docs, files, trail, raced, failures>>

RoomRead(r) ==
    /\ req[r].op = "idle"
    /\ ~locked
    /\ Reads(r, "room")
    /\ UNCHANGED <<user, locked, docs, files, trail, raced, failures>>

\* The bytes are read and valid, the quota has room, the file is written.
Store(r, size) ==
    /\ req[r].op \in Shelf
    /\ req[r].file = 0
    /\ LoopIsFree
    /\ Fits(req[r].op, size)
    /\ files' = files \cup {NewKey}
    /\ req' = [req EXCEPT ![r] = [@ EXCEPT !.file = NewKey, !.size = size]]
    /\ UNCHANGED <<user, locked, docs, trail, raced, failures>>

\* A column reaches the row only when it differs from what was loaded.
Flushed(current, loaded, new) == IF new # loaded THEN new ELSE current

FlushedUser(loaded, new) ==
    [c \in {"status", "reason", "reviewed"} |-> Flushed(user[c], loaded[c], new[c])]

\* Mutant of Queued: the old decision's reason stays.
QueuedWithReason(loaded) == [loaded EXCEPT !.status = "pending"]

\* What a submission sets on the buyer it loaded.
Queued(loaded) ==
    IF loaded.status = "pending" THEN loaded
    ELSE [status |-> "pending", reason |-> 0, reviewed |-> 0]

AddRow(r) ==
    docs' = [docs EXCEPT ![req[r].op] =
                Append(@, [key |-> req[r].file, size |-> req[r].size])]

ProofCommit(r) ==
    /\ r \in Storing
    /\ req[r].op = "proof"
    /\ AddRow(r)
    /\ user' = FlushedUser(req[r].user, Queued(req[r].user))
    /\ raced' = (raced \/ req[r].user # user)
    /\ Ends(r)
    /\ UNCHANGED <<locked, files, trail, failures>>

RoomCommit(r) ==
    /\ r \in Storing
    /\ req[r].op = "room"
    /\ AddRow(r)
    /\ raced' = (raced \/ req[r].locked # locked)
    /\ Ends(r)
    /\ UNCHANGED <<user, locked, files, trail, failures>>

----------------------------------------------------------------------------
(* Decisions, and the end of the listing. *)

DecideRead(r, d) ==
    /\ req[r].op = "idle"
    /\ user.status \in AllowedFrom[d]
    /\ Reads(r, d)
    /\ UNCHANGED <<user, locked, docs, files, trail, raced, failures>>

Decided(loaded, d) ==
    [status   |-> DecidedStatus[d],
     reason   |-> IF d = "reject" THEN Len(trail) + 1 ELSE 0,
     reviewed |-> Len(trail) + 1]

\* Mutant of Audited: an approval leaves no event.
AuditedRejection(loaded, d) ==
    IF d = "approve" THEN trail
    ELSE Append(trail, [action |-> d, from |-> loaded.status, held |-> Len(docs["proof"])])

Audited(loaded, d) ==
    Append(trail, [action |-> d, from |-> loaded.status, held |-> Len(docs["proof"])])

\* The status, its reason and stamp and the event commit together.
DecideWrite(r) ==
    LET loaded == req[r].user
        d      == req[r].op
    IN  /\ d \in Decision
        /\ Len(trail) < MaxDecisions
        /\ user' = FlushedUser(loaded, Decided(loaded, d))
        /\ trail' = Audited(loaded, d)
        /\ raced' = (raced \/ loaded # user)
        /\ Ends(r)
        /\ UNCHANGED <<locked, docs, files, failures>>

\* mark_listing_sold and close_listing: the listing is terminal.
Lock ==
    /\ ~locked
    /\ locked' = TRUE
    /\ UNCHANGED <<user, docs, files, trail, req, raced, failures>>

----------------------------------------------------------------------------
(* Refusals and failures. *)

\* Mutant of RequestEnds: the bytes are stored before the quota is asked.
StoredThenRefused(r) ==
    /\ req[r].op # "idle"
    /\ req[r].file = 0
    /\ files' = IF req[r].op \in Shelf THEN files \cup {NewKey} ELSE files
    /\ Ends(r)
    /\ UNCHANGED <<user, locked, docs, trail, raced, failures>>

\* The bytes are not valid, the quota is full, or the client is gone.
RequestEnds(r) ==
    /\ req[r].op # "idle"
    /\ req[r].file = 0
    /\ Ends(r)
    /\ UNCHANGED <<user, locked, docs, files, trail, raced, failures>>

Fails == failures < MaxFailures /\ failures' = failures + 1

\* The write to disk fails, part of it done.
StoreFails(r) ==
    /\ req[r].op \in Shelf
    /\ req[r].file = 0
    /\ LoopIsFree
    /\ Fails
    /\ files' = files \cup {NewKey}
    /\ Ends(r)
    /\ UNCHANGED <<user, locked, docs, trail, raced>>

\* The row cannot be committed: its file stays behind.
CommitFails(r) ==
    /\ r \in Storing
    /\ Fails
    /\ Ends(r)
    /\ UNCHANGED <<user, locked, docs, files, trail, raced>>

Crash ==
    /\ Fails
    /\ req' = [r \in Requests |-> Idle]
    /\ UNCHANGED <<user, locked, docs, files, trail, raced>>

----------------------------------------------------------------------------
Step(r) ==
    \/ ProofRead(r)
    \/ RoomRead(r)
    \/ \E size \in Sizes : Store(r, size)
    \/ ProofCommit(r)
    \/ RoomCommit(r)
    \/ \E d \in Decision : DecideRead(r, d)
    \/ DecideWrite(r)
    \/ RequestEnds(r)
    \/ StoreFails(r)
    \/ CommitFails(r)

Next == Lock \/ Crash \/ \E r \in Requests : Step(r)

Spec == Init /\ [][Next]_verificationVars

\* The schedules in which no write is made from a read that others have
\* overtaken: all there are if submission and decision compare the status.
SerialSpec == Init /\ [][Next /\ ~raced']_verificationVars

----------------------------------------------------------------------------
(* Properties. *)

\* Every column, file and request has its type.
TypeOK ==
    /\ user \in UserRow
    /\ locked \in BOOLEAN
    /\ docs \in [Shelf -> Seq(Doc)]
    /\ files \subseteq Nat
    /\ trail \in Seq(Event)
    /\ req \in [Requests -> Request]
    /\ raced \in BOOLEAN
    /\ failures \in 0 .. MaxFailures

Rows == {row \in Shelf \X (1 .. MaxDocs) : row[2] \in DOMAIN docs[row[1]]}

KeyOf(row) == docs[row[1]][row[2]].key

\* Whatever races, the status is one somebody put there: a verified buyer was
\* approved last, a rejected one rejected last, a queued one has a document to
\* review and an unverified one has never submitted (verification.py, D1).
StatusExplained ==
    CASE user.status = "unverified" -> docs["proof"] = <<>> /\ trail = <<>>
      [] user.status = "pending"    -> docs["proof"] # <<>>
      [] user.status = "verified"   -> trail # <<>> /\ trail[Len(trail)].action = "approve"
      [] user.status = "rejected"   -> trail # <<>> /\ trail[Len(trail)].action = "reject"

\* Rows and files agree: each row has a file of its own, and a file without a
\* row belongs to an upload about to commit or to a failure; a refused upload
\* leaves nothing on disk (enforce_upload_quota).
RowsHaveFiles ==
    /\ \A x \in Rows : KeyOf(x) \in files
    /\ \A x, y \in Rows : KeyOf(x) = KeyOf(y) => x = y
    /\ Cardinality(files) <= Cardinality(Rows) + Cardinality(Storing) + failures

\* No owner keeps more than the quota, however many uploads are in flight in the
\* one process that runs them: the count and the insert have no await between
\* them.  docs/security.md:226 and uploads.py:47-50 call this a race: it is one
\* between processes.
WithinQuota ==
    \A s \in Shelf : Len(docs[s]) <= MaxDocs /\ TotalSize(docs[s]) <= MaxBytes

\* A buyer is shown a reason exactly while rejected, and a review date exactly
\* while the last decision stands, both of that decision
\* (submit_verification_document, _decide).
ReasonIsCurrent ==
    ~raced =>
        /\ user.reason = IF user.status = "rejected" THEN Len(trail) ELSE 0
        /\ user.reviewed = IF user.status \in {"verified", "rejected"} THEN Len(trail) ELSE 0

\* As long as no write is made from a stale read, each decision follows on the
\* one before it: only an approval is revoked, and a rejected buyer is decided
\* on again only with a new document; and the decision that stands has covered
\* every document on file (BuyerVerificationEvent, X3 and X4).
DecisionsChain ==
    ~raced =>
        /\ \A i \in DOMAIN trail :
               IF i > 1 /\ trail[i - 1].action = "approve"
               THEN trail[i].from = "verified"
               ELSE /\ trail[i].from = "pending"
                    /\ i > 1 => trail[i].held > trail[i - 1].held
        /\ user.status \in {"verified", "rejected"} =>
               trail[Len(trail)].held = Len(docs["proof"])

----------------------------------------------------------------------------
(* What the listing's seller may rely on: in serial schedules the account and *)
(* its documents implement ReviewContract.                                    *)

Covered == IF trail = <<>> THEN 0 ELSE trail[Len(trail)].held

Review == INSTANCE ReviewContract
              WITH standing <- user.status, unseen <- Len(docs["proof"]) - Covered

KeepsReview == Review!Spec
=============================================================================
