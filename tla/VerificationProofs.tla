------------------------- MODULE VerificationProofs -------------------------
(***************************************************************************)
(* What holds of a buyer's verification and of a data room for any number   *)
(* of requests in flight, of decisions and of failures, and any quota.      *)
(***************************************************************************)
EXTENDS Verification, Induction, FiniteSetTheorems, SequenceTheorems, TLAPS

\* Keys are given out in order, so that a new file overwrites none.
KeysInOrder == IsFiniteSet(files) /\ files = 1 .. Cardinality(files)

\* Who has stored bytes is an upload.
StoringUploads == \A r \in Storing : req[r].op \in Shelf /\ req[r].size \in Sizes

\* What a request read of the buyer let it through.
GatesPassed ==
    \A r \in Requests :
        req[r].op \in {"proof"} \cup Decision =>
            req[r].user.status \in AllowedFrom[req[r].op]

\* Nobody is unverified again: who is has never been read otherwise.
UnverifiedOnce ==
    user.status = "unverified" => \A r \in Requests : req[r].user.status = "unverified"

Inv ==
    /\ TypeOK
    /\ KeysInOrder
    /\ StoringUploads
    /\ GatesPassed
    /\ UnverifiedOnce
    /\ StatusExplained

----------------------------------------------------------------------------
(* Types. *)

LEMMA NewKeyFresh ==
    ASSUME KeysInOrder
    PROVE  /\ NewKey \in Nat \ {0}
           /\ NewKey \notin files
           /\ IsFiniteSet(files \cup {NewKey})
           /\ Cardinality(files \cup {NewKey}) = NewKey
           /\ files \cup {NewKey} = 1 .. NewKey
<1>1. Cardinality(files) \in Nat
  BY FS_CardinalityType DEF KeysInOrder
<1>2. NewKey \in Nat \ {0} /\ NewKey \notin files /\ files \cup {NewKey} = 1 .. NewKey
  BY <1>1, SMT DEF KeysInOrder, NewKey
<1>3. /\ IsFiniteSet(files \cup {NewKey})
      /\ Cardinality(files \cup {NewKey}) = Cardinality(files) + 1
  BY <1>2, FS_AddElement DEF KeysInOrder
<1> QED BY <1>1, <1>2, <1>3 DEF NewKey

LEMMA FlushedType ==
    ASSUME user \in UserRow, NEW loaded \in UserRow, NEW new \in UserRow
    PROVE  FlushedUser(loaded, new) \in UserRow
BY DEF UserRow, FlushedUser, Flushed

LEMMA QueuedType ==
    ASSUME NEW loaded \in UserRow
    PROVE  Queued(loaded) \in UserRow
BY DEF UserRow, Queued, Status

LEMMA DecidedType ==
    ASSUME trail \in Seq(Event), NEW loaded, NEW d \in Decision
    PROVE  Decided(loaded, d) \in UserRow
BY LenProperties DEF UserRow, Decided, DecidedStatus, Status, Decision

LEMMA IdleType == Idle \in Request
BY DEF Idle, Request, NewBuyer, UserRow, Status

LEMMA InitInv == Init => Inv
<1> SUFFICES ASSUME Init PROVE Inv
  OBVIOUS
<1>1. TypeOK
  <2>1. <<>> \in Seq(Doc) /\ <<>> \in Seq(Event)
    BY EmptySeq
  <2>2. user \in UserRow
    BY DEF Init, NewBuyer, UserRow, Status
  <2>3. failures \in 0 .. MaxFailures
    BY VerificationAssumption, SMT DEF Init
  <2>4. docs \in [Shelf -> Seq(Doc)]
    BY <2>1 DEF Init
  <2>5. req \in [Requests -> Request]
    BY IdleType DEF Init
  <2> QED BY <2>1, <2>2, <2>3, <2>4, <2>5 DEF Init, TypeOK
<1>2. KeysInOrder
  BY FS_EmptySet, SMT DEF Init, KeysInOrder
<1>3. StoringUploads /\ GatesPassed /\ UnverifiedOnce
  BY DEF Init, StoringUploads, Storing, GatesPassed, UnverifiedOnce, Idle, NewBuyer, Decision
<1>4. StatusExplained
  BY DEF Init, StatusExplained, NewBuyer, Shelf
<1> QED BY <1>1, <1>2, <1>3, <1>4 DEF Inv

\* Every step keeps every type, and gives out its key in order.
LEMMA TypeStep ==
    ASSUME TypeOK, KeysInOrder, StoringUploads, [Next]_verificationVars
    PROVE  TypeOK' /\ KeysInOrder'
<1> USE DEF TypeOK
<1>1. CASE UNCHANGED verificationVars
  BY <1>1 DEF verificationVars, KeysInOrder
<1>2. CASE Lock
  BY <1>2 DEF Lock, KeysInOrder
<1>3. ASSUME Fails PROVE failures' \in 0 .. MaxFailures
  BY <1>3, VerificationAssumption, SMT DEF Fails
<1>4. CASE Crash
  BY <1>3, <1>4, IdleType DEF Crash, KeysInOrder
<1>5. ASSUME NEW r \in Requests, Step(r) PROVE TypeOK' /\ KeysInOrder'
  <2>1. ASSUME NEW op \in {"proof", "room"} \cup Decision, Reads(r, op)
        PROVE  req' \in [Requests -> Request]
    <3>1. [Idle EXCEPT !.op = op, !.locked = locked] \in Request
      BY DEF Idle, Request, NewBuyer, UserRow, Status, Shelf
    <3>2. [Idle EXCEPT !.op = op, !.user = user] \in Request
      BY DEF Idle, Request, NewBuyer, UserRow, Status, Shelf
    <3> QED BY <2>1, <3>1, <3>2 DEF Reads
  <2>2. ASSUME Ends(r) PROVE req' \in [Requests -> Request]
    BY <2>2, IdleType DEF Ends
  <2>3. ASSUME files' = files \cup {NewKey} PROVE files' \subseteq Nat /\ KeysInOrder'
    BY <2>3, NewKeyFresh DEF KeysInOrder
  <2>4. ASSUME UNCHANGED files PROVE files' \subseteq Nat /\ KeysInOrder'
    BY <2>4 DEF KeysInOrder
  <2>5. ASSUME r \in Storing, AddRow(r) PROVE docs' \in [Shelf -> Seq(Doc)]
    <3>1. /\ req[r].op \in Shelf
          /\ req[r].file \in Nat \ {0}
          /\ req[r].size \in Sizes
      BY <2>5 DEF StoringUploads, Storing, Request
    <3>2. [key |-> req[r].file, size |-> req[r].size] \in Doc
      BY <3>1 DEF Doc
    <3>3. Append(docs[req[r].op], [key |-> req[r].file, size |-> req[r].size]) \in Seq(Doc)
      BY <3>1, <3>2, AppendProperties
    <3> QED BY <2>5, <3>3 DEF AddRow
  <2>6. CASE ProofRead(r)
    BY <2>1, <2>4, <2>6 DEF ProofRead
  <2>7. CASE RoomRead(r)
    BY <2>1, <2>4, <2>7 DEF RoomRead
  <2>8. ASSUME NEW d \in Decision, DecideRead(r, d) PROVE TypeOK' /\ KeysInOrder'
    BY <2>1, <2>4, <2>8 DEF DecideRead
  <2>9. ASSUME NEW size \in Sizes, Store(r, size) PROVE TypeOK' /\ KeysInOrder'
    <3>1. NewKey \in Nat
      BY NewKeyFresh
    <3>2. [req[r] EXCEPT !.file = NewKey, !.size = size] \in Request
      BY <3>1 DEF Request
    <3>3. req' \in [Requests -> Request]
      BY <2>9, <3>2 DEF Store
    <3> QED BY <2>3, <2>9, <3>3 DEF Store
  <2>10. CASE ProofCommit(r)
    <3>1. req[r].user \in UserRow
      BY DEF Request
    <3>2. user' \in UserRow
      BY <2>10, <3>1, QueuedType, FlushedType DEF ProofCommit
    <3>3. raced' \in BOOLEAN
      BY <2>10 DEF ProofCommit
    <3> QED BY <2>2, <2>4, <2>5, <2>10, <3>2, <3>3 DEF ProofCommit
  <2>11. CASE RoomCommit(r)
    <3>1. raced' \in BOOLEAN
      BY <2>11 DEF RoomCommit
    <3> QED BY <2>2, <2>4, <2>5, <2>11, <3>1 DEF RoomCommit
  <2>12. CASE DecideWrite(r)
    <3>1. req[r].user \in UserRow /\ req[r].op \in Decision
      BY <2>12 DEF Request, DecideWrite
    <3>2. user' \in UserRow
      BY <2>12, <3>1, DecidedType, FlushedType DEF DecideWrite
    <3>3. [action |-> req[r].op, from |-> req[r].user.status, held |-> Len(docs["proof"])]
              \in Event
      BY <3>1, LenProperties DEF Event, UserRow, Shelf
    <3>4. trail' \in Seq(Event)
      BY <2>12, <3>3, AppendProperties DEF DecideWrite, Audited
    <3>5. raced' \in BOOLEAN
      BY <2>12 DEF DecideWrite
    <3> QED BY <2>2, <2>4, <2>12, <3>2, <3>4, <3>5 DEF DecideWrite
  <2>13. CASE RequestEnds(r)
    BY <2>2, <2>4, <2>13 DEF RequestEnds
  <2>14. CASE StoreFails(r)
    BY <1>3, <2>2, <2>3, <2>14 DEF StoreFails
  <2>15. CASE CommitFails(r)
    BY <1>3, <2>2, <2>4, <2>15 DEF CommitFails
  <2> QED BY <1>5, <2>6, <2>7, <2>8, <2>9, <2>10, <2>11, <2>12, <2>13, <2>14, <2>15 DEF Step
<1> QED BY <1>1, <1>2, <1>4, <1>5 DEF Next

----------------------------------------------------------------------------
(* The status. *)

\* Lemmas about one write.
LEMMA FlushedProof ==
    ASSUME user \in UserRow, NEW loaded \in UserRow
    PROVE  FlushedUser(loaded, Queued(loaded)).status =
               IF loaded.status = "pending" THEN user.status ELSE "pending"
BY DEF UserRow, FlushedUser, Flushed, Queued

LEMMA FlushedDecision ==
    ASSUME user \in UserRow, NEW loaded \in UserRow, NEW d \in Decision,
           loaded.status \in AllowedFrom[d]
    PROVE  FlushedUser(loaded, Decided(loaded, d)).status = DecidedStatus[d]
BY DEF UserRow, FlushedUser, Flushed, Decided, DecidedStatus, AllowedFrom, Decision

\* A sequence that was appended to has a last element, the one appended.
LEMMA AppendLast ==
    ASSUME NEW S, NEW seq \in Seq(S), NEW e \in S
    PROVE  /\ Append(seq, e) # <<>>
           /\ Append(seq, e)[Len(Append(seq, e))] = e
<1>1. /\ Len(Append(seq, e)) = Len(seq) + 1
      /\ Append(seq, e)[Len(seq) + 1] = e
      /\ Len(seq) \in Nat
  BY AppendProperties, LenProperties
<1>2. Append(seq, e) # <<>>
  BY <1>1, EmptySeq
<1> QED BY <1>1, <1>2

\* A row that is committed is the last of its shelf, and of no other.
LEMMA RowAdded ==
    ASSUME TypeOK, StoringUploads, NEW r \in Storing, AddRow(r)
    PROVE  LET shelf == req[r].op
               row   == [key |-> req[r].file, size |-> req[r].size]
           IN  /\ shelf \in Shelf
               /\ row \in Doc
               /\ docs'[shelf] = Append(docs[shelf], row)
               /\ docs'[shelf] # <<>>
               /\ \A s \in Shelf \ {shelf} : docs'[s] = docs[s]
<1>1. /\ r \in Requests
      /\ req[r].op \in Shelf
      /\ req[r].file \in Nat \ {0}
      /\ req[r].size \in Sizes
  BY DEF StoringUploads, Storing, Request, TypeOK
<1>2. [key |-> req[r].file, size |-> req[r].size] \in Doc
  BY <1>1 DEF Doc
<1>3. docs'[req[r].op] = Append(docs[req[r].op], [key |-> req[r].file, size |-> req[r].size])
  BY <1>1 DEF AddRow, TypeOK
<1>4. docs'[req[r].op] # <<>>
  <2>1. docs[req[r].op] \in Seq(Doc)
    BY <1>1 DEF TypeOK
  <2> QED BY <1>2, <1>3, <2>1, AppendLast
<1>5. \A s \in Shelf \ {req[r].op} : docs'[s] = docs[s]
  BY <1>1 DEF AddRow, TypeOK
<1> QED BY <1>1, <1>2, <1>3, <1>4, <1>5

\* A decision is the last of the trail.
LEMMA TrailAppended ==
    ASSUME TypeOK, NEW r \in Requests, DecideWrite(r)
    PROVE  LET event == [action |-> req[r].op, from |-> req[r].user.status,
                         held |-> Len(docs["proof"])]
           IN  /\ req[r].op \in Decision
               /\ event \in Event
               /\ trail' \in Seq(Event)
               /\ Len(trail') = Len(trail) + 1
               /\ trail'[Len(trail) + 1] = event
               /\ \A i \in 1 .. Len(trail) : trail'[i] = trail[i]
<1> DEFINE event == [action |-> req[r].op, from |-> req[r].user.status,
                     held |-> Len(docs["proof"])]
<1>1. req[r].op \in Decision /\ req[r].user \in UserRow
  BY DEF DecideWrite, TypeOK, Request
<1>2. event \in Event
  BY <1>1, LenProperties DEF Event, UserRow, TypeOK, Shelf
<1>3. trail' = Append(trail, event)
  BY DEF DecideWrite, Audited
<1>4. trail \in Seq(Event)
  BY DEF TypeOK
<1> QED BY <1>1, <1>2, <1>3, <1>4, AppendProperties

\* Every step keeps what its requests have read, and the status explained.
LEMMA StatusStep ==
    ASSUME TypeOK, StoringUploads, GatesPassed, UnverifiedOnce, StatusExplained,
           [Next]_verificationVars
    PROVE  StoringUploads' /\ GatesPassed' /\ UnverifiedOnce' /\ StatusExplained'
<1> DEFINE Kept == StoringUploads' /\ GatesPassed' /\ UnverifiedOnce' /\ StatusExplained'
           Same == UNCHANGED <<user, docs, trail>>
<1> USE DEF TypeOK
<1>1. CASE UNCHANGED verificationVars \/ Lock
  BY <1>1 DEF verificationVars, Lock, StoringUploads, Storing, GatesPassed,
     UnverifiedOnce, StatusExplained
<1>2. ASSUME Same PROVE StatusExplained'
  BY <1>2 DEF StatusExplained
<1>3. CASE Crash
  <2>1. StoringUploads' /\ GatesPassed' /\ UnverifiedOnce'
    BY <1>3 DEF Crash, Fails, StoringUploads, Storing, GatesPassed, UnverifiedOnce, Idle,
       NewBuyer, Decision
  <2> QED BY <1>2, <1>3, <2>1 DEF Crash
<1>4. ASSUME NEW r \in Requests, Step(r) PROVE Kept
  <2>1. ASSUME NEW op \in {"proof"} \cup Decision, user.status \in AllowedFrom[op],
               Reads(r, op), Same
        PROVE  Kept
    <3>1. req' = [req EXCEPT ![r] = [Idle EXCEPT !.op = op, !.user = user]]
      BY <2>1 DEF Reads, Decision
    <3>2. /\ req'[r].op = op /\ req'[r].user = user /\ req'[r].file = 0
          /\ \A q \in Requests \ {r} : req'[q] = req[q]
      BY <3>1 DEF Idle
    <3>3. StoringUploads'
      BY <3>2 DEF StoringUploads, Storing
    <3>4. GatesPassed'
      BY <2>1, <3>2 DEF GatesPassed
    <3>5. UnverifiedOnce'
      BY <2>1, <3>2 DEF UnverifiedOnce
    <3> QED BY <1>2, <2>1, <3>3, <3>4, <3>5
  <2>2. ASSUME Ends(r)
        PROVE  StoringUploads' /\ GatesPassed' /\ (user'.status = user.status => UnverifiedOnce')
    <3>1. /\ req'[r] = Idle
          /\ \A q \in Requests \ {r} : req'[q] = req[q]
      BY <2>2 DEF Ends
    <3>2. req'[r].op = "idle" /\ req'[r].user.status = "unverified" /\ req'[r].file = 0
      BY <3>1 DEF Idle, NewBuyer
    <3>3. StoringUploads'
      BY <3>1, <3>2 DEF StoringUploads, Storing
    <3>4. GatesPassed'
      BY <3>1, <3>2 DEF GatesPassed, Decision
    <3>5. user'.status = user.status => UnverifiedOnce'
      BY <3>1, <3>2 DEF UnverifiedOnce
    <3> QED BY <3>3, <3>4, <3>5
  <2>3. CASE ProofRead(r)
    BY <2>1, <2>3 DEF ProofRead
  <2>4. CASE RoomRead(r)
    <3>1. req' = [req EXCEPT ![r] = [Idle EXCEPT !.op = "room", !.locked = locked]]
      BY <2>4 DEF RoomRead, Reads
    <3>2. /\ req'[r].op = "room" /\ req'[r].user.status = "unverified" /\ req'[r].file = 0
          /\ \A q \in Requests \ {r} : req'[q] = req[q]
      BY <3>1 DEF Idle, NewBuyer
    <3>3. StoringUploads'
      BY <3>2 DEF StoringUploads, Storing
    <3>4. GatesPassed'
      BY <3>2 DEF GatesPassed, Decision
    <3>5. UnverifiedOnce'
      BY <2>4, <3>2 DEF RoomRead, UnverifiedOnce
    <3> QED BY <1>2, <2>4, <3>3, <3>4, <3>5 DEF RoomRead
  <2>5. ASSUME NEW d \in Decision, DecideRead(r, d) PROVE Kept
    BY <2>1, <2>5 DEF DecideRead
  <2>6. ASSUME NEW size \in Sizes, Store(r, size) PROVE Kept
    <3>1. /\ req'[r].op = req[r].op /\ req'[r].user = req[r].user
          /\ req'[r].size = size
          /\ \A q \in Requests \ {r} : req'[q] = req[q]
      BY <2>6 DEF Store, Request
    <3>2. StoringUploads' /\ GatesPassed' /\ UnverifiedOnce'
      BY <2>6, <3>1 DEF Store, StoringUploads, Storing, GatesPassed, UnverifiedOnce
    <3> QED BY <1>2, <2>6, <3>2 DEF Store
  <2>7. CASE ProofCommit(r)
    <3> DEFINE loaded == req[r].user
    <3>1. /\ loaded \in UserRow
          /\ user' = FlushedUser(loaded, Queued(loaded))
          /\ r \in Storing /\ req[r].op = "proof" /\ AddRow(r) /\ Ends(r)
          /\ UNCHANGED trail
      BY <2>7 DEF ProofCommit, Request
    <3>2. user'.status = IF loaded.status = "pending" THEN user.status ELSE "pending"
      BY <3>1, FlushedProof
    <3>3. docs'["proof"] # <<>>
      BY <3>1, RowAdded
    <3>4. loaded.status = "pending" => user.status # "unverified"
      BY DEF UnverifiedOnce
    <3>5. user'.status # "unverified"
      BY <3>2, <3>4
    <3>6. StatusExplained'
      BY <3>1, <3>2, <3>3, <3>5 DEF StatusExplained, UserRow, Status
    <3>7. UnverifiedOnce'
      BY <3>5 DEF UnverifiedOnce
    <3> QED BY <2>2, <3>1, <3>6, <3>7
  <2>8. CASE RoomCommit(r)
    <3>1. docs'["proof"] = docs["proof"]
      BY <2>8, RowAdded DEF RoomCommit, Shelf
    <3>2. StatusExplained'
      BY <2>8, <3>1 DEF RoomCommit, StatusExplained
    <3> QED BY <2>2, <2>8, <3>2 DEF RoomCommit
  <2>9. CASE DecideWrite(r)
    <3> DEFINE d == req[r].op
    <3>1. d \in Decision /\ req[r].user \in UserRow /\ req[r].user.status \in AllowedFrom[d]
      BY <2>9 DEF DecideWrite, Request, GatesPassed
    <3>2. user'.status = DecidedStatus[d]
      BY <2>9, <3>1, FlushedDecision DEF DecideWrite
    <3> DEFINE event == [action |-> d, from |-> req[r].user.status, held |-> Len(docs["proof"])]
    <3>3. event \in Event /\ trail' = Append(trail, event)
      BY <2>9, TrailAppended DEF DecideWrite, Audited
    <3>4. trail' # <<>> /\ trail'[Len(trail')] = event
      BY <3>3, AppendLast
    <3>5. trail'[Len(trail')].action = d
      BY <3>4
    <3>6. \/ d = "approve" /\ user'.status = "verified"
          \/ d = "reject" /\ user'.status = "rejected"
      BY <3>1, <3>2 DEF DecidedStatus, Decision
    <3>7. StatusExplained'
      BY <3>4, <3>5, <3>6 DEF StatusExplained
    <3>8. UnverifiedOnce'
      BY <3>6 DEF UnverifiedOnce
    <3> QED BY <2>2, <2>9, <3>7, <3>8 DEF DecideWrite
  <2>10. CASE RequestEnds(r) \/ StoreFails(r) \/ CommitFails(r)
    BY <1>2, <2>2, <2>10 DEF RequestEnds, StoreFails, CommitFails
  <2> QED BY <1>4, <2>3, <2>4, <2>5, <2>6, <2>7, <2>8, <2>9, <2>10 DEF Step
<1> QED BY <1>1, <1>3, <1>4 DEF Next

LEMMA StepInv == Inv /\ [Next]_verificationVars => Inv'
BY TypeStep, StatusStep DEF Inv

LEMMA InvHolds == Spec => []Inv
BY InitInv, StepInv, PTL DEF Spec

\* The status, the rows, the files and the trail have their types.
THEOREM TypeCorrect == Spec => []TypeOK
BY InvHolds, PTL DEF Inv

\* Whatever races, a verified buyer was approved last, a rejected one rejected
\* last, a queued one has a document and an unverified one never submitted.
THEOREM StatusIsExplained == Spec => []StatusExplained
BY InvHolds, PTL DEF Inv

----------------------------------------------------------------------------
(* The reason and the trail, as long as no write is made from a stale read. *)

\* A queued buyer who was decided on before was rejected, on fewer documents.
QueuedOnMore ==
    ~raced =>
        (user.status = "pending" /\ trail # <<>> =>
            /\ trail[Len(trail)].action = "reject"
            /\ trail[Len(trail)].held < Len(docs["proof"]))

Current == ReasonIsCurrent /\ QueuedOnMore /\ DecisionsChain

LEMMA InitCurrent == Init => Current
BY EmptySeq, SMT DEF Init, Current, ReasonIsCurrent, QueuedOnMore, DecisionsChain, NewBuyer, Shelf

\* A current write sets what it says.
LEMMA FlushedCurrent ==
    ASSUME user \in UserRow, NEW new \in UserRow
    PROVE  /\ FlushedUser(user, new).status = new.status
           /\ FlushedUser(user, new).reason = new.reason
           /\ FlushedUser(user, new).reviewed = new.reviewed
BY DEF UserRow, FlushedUser, Flushed

\* A submission: the reason and the date go, and there is one document more.
LEMMA CurrentProof ==
    ASSUME Inv, Current, NEW r \in Requests, ProofCommit(r), ~raced'
    PROVE  Current'
<1>1. /\ ~raced /\ req[r].user = user
      /\ user \in UserRow
      /\ user' = FlushedUser(user, Queued(user))
      /\ r \in Storing /\ req[r].op = "proof" /\ AddRow(r)
      /\ UNCHANGED trail
  BY DEF ProofCommit, Inv, TypeOK
<1>2. Queued(user) \in UserRow
  BY <1>1, QueuedType
<1>3. /\ user'.status = Queued(user).status
      /\ user'.reason = Queued(user).reason
      /\ user'.reviewed = Queued(user).reviewed
  BY <1>1, <1>2, FlushedCurrent
<1>4. user'.status = "pending" /\ user'.reason = 0 /\ user'.reviewed = 0
  BY <1>1, <1>3 DEF Queued, Current, ReasonIsCurrent
<1>5. ReasonIsCurrent'
  BY <1>4 DEF ReasonIsCurrent
<1>6. DecisionsChain'
  BY <1>1, <1>4 DEF Current, DecisionsChain
<1>7. Len(docs["proof"]) \in Nat /\ Len(docs'["proof"]) = Len(docs["proof"]) + 1
  <2>1. docs["proof"] \in Seq(Doc)
    BY DEF Inv, TypeOK, Shelf
  <2> DEFINE row == [key |-> req[r].file, size |-> req[r].size]
  <2>2. row \in Doc /\ docs'["proof"] = Append(docs["proof"], row)
    BY <1>1, RowAdded DEF Inv
  <2> QED BY <2>1, <2>2, AppendProperties, LenProperties
<1>8. user.status \in {"unverified", "pending", "rejected"}
  BY <1>1 DEF Inv, GatesPassed, AllowedFrom, Status, Decision
<1>9. QueuedOnMore'
  <2>1. CASE trail = <<>>
    BY <1>1, <2>1 DEF QueuedOnMore
  <2>2. CASE trail # <<>> /\ user.status = "pending"
    <3>1. trail[Len(trail)].action = "reject" /\ trail[Len(trail)].held < Len(docs["proof"])
      BY <1>1, <2>2 DEF Current, QueuedOnMore
    <3>2. trail[Len(trail)].held \in Nat
      <4>1. trail \in Seq(Event)
        BY DEF Inv, TypeOK
      <4>2. Len(trail) \in 1 .. Len(trail)
        BY <2>2, <4>1, LenProperties, EmptySeq
      <4>3. trail[Len(trail)] \in Event
        BY <4>1, <4>2, ElementOfSeq
      <4> QED BY <4>3 DEF Event
    <3> QED BY <1>1, <1>7, <3>1, <3>2, SMT DEF QueuedOnMore
  <2>3. CASE trail # <<>> /\ user.status = "rejected"
    <3>1. trail[Len(trail)].action = "reject"
      BY <2>3 DEF Inv, StatusExplained
    <3>2. trail[Len(trail)].held = Len(docs["proof"])
      BY <1>1, <2>3 DEF Current, DecisionsChain
    <3> QED BY <1>1, <1>7, <3>1, <3>2, SMT DEF QueuedOnMore
  <2>4. CASE user.status = "unverified"
    BY <1>1, <2>1, <2>4 DEF Inv, StatusExplained
  <2> QED BY <1>8, <2>1, <2>2, <2>3, <2>4
<1> QED BY <1>5, <1>6, <1>9 DEF Current

\* A decision: the reason and the date are its own, and it follows on the last.
LEMMA CurrentDecision ==
    ASSUME Inv, Current, NEW r \in Requests, DecideWrite(r), ~raced'
    PROVE  Current'
<1> DEFINE d == req[r].op
           n == Len(trail)
           event == [action |-> d, from |-> user.status, held |-> Len(docs["proof"])]
<1>1. /\ ~raced /\ req[r].user = user
      /\ user \in UserRow
      /\ d \in Decision
      /\ user.status \in AllowedFrom[d]
      /\ user' = FlushedUser(user, Decided(user, d))
      /\ UNCHANGED docs
  BY DEF DecideWrite, Inv, TypeOK, GatesPassed
<1>2. /\ trail \in Seq(Event) /\ n \in Nat
      /\ event \in Event
      /\ trail' \in Seq(Event)
      /\ Len(trail') = n + 1
      /\ trail'[n + 1] = event
      /\ \A i \in 1 .. n : trail'[i] = trail[i]
  BY <1>1, TrailAppended, LenProperties DEF Inv, TypeOK
<1>3. Decided(user, d) \in UserRow
  BY <1>1, <1>2, DecidedType
<1>4. /\ user'.status = DecidedStatus[d]
      /\ user'.reason = IF d = "reject" THEN n + 1 ELSE 0
      /\ user'.reviewed = n + 1
  BY <1>1, <1>3, FlushedCurrent DEF Decided
<1>5. \/ d = "approve" /\ user'.status = "verified"
      \/ d = "reject" /\ user'.status = "rejected"
  BY <1>1, <1>4 DEF DecidedStatus, Decision
<1>6. ReasonIsCurrent'
  BY <1>2, <1>4, <1>5 DEF ReasonIsCurrent
<1>7. QueuedOnMore'
  BY <1>5 DEF QueuedOnMore
<1>8. \/ user.status = "pending"
      \/ user.status = "verified" /\ d = "reject"
  BY <1>1 DEF AllowedFrom, Decision
<1>9. user.status = "verified" => trail # <<>> /\ trail[n].action = "approve"
  BY DEF Inv, StatusExplained
<1>10. user.status = "pending" /\ trail # <<>> =>
          trail[n].action = "reject" /\ trail[n].held < Len(docs["proof"])
  BY <1>1 DEF Current, QueuedOnMore
<1>11. DOMAIN trail = 1 .. n /\ DOMAIN trail' = 1 .. n + 1 /\ (n > 0 => trail # <<>>)
  BY <1>2, LenProperties, EmptySeq
<1>12. ASSUME NEW i \in DOMAIN trail'
       PROVE  IF i > 1 /\ trail'[i - 1].action = "approve"
              THEN trail'[i].from = "verified"
              ELSE /\ trail'[i].from = "pending"
                   /\ i > 1 => trail'[i].held > trail'[i - 1].held
  <2>1. CASE i \in 1 .. n
    <3>1. i \in DOMAIN trail /\ trail'[i] = trail[i]
      BY <1>2, <1>11, <2>1
    <3>2. i > 1 => i - 1 \in 1 .. n
      BY <1>2, <2>1, SMT
    <3>3. i > 1 => trail'[i - 1] = trail[i - 1]
      BY <1>2, <3>2
    <3>4. IF i > 1 /\ trail[i - 1].action = "approve"
          THEN trail[i].from = "verified"
          ELSE /\ trail[i].from = "pending"
               /\ i > 1 => trail[i].held > trail[i - 1].held
      BY <1>1, <3>1 DEF Current, DecisionsChain
    <3> QED BY <3>1, <3>3, <3>4
  <2>2. CASE i = n + 1 /\ n = 0
    <3>1. ~(i > 1) /\ trail'[i] = event
      BY <1>2, <2>2, SMT
    <3>2. trail = <<>>
      BY <1>2, <2>2, EmptySeq
    <3>3. user.status = "pending"
      BY <1>8, <1>9, <3>2
    <3> QED BY <3>1, <3>3
  <2>3. CASE i = n + 1 /\ n > 0
    <3>1. i > 1 /\ i - 1 = n /\ n \in 1 .. n /\ trail # <<>>
      BY <1>2, <1>11, <2>3, SMT
    <3>2. trail'[i - 1] = trail[n] /\ trail'[i] = event
      BY <1>2, <2>3, <3>1
    <3>3. CASE user.status = "verified"
      BY <1>9, <3>1, <3>2, <3>3
    <3>4. CASE user.status = "pending"
      <4>1. trail[n].action = "reject" /\ trail[n].held < Len(docs["proof"])
        BY <1>10, <3>1, <3>4
      <4>2. trail[n] \in Event
        BY <1>2, <1>11, <3>1, ElementOfSeq
      <4>3. trail[n].held \in Nat
        BY <4>2 DEF Event
      <4>4. Len(docs["proof"]) \in Nat
        BY LenProperties DEF Inv, TypeOK, Shelf
      <4>5. event.held > trail[n].held
        BY <4>1, <4>3, <4>4, SMT
      <4> QED BY <3>1, <3>2, <3>4, <4>1, <4>5
    <3> QED BY <1>8, <3>3, <3>4
  <2> QED BY <1>2, <1>11, <2>1, <2>2, <2>3, SMT
<1>13. trail'[Len(trail')].held = Len(docs'["proof"])
  BY <1>1, <1>2
<1>14. DecisionsChain'
  BY <1>12, <1>13 DEF DecisionsChain
<1> QED BY <1>6, <1>7, <1>14 DEF Current

LEMMA CurrentStep ==
    ASSUME Inv, Current, [Next]_verificationVars
    PROVE  Current'
<1>1. CASE raced'
  BY <1>1 DEF Current, ReasonIsCurrent, QueuedOnMore, DecisionsChain
<1>2. ASSUME UNCHANGED <<user, trail>>, docs'["proof"] = docs["proof"], ~raced' => ~raced
      PROVE  Current'
  BY <1>2 DEF Current, ReasonIsCurrent, QueuedOnMore, DecisionsChain
<1>3. CASE UNCHANGED verificationVars \/ Lock \/ Crash
  BY <1>2, <1>3 DEF verificationVars, Lock, Crash
<1>4. ASSUME NEW r \in Requests, Step(r), ~raced' PROVE Current'
  <2>1. CASE ProofRead(r) \/ RoomRead(r) \/ RequestEnds(r) \/ StoreFails(r) \/ CommitFails(r)
    BY <1>2, <2>1 DEF ProofRead, RoomRead, RequestEnds, StoreFails, CommitFails
  <2>2. ASSUME NEW size \in Sizes, Store(r, size) PROVE Current'
    BY <1>2, <2>2 DEF Store
  <2>3. ASSUME NEW d \in Decision, DecideRead(r, d) PROVE Current'
    BY <1>2, <2>3 DEF DecideRead
  <2>4. CASE RoomCommit(r)
    <3>1. docs'["proof"] = docs["proof"]
      BY <2>4, RowAdded DEF Inv, RoomCommit, Shelf
    <3>2. ~raced
      BY <1>4, <2>4 DEF RoomCommit, Inv, TypeOK
    <3> QED BY <1>2, <2>4, <3>1, <3>2 DEF RoomCommit
  <2>5. CASE ProofCommit(r)
    BY <1>4, <2>5, CurrentProof
  <2>6. CASE DecideWrite(r)
    BY <1>4, <2>6, CurrentDecision
  <2> QED BY <1>4, <2>1, <2>2, <2>3, <2>4, <2>5, <2>6 DEF Step
<1> QED BY <1>1, <1>3, <1>4 DEF Next

LEMMA CurrentHolds == Spec => []Current
<1>1. Inv /\ Current /\ [Next]_verificationVars => Current'
  BY CurrentStep
<1> QED BY InitCurrent, InvHolds, <1>1, PTL DEF Spec

\* From current reads, a reason is shown exactly while rejected and a review
\* date exactly while a decision stands, both of the last decision.
THEOREM ReasonsAreCurrent == Spec => []ReasonIsCurrent
BY CurrentHolds, PTL DEF Current

\* From current reads, each decision follows on the one before it and has
\* covered every document on file.
THEOREM DecisionsFollow == Spec => []DecisionsChain
BY CurrentHolds, PTL DEF Current

----------------------------------------------------------------------------
(* What a verified buyer stands for (ReviewContract).                        *)

\* What the last decision covered is a number; what none has covered is too.
LEMMA CoveredNat ==
    ASSUME TypeOK
    PROVE  Covered \in Nat /\ Len(docs["proof"]) \in Nat
<1>1. docs["proof"] \in Seq(Doc) /\ trail \in Seq(Event)
  BY DEF TypeOK, Shelf
<1>2. ASSUME trail # <<>> PROVE trail[Len(trail)].held \in Nat
  <2>1. Len(trail) \in 1 .. Len(trail)
    BY <1>1, <1>2, LenProperties, EmptySeq
  <2>2. trail[Len(trail)] \in Event
    BY <1>1, <2>1, ElementOfSeq
  <2> QED BY <2>2 DEF Event
<1> QED BY <1>1, <1>2, LenProperties DEF Covered

\* The contract's state from the module's, while nothing raced: a queued buyer
\* has documents no decision covered, a decided one has none.
LEMMA UnseenMeans ==
    ASSUME Inv, Current, ~raced
    PROVE  /\ user.status = "pending" => Covered < Len(docs["proof"])
           /\ user.status \in {"verified", "rejected", "unverified"} =>
                  Covered = Len(docs["proof"])
<1>1. Covered \in Nat /\ Len(docs["proof"]) \in Nat
  BY CoveredNat DEF Inv
<1>2. docs["proof"] \in Seq(Doc)
  BY DEF Inv, TypeOK, Shelf
<1>3. CASE user.status = "pending" /\ trail = <<>>
  <2>1. Covered = 0 /\ docs["proof"] # <<>>
    BY <1>3 DEF Covered, Inv, StatusExplained
  <2> QED BY <1>1, <1>2, <1>3, <2>1, EmptySeq, SMT
<1>4. CASE user.status = "pending" /\ trail # <<>>
  BY <1>4 DEF Current, QueuedOnMore, Covered
<1>5. CASE user.status \in {"verified", "rejected"}
  <2>1. trail # <<>>
    BY <1>5 DEF Inv, StatusExplained
  <2>2. trail[Len(trail)].held = Len(docs["proof"])
    BY <1>5 DEF Current, DecisionsChain
  <2> QED BY <1>5, <2>1, <2>2 DEF Covered
<1>6. CASE user.status = "unverified"
  <2>1. docs["proof"] = <<>> /\ trail = <<>>
    BY <1>6 DEF Inv, StatusExplained
  <2> QED BY <1>2, <1>6, <2>1, EmptySeq DEF Covered
<1>7. user.status \in Status
  BY DEF Inv, TypeOK, UserRow
<1> QED BY <1>3, <1>4, <1>5, <1>6, <1>7 DEF Status

LEMMA InitReview == Init => Review!Init
BY EmptySeq DEF Init, Review!Init, NewBuyer, Shelf, Covered

\* A submission is the contract's: one more document, and the buyer is queued.
LEMMA ProofSubmits ==
    ASSUME Inv, Current, NEW r \in Requests, ProofCommit(r), ~raced'
    PROVE  Review!Submit
<1>1. /\ req[r].user = user /\ user \in UserRow
      /\ user' = FlushedUser(user, Queued(user))
      /\ r \in Storing /\ req[r].op = "proof" /\ AddRow(r)
      /\ UNCHANGED trail
  BY DEF ProofCommit, Inv, TypeOK
<1>2. Queued(user) \in UserRow /\ Queued(user).status = "pending"
  BY <1>1, QueuedType DEF Queued
<1>3. user'.status = "pending"
  BY <1>1, <1>2, FlushedCurrent
<1>4. user.status # "verified"
  BY <1>1 DEF Inv, GatesPassed, AllowedFrom, Decision
<1>5. Len(docs'["proof"]) = Len(docs["proof"]) + 1
  <2>1. docs["proof"] \in Seq(Doc)
    BY DEF Inv, TypeOK, Shelf
  <2> DEFINE row == [key |-> req[r].file, size |-> req[r].size]
  <2>2. row \in Doc /\ docs'["proof"] = Append(docs["proof"], row)
    BY <1>1, RowAdded DEF Inv
  <2> QED BY <2>1, <2>2, AppendProperties, LenProperties
<1>6. Covered' = Covered
  BY <1>1 DEF Covered
<1>7. Covered \in Nat /\ Len(docs["proof"]) \in Nat
  BY CoveredNat DEF Inv
<1>8. Len(docs'["proof"]) - Covered' = Len(docs["proof"]) - Covered + 1
  BY <1>5, <1>6, <1>7, SMT
<1> QED BY <1>3, <1>4, <1>8 DEF Review!Submit

\* A decision is one of the contract's three: it covers every document, and
\* follows on new documents or on the approval it revokes.
LEMMA DecisionReviews ==
    ASSUME Inv, Current, NEW r \in Requests, DecideWrite(r), ~raced'
    PROVE  Review!Approve \/ Review!Reject \/ Review!Revoke
<1> DEFINE d == req[r].op
           n == Len(trail)
           event == [action |-> d, from |-> user.status, held |-> Len(docs["proof"])]
<1>1. /\ ~raced /\ req[r].user = user
      /\ user \in UserRow
      /\ d \in Decision
      /\ user.status \in AllowedFrom[d]
      /\ user' = FlushedUser(user, Decided(user, d))
      /\ UNCHANGED docs
  BY DEF DecideWrite, Inv, TypeOK, GatesPassed
<1>2. /\ trail \in Seq(Event) /\ n \in Nat
      /\ trail' \in Seq(Event)
      /\ Len(trail') = n + 1
      /\ trail'[n + 1] = event
  BY <1>1, TrailAppended, LenProperties DEF Inv, TypeOK
<1>3. Decided(user, d) \in UserRow
  BY <1>1, <1>2, DecidedType
<1>4. user'.status = DecidedStatus[d]
  BY <1>1, <1>3, FlushedCurrent DEF Decided
<1>5. trail' # <<>>
  BY <1>2, EmptySeq, SMT
<1>6. Covered' = Len(docs["proof"])
  BY <1>2, <1>5 DEF Covered
<1>7. Len(docs["proof"]) \in Nat /\ Covered \in Nat
  BY CoveredNat DEF Inv
<1>8. Len(docs'["proof"]) - Covered' = 0
  BY <1>1, <1>6, <1>7, SMT
<1>9. CASE user.status = "pending"
  <2>1. Len(docs["proof"]) - Covered > 0
    BY <1>1, <1>7, <1>9, UnseenMeans, SMT
  <2>2. CASE d = "approve"
    BY <1>4, <1>8, <1>9, <2>1, <2>2 DEF Review!Approve, DecidedStatus
  <2>3. CASE d = "reject"
    BY <1>4, <1>8, <1>9, <2>1, <2>3 DEF Review!Reject, DecidedStatus
  <2> QED BY <1>1, <2>2, <2>3 DEF Decision
<1>10. CASE user.status = "verified" /\ d = "reject"
  <2>1. Len(docs["proof"]) - Covered = 0
    BY <1>1, <1>7, <1>10, UnseenMeans, SMT
  <2> QED BY <1>4, <1>8, <1>10, <2>1 DEF Review!Revoke, DecidedStatus
<1> QED BY <1>1, <1>9, <1>10 DEF AllowedFrom, Decision

LEMMA ReviewStep ==
    ASSUME Inv, Current, [Next /\ ~raced']_verificationVars
    PROVE  [Review!Next]_(Review!vars)
<1>1. ASSUME UNCHANGED <<user, trail>>, docs'["proof"] = docs["proof"]
      PROVE  [Review!Next]_(Review!vars)
  BY <1>1 DEF Covered, Review!vars
<1>2. CASE UNCHANGED verificationVars \/ Lock \/ Crash
  BY <1>1, <1>2 DEF verificationVars, Lock, Crash
<1>3. ASSUME NEW r \in Requests, Step(r), ~raced'
      PROVE  [Review!Next]_(Review!vars)
  <2>1. CASE ProofRead(r) \/ RoomRead(r) \/ RequestEnds(r) \/ StoreFails(r) \/ CommitFails(r)
    BY <1>1, <2>1 DEF ProofRead, RoomRead, RequestEnds, StoreFails, CommitFails
  <2>2. ASSUME NEW size \in Sizes, Store(r, size) PROVE [Review!Next]_(Review!vars)
    BY <1>1, <2>2 DEF Store
  <2>3. ASSUME NEW d \in Decision, DecideRead(r, d) PROVE [Review!Next]_(Review!vars)
    BY <1>1, <2>3 DEF DecideRead
  <2>4. CASE RoomCommit(r)
    <3>1. docs'["proof"] = docs["proof"]
      BY <2>4, RowAdded DEF Inv, RoomCommit, Shelf
    <3> QED BY <1>1, <2>4, <3>1 DEF RoomCommit
  <2>5. CASE ProofCommit(r)
    BY <1>3, <2>5, ProofSubmits DEF Review!Next
  <2>6. CASE DecideWrite(r)
    BY <1>3, <2>6, DecisionReviews DEF Review!Next
  <2> QED BY <1>3, <2>1, <2>2, <2>3, <2>4, <2>5, <2>6 DEF Step
<1> QED BY <1>2, <1>3 DEF Next

\* A serial schedule is a schedule.
LEMMA SerialCurrent == SerialSpec => [](Inv /\ Current)
<1>1. Init => Inv /\ Current
  BY InitInv, InitCurrent
<1>2. Inv /\ Current /\ [Next /\ ~raced']_verificationVars => (Inv /\ Current)'
  <2>1. [Next /\ ~raced']_verificationVars => [Next]_verificationVars
    OBVIOUS
  <2> QED BY <2>1, StepInv, CurrentStep
<1> QED BY <1>1, <1>2, PTL DEF SerialSpec

\* From current reads, account and documents implement ReviewContract: every
\* commit of submit_verification_document and of _decide is a step of the
\* contract, and nothing else moves the buyer.
THEOREM VerificationKeepsReview == SerialSpec => KeepsReview
<1>1. Inv /\ Current /\ [Next /\ ~raced']_verificationVars => [Review!Next]_(Review!vars)
  BY ReviewStep
<1> QED BY InitReview, SerialCurrent, <1>1, PTL DEF SerialSpec, KeepsReview, Review!Spec

\* A contract step never leaves a verified buyer with documents unseen.
LEMMA SeenStep ==
    ASSUME Review!SeenWhole, [Review!Next]_(Review!vars)
    PROVE  Review!SeenWhole'
BY DEF Review!SeenWhole, Review!Next, Review!vars, Review!Submit, Review!Approve,
       Review!Reject, Review!Revoke

\* What a seller reads into the badge: a verified buyer has no document that
\* the approval did not cover.
THEOREM VerifiedSeenWhole == SerialSpec => []Review!SeenWhole
<1>1. Review!Init => Review!SeenWhole
  BY DEF Review!Init, Review!SeenWhole
<1> QED BY <1>1, SeenStep, VerificationKeepsReview, PTL DEF KeepsReview, Review!Spec

----------------------------------------------------------------------------
(* Sizes. *)

\* The bytes of a shelf add up document by document.
LEMMA SizesAdd ==
    ASSUME NEW rows \in Seq(Doc)
    PROVE  /\ SizeOfFirst(rows) \in [0 .. Len(rows) -> Nat]
           /\ SizeOfFirst(rows)[0] = 0
           /\ \A n \in 1 .. Len(rows) :
                SizeOfFirst(rows)[n] = rows[n].size + SizeOfFirst(rows)[n - 1]
<1> DEFINE N == Len(rows)
           step == [n \in 1 .. N |-> [v \in Nat |-> rows[n].size + v]]
           total == SizeOfFirst(rows)
<1>1. N \in Nat
  BY LenProperties
<1>2. \A n \in 1 .. N : rows[n].size \in Nat
  <2>1. \A n \in 1 .. N : rows[n] \in Doc
    BY ElementOfSeq
  <2> QED BY <2>1, VerificationAssumption DEF Doc
<1>3. step \in [1 .. N -> [Nat -> Nat]]
  BY <1>2
<1>4. PICK g \in [0 .. N -> Nat] : g[0] = 0 /\ \A n \in 1 .. N : g[n] = step[n][g[n - 1]]
  <2>1. PICK zero : zero = 0
    OBVIOUS
  <2>2. PICK V : V = Nat
    OBVIOUS
  <2>3. zero \in V /\ step \in [1 .. N -> [V -> V]]
    BY <1>3, <2>1, <2>2
  <2>4. \E g \in [0 .. N -> V] : g[0] = zero /\ \A n \in 1 .. N : g[n] = step[n][g[n - 1]]
    <3> HIDE DEF step, N
    <3> QED BY <1>1, <2>3, IterationExists
  <2> QED BY <2>1, <2>2, <2>4
<1>5. g = [n \in 0 .. N |-> IF n = 0 THEN 0 ELSE rows[n].size + g[n - 1]]
  <2>1. ASSUME NEW n \in 1 .. N PROVE g[n] = rows[n].size + g[n - 1]
    <3>1. n - 1 \in 0 .. N
      BY <1>1
    <3> QED BY <1>4, <3>1
  <2>2. \A n \in 0 .. N : g[n] = IF n = 0 THEN 0 ELSE rows[n].size + g[n - 1]
    BY <1>1, <1>4, <2>1
  <2>3. g = [n \in 0 .. N |-> g[n]]
    OBVIOUS
  <2> HIDE DEF step, N
  <2> QED BY <2>2, <2>3
<1>6. total = [n \in 0 .. N |-> IF n = 0 THEN 0 ELSE rows[n].size + total[n - 1]]
  BY <1>5 DEF SizeOfFirst
<1>7. total \in [0 .. N -> Nat]
  <2>1. 0 .. N \subseteq {n \in 0 .. N : total[n] \in Nat}
    <3> DEFINE T == {n \in 0 .. N : total[n] \in Nat}
    <3>1. 0 \in T
      BY <1>1, <1>6
    <3>2. ASSUME NEW n \in 1 .. N, n - 1 \in T PROVE n \in T
      BY <1>1, <1>2, <1>6, <3>2
    <3> HIDE DEF T, N
    <3> QED BY <1>1, <3>1, <3>2, IntervalInduction DEF T
  <2> QED BY <1>6, <2>1
<1>8. total[0] = 0 /\ \A n \in 1 .. N : total[n] = rows[n].size + total[n - 1]
  <2> HIDE DEF total, N
  <2> QED BY <1>1, <1>6
<1> QED
  BY <1>7, <1>8

\* A document adds its own.
LEMMA SizeAppended ==
    ASSUME NEW rows \in Seq(Doc), NEW row \in Doc
    PROVE  /\ TotalSize(rows) \in Nat
           /\ TotalSize(Append(rows, row)) = TotalSize(rows) + row.size
<1> DEFINE more == Append(rows, row)
           old == SizeOfFirst(rows)
           new == SizeOfFirst(more)
           N == Len(rows)
<1>1. /\ more \in Seq(Doc) /\ Len(more) = N + 1 /\ N \in Nat
      /\ more[N + 1] = row /\ \A n \in 1 .. N : more[n] = rows[n]
  BY AppendProperties, LenProperties
<1>2. /\ old \in [0 .. N -> Nat] /\ old[0] = 0
      /\ \A n \in 1 .. N : old[n] = rows[n].size + old[n - 1]
  BY SizesAdd
<1>3. /\ new \in [0 .. N + 1 -> Nat] /\ new[0] = 0
      /\ \A n \in 1 .. N + 1 : new[n] = more[n].size + new[n - 1]
  <2> HIDE DEF more
  <2> QED BY <1>1, SizesAdd
<1>4. 0 .. N \subseteq {n \in 0 .. N : new[n] = old[n]}
  <2> DEFINE T == {n \in 0 .. N : new[n] = old[n]}
  <2> HIDE DEF more, old, new, N
  <2>1. 0 \in T
    BY <1>1, <1>2, <1>3
  <2>2. ASSUME NEW n \in 1 .. N, n - 1 \in T PROVE n \in T
    <3>1. n \in 1 .. N + 1 /\ n \in 0 .. N
      BY <1>1
    <3>2. new[n - 1] = old[n - 1] /\ more[n] = rows[n]
      BY <1>1, <2>2
    <3> QED BY <1>2, <1>3, <3>1, <3>2
  <2> HIDE DEF T
  <2>3. 0 .. N \subseteq T
    BY <1>1, <2>1, <2>2, IntervalInduction
  <2> QED BY <2>3 DEF T
<1>5. new[N] = old[N] /\ old[N] \in Nat
  <2> HIDE DEF more, old, new, N
  <2>1. N \in 0 .. N
    BY <1>1
  <2> QED BY <1>2, <1>4, <2>1
<1>6. new[N + 1] = row.size + old[N]
  <2> HIDE DEF more, old, new, N
  <2>1. N + 1 \in 1 .. N + 1 /\ (N + 1) - 1 = N
    BY <1>1
  <2>2. new[N + 1] = more[N + 1].size + new[N]
    BY <1>3, <2>1
  <2> QED BY <1>1, <1>5, <2>2
<1>7. row.size \in Nat
  BY VerificationAssumption DEF Doc
<1> QED
  BY <1>1, <1>5, <1>6, <1>7 DEF TotalSize

\* An empty shelf has none.
LEMMA SizeOfNothing == TotalSize(<<>>) = 0
<1>1. <<>> \in Seq(Doc) /\ Len(<<>>) = 0
  BY EmptySeq
<1> QED BY <1>1, SizesAdd DEF TotalSize

----------------------------------------------------------------------------
(* Rows and files. *)

\* One upload at a time has stored its bytes, under a key no row has, and found
\* room for its row.
OneStoring ==
    /\ \A r, q \in Storing : r = q
    /\ \A r \in Storing :
        /\ req[r].file \in files
        /\ \A x \in Rows : KeyOf(x) # req[r].file
        /\ Len(docs[req[r].op]) < MaxDocs
        /\ TotalSize(docs[req[r].op]) + req[r].size <= MaxBytes

OnDisk == OneStoring /\ WithinQuota /\ RowsHaveFiles

LEMMA StoringFinite ==
    /\ IsFiniteSet(Storing)
    /\ Cardinality(Storing) \in Nat
BY VerificationAssumption, FS_Subset, FS_CardinalityType DEF Storing

LEMMA RowsFinite ==
    /\ IsFiniteSet(Rows)
    /\ Cardinality(Rows) \in Nat
<1>1. IsFiniteSet(Shelf)
  <2>1. IsFiniteSet({"proof"}) /\ IsFiniteSet({"room"})
    BY FS_Singleton
  <2>2. Shelf = {"proof"} \cup {"room"}
    BY DEF Shelf
  <2> QED BY <2>1, <2>2, FS_Union
<1>2. IsFiniteSet(1 .. MaxDocs)
  BY FS_Interval, VerificationAssumption
<1>3. IsFiniteSet(Shelf \X (1 .. MaxDocs))
  BY <1>1, <1>2, FS_Product
<1>4. Rows \subseteq Shelf \X (1 .. MaxDocs)
  BY DEF Rows
<1> QED BY <1>3, <1>4, FS_Subset, FS_CardinalityType

LEMMA InitOnDisk == Init => OnDisk
<1> SUFFICES ASSUME Init PROVE OnDisk
  OBVIOUS
<1>1. Storing = {}
  BY DEF Init, Storing, Idle
<1>2. Rows = {}
  BY EmptySeq DEF Init, Rows
<1>3. Cardinality(files) = 0 /\ Cardinality(Rows) = 0 /\ Cardinality(Storing) = 0
  BY <1>1, <1>2, FS_EmptySet DEF Init
<1>4. WithinQuota
  <2>1. \A s \in Shelf : docs[s] = <<>>
    BY DEF Init
  <2>2. Len(<<>>) = 0 /\ 0 <= MaxDocs /\ 0 <= MaxBytes
    BY EmptySeq, VerificationAssumption, SMT
  <2> QED BY <2>1, <2>2, SizeOfNothing DEF WithinQuota
<1> QED BY <1>1, <1>2, <1>3, <1>4 DEF Init, OnDisk, OneStoring, RowsHaveFiles

\* A request that has stored nothing, and stores nothing, changes neither.
LEMMA OnDiskSame ==
    ASSUME TypeOK, OnDisk, UNCHANGED <<docs, files, failures>>, Storing' = Storing,
           \A r \in Storing : req'[r] = req[r]
    PROVE  OnDisk'
BY DEF OnDisk, OneStoring, WithinQuota, RowsHaveFiles, Rows, KeyOf

\* The row of an upload takes over its file.
LEMMA OnDiskCommit ==
    ASSUME Inv, OnDisk, NEW r \in Storing, AddRow(r), Ends(r), UNCHANGED <<files, failures>>
    PROVE  OnDisk'
<1> SUFFICES ASSUME NEW shelf, NEW n, NEW row,
                    shelf = req[r].op,
                    n = Len(docs[shelf]),
                    row = [key |-> req[r].file, size |-> req[r].size]
             PROVE  OnDisk'
  OBVIOUS
<1> DEFINE new == <<shelf, n + 1>>
<1>1. /\ shelf \in Shelf /\ row \in Doc
      /\ docs'[shelf] = Append(docs[shelf], row)
      /\ \A s \in Shelf \ {shelf} : docs'[s] = docs[s]
      /\ \A s \in Shelf : docs[s] \in Seq(Doc)
  BY RowAdded DEF Inv, TypeOK
<1>2. /\ n \in Nat /\ n < MaxDocs
      /\ Len(docs'[shelf]) = n + 1
      /\ docs'[shelf][n + 1] = row
      /\ \A i \in 1 .. n : docs'[shelf][i] = docs[shelf][i]
      /\ DOMAIN docs[shelf] = 1 .. n
      /\ DOMAIN docs'[shelf] = 1 .. n + 1
  BY <1>1, AppendProperties, LenProperties DEF OnDisk, OneStoring
<1>3. Storing' = {}
  <2>1. req'[r] = Idle /\ \A q \in Requests \ {r} : req'[q] = req[q]
    BY DEF Ends, Inv, TypeOK, Storing
  <2>2. \A q \in Requests \ {r} : req[q].file = 0
    BY DEF OnDisk, OneStoring, Storing
  <2> QED BY <2>1, <2>2 DEF Storing, Idle
<1>4. Cardinality(Storing') = 0
  BY <1>3, FS_EmptySet
<1>5. Cardinality(Storing) = 1
  <2>1. Storing = {r}
    BY DEF OnDisk, OneStoring
  <2> QED BY <2>1, FS_Singleton
<1>6. Rows' = Rows \cup {new}
  <2>1. \A x \in Shelf \X (1 .. MaxDocs) : x[1] \in Shelf /\ x[2] \in 1 .. MaxDocs /\ x = <<x[1], x[2]>>
    OBVIOUS
  <2>2. new \in Shelf \X (1 .. MaxDocs)
    BY <1>1, <1>2, VerificationAssumption, SMT
  <2>3. \A x \in Shelf \X (1 .. MaxDocs) :
          x[2] \in DOMAIN docs'[x[1]] <=> (x[2] \in DOMAIN docs[x[1]] \/ x = new)
    BY <1>1, <1>2, <2>1, SMT
  <2> QED BY <2>2, <2>3 DEF Rows
<1>7. new \notin Rows
  BY <1>2, SMT DEF Rows
<1>8. Cardinality(Rows') = Cardinality(Rows) + 1
  BY <1>6, <1>7, RowsFinite, FS_AddElement
<1>9. KeyOf(new)' = req[r].file
  <2>1. new[1] = shelf /\ new[2] = n + 1
    OBVIOUS
  <2>2. KeyOf(new)' = docs'[new[1]][new[2]].key
    BY DEF KeyOf
  <2>3. KeyOf(new)' = docs'[shelf][n + 1].key
    BY <2>1, <2>2
  <2>4. row.key = req[r].file
    OBVIOUS
  <2> QED BY <1>2, <2>3, <2>4
<1>10. \A x \in Rows : KeyOf(x)' = KeyOf(x)
  <2> SUFFICES ASSUME NEW x \in Rows PROVE KeyOf(x)' = KeyOf(x)
    OBVIOUS
  <2>1. x[1] \in Shelf /\ x[2] \in DOMAIN docs[x[1]]
    BY DEF Rows
  <2>2. CASE x[1] = shelf
    BY <1>2, <2>1, <2>2 DEF KeyOf
  <2>3. CASE x[1] # shelf
    BY <1>1, <2>1, <2>3 DEF KeyOf
  <2> QED BY <2>2, <2>3
<1>11. req[r].file \in files /\ \A x \in Rows : KeyOf(x) # req[r].file
  BY DEF OnDisk, OneStoring
<1>12. /\ \A x \in Rows' : KeyOf(x)' \in files'
       /\ \A x, y \in Rows' : KeyOf(x)' = KeyOf(y)' => x = y
  <2>1. /\ \A x \in Rows : KeyOf(x) \in files
        /\ \A x, y \in Rows : KeyOf(x) = KeyOf(y) => x = y
    BY DEF OnDisk, RowsHaveFiles
  <2> DEFINE K(x) == KeyOf(x)'
  <2>2. K(new) = req[r].file /\ \A x \in Rows : K(x) = KeyOf(x)
    BY <1>9, <1>10
  <2> HIDE DEF K, new
  <2>3. \A x \in Rows \cup {new} : K(x) \in files
    BY <1>11, <2>1, <2>2
  <2>4. \A x, y \in Rows \cup {new} : K(x) = K(y) => x = y
    BY <1>11, <2>1, <2>2
  <2> QED BY <1>6, <2>3, <2>4 DEF K
<1>13. Cardinality(files') <= Cardinality(Rows') + Cardinality(Storing') + failures'
  <2>1. Cardinality(files) \in Nat /\ failures \in Nat
    BY FS_CardinalityType, SMT DEF Inv, KeysInOrder, TypeOK
  <2>2. Cardinality(files) <= Cardinality(Rows) + Cardinality(Storing) + failures
    BY DEF OnDisk, RowsHaveFiles
  <2> QED BY <1>4, <1>5, <1>8, <2>1, <2>2, RowsFinite, SMT
<1>14. WithinQuota'
  <2>1. WithinQuota /\ TotalSize(docs[shelf]) + row.size <= MaxBytes
    BY DEF OnDisk, OneStoring
  <2>2. TotalSize(docs'[shelf]) = TotalSize(docs[shelf]) + row.size
    BY <1>1, SizeAppended
  <2>3. Len(docs'[shelf]) <= MaxDocs
    BY <1>2, VerificationAssumption, SMT
  <2> QED BY <1>1, <2>1, <2>2, <2>3 DEF WithinQuota
<1>15. OneStoring'
  BY <1>3 DEF OneStoring
<1> QED BY <1>12, <1>13, <1>14, <1>15 DEF OnDisk, RowsHaveFiles

LEMMA OnDiskStep ==
    ASSUME Inv, OnDisk, [Next]_verificationVars
    PROVE  OnDisk'
<1> DEFINE f == Cardinality(files)
           n == Cardinality(Rows)
           m == Cardinality(Storing)
<1>1. /\ f \in Nat /\ n \in Nat /\ m \in Nat /\ failures \in Nat
      /\ f <= n + m + failures
  BY FS_CardinalityType, RowsFinite, StoringFinite, SMT DEF Inv, KeysInOrder, TypeOK, OnDisk,
     RowsHaveFiles
<1>2. CASE UNCHANGED verificationVars \/ Lock
  BY <1>2, OnDiskSame DEF verificationVars, Lock, Storing, Inv
<1>3. CASE Crash
  <2>1. Storing' = {} /\ Cardinality(Storing') = 0
    BY <1>3, FS_EmptySet DEF Crash, Storing, Idle
  <2>2. m <= 1
    <3>1. CASE Storing = {}
      BY <3>1, FS_EmptySet, SMT
    <3>2. ASSUME NEW r \in Storing PROVE m <= 1
      <4>1. Storing = {r}
        BY DEF OnDisk, OneStoring
      <4> QED BY <4>1, FS_Singleton, SMT
    <3> QED BY <3>1, <3>2
  <2>3. Rows' = Rows /\ \A x \in Rows : KeyOf(x)' = KeyOf(x)
    BY <1>3 DEF Crash, Rows, KeyOf
  <2>4. failures' = failures + 1 /\ UNCHANGED <<files, docs>>
    BY <1>3 DEF Crash, Fails
  <2>5. Cardinality(files') <= Cardinality(Rows') + Cardinality(Storing') + failures'
    BY <1>1, <2>1, <2>2, <2>3, <2>4, SMT
  <2> QED BY <2>1, <2>3, <2>4, <2>5 DEF OnDisk, OneStoring, WithinQuota, RowsHaveFiles
<1>4. ASSUME NEW r \in Requests, Step(r) PROVE OnDisk'
  <2>1. ASSUME req[r].file = 0, req'[r].file = 0, \A q \in Requests \ {r} : req'[q] = req[q],
               UNCHANGED docs
        PROVE  /\ Storing' = Storing
               /\ \A q \in Storing : req'[q] = req[q]
               /\ Rows' = Rows /\ \A x \in Rows : KeyOf(x)' = KeyOf(x)
    BY <2>1 DEF Storing, Rows, KeyOf
  <2>2. ASSUME NEW op, Reads(r, op) PROVE req'[r].file = 0 /\ \A q \in Requests \ {r} : req'[q] = req[q]
    <3>1. [Idle EXCEPT !.op = op, !.locked = locked].file = 0
      BY DEF Idle
    <3>2. [Idle EXCEPT !.op = op, !.user = user].file = 0
      BY DEF Idle
    <3> QED BY <2>2, <3>1, <3>2 DEF Reads, Inv, TypeOK
  <2>3. ASSUME Ends(r) PROVE req'[r].file = 0 /\ \A q \in Requests \ {r} : req'[q] = req[q]
    BY <2>3 DEF Ends, Inv, TypeOK, Idle
  <2>4. ASSUME req[r].op = "idle" PROVE req[r].file = 0
    BY <2>4 DEF Inv, StoringUploads, Storing, Shelf
  <2>5. CASE ProofRead(r)
    BY <2>1, <2>2, <2>4, <2>5, OnDiskSame DEF ProofRead, Inv
  <2>6. CASE RoomRead(r)
    BY <2>1, <2>2, <2>4, <2>6, OnDiskSame DEF RoomRead, Inv
  <2>7. ASSUME NEW d \in Decision, DecideRead(r, d) PROVE OnDisk'
    BY <2>1, <2>2, <2>4, <2>7, OnDiskSame DEF DecideRead, Inv
  <2>8. CASE RequestEnds(r)
    BY <2>1, <2>3, <2>8, OnDiskSame DEF RequestEnds, Inv
  <2>9. CASE DecideWrite(r)
    <3>1. req[r].file = 0
      BY <2>9 DEF DecideWrite, Inv, StoringUploads, Storing, Shelf, Decision
    <3> QED BY <2>1, <2>3, <2>9, <3>1, OnDiskSame DEF DecideWrite, Inv
  <2>10. CASE ProofCommit(r)
    BY <2>10, OnDiskCommit DEF ProofCommit
  <2>11. CASE RoomCommit(r)
    BY <2>11, OnDiskCommit DEF RoomCommit
  <2>12. CASE StoreFails(r)
    <3>1. /\ Storing' = Storing /\ \A q \in Storing : req'[q] = req[q]
          /\ Rows' = Rows /\ \A x \in Rows : KeyOf(x)' = KeyOf(x)
      BY <2>1, <2>3, <2>12 DEF StoreFails
    <3>2. /\ failures' = failures + 1 /\ files' = files \cup {NewKey}
          /\ Cardinality(files') = f + 1
          /\ UNCHANGED docs
      BY <2>12, NewKeyFresh DEF StoreFails, Fails, NewKey, Inv
    <3>3. Cardinality(files') <= Cardinality(Rows') + Cardinality(Storing') + failures'
      BY <1>1, <3>1, <3>2, SMT
    <3> QED BY <3>1, <3>2, <3>3 DEF OnDisk, OneStoring, WithinQuota, RowsHaveFiles
  <2>13. CASE CommitFails(r)
    <3>1. r \in Storing /\ Storing = {r} /\ m = 1
      <4>1. r \in Storing /\ Storing = {r}
        BY <2>13 DEF CommitFails, OnDisk, OneStoring
      <4> QED BY <4>1, FS_Singleton
    <3>2. Storing' = {} /\ Cardinality(Storing') = 0
      <4>1. req'[r].file = 0 /\ \A q \in Requests \ {r} : req'[q] = req[q]
        BY <2>3, <2>13 DEF CommitFails
      <4>2. Storing' = {}
        BY <3>1, <4>1 DEF Storing
      <4> QED BY <4>2, FS_EmptySet
    <3>3. Rows' = Rows /\ \A x \in Rows : KeyOf(x)' = KeyOf(x)
      BY <2>13 DEF CommitFails, Rows, KeyOf
    <3>4. failures' = failures + 1 /\ UNCHANGED <<files, docs>>
      BY <2>13 DEF CommitFails, Fails
    <3>5. Cardinality(files') <= Cardinality(Rows') + Cardinality(Storing') + failures'
      BY <1>1, <3>1, <3>2, <3>3, <3>4, SMT
    <3> QED BY <3>2, <3>3, <3>4, <3>5 DEF OnDisk, OneStoring, WithinQuota, RowsHaveFiles
  <2>14. ASSUME NEW size \in Sizes, Store(r, size) PROVE OnDisk'
    <3>1. Storing = {}
      BY <2>14 DEF Store, LoopIsFree
    <3>2. /\ req'[r].file = NewKey /\ req'[r].op = req[r].op
          /\ \A q \in Requests \ {r} : req'[q] = req[q]
      BY <2>14 DEF Store, Inv, TypeOK, Request
    <3>3. NewKey # 0 /\ NewKey \notin files /\ files' = files \cup {NewKey}
          /\ Cardinality(files') = f + 1
      BY <2>14, NewKeyFresh DEF Store, NewKey, Inv
    <3>4. Storing' = {r} /\ Cardinality(Storing') = 1 /\ m = 0
      <4>1. Storing' = {r}
        BY <3>1, <3>2, <3>3 DEF Storing
      <4> QED BY <3>1, <4>1, FS_Singleton, FS_EmptySet
    <3>5. Rows' = Rows /\ (\A x \in Rows : KeyOf(x)' = KeyOf(x)) /\ UNCHANGED <<docs, failures>>
      BY <2>14 DEF Store, Rows, KeyOf
    <3>6. Cardinality(files') <= Cardinality(Rows') + Cardinality(Storing') + failures'
      BY <1>1, <3>3, <3>4, <3>5, SMT
    <3>7. Len(docs[req[r].op]) < MaxDocs
      <4>1. Len(docs[req[r].op]) + 1 <= MaxDocs /\ docs[req[r].op] \in Seq(Doc)
        BY <2>14 DEF Store, Fits, Inv, TypeOK
      <4> QED BY <4>1, LenProperties, VerificationAssumption, SMT
    <3>8. \A x \in Rows : KeyOf(x) \in files
      BY DEF OnDisk, RowsHaveFiles
    <3>9. TotalSize(docs[req[r].op]) + req'[r].size <= MaxBytes
      <4>1. req'[r].size = size
        BY <2>14 DEF Store, Inv, TypeOK, Request
      <4> QED BY <2>14, <4>1 DEF Store, Fits
    <3>10. OneStoring'
      BY <3>2, <3>3, <3>4, <3>5, <3>7, <3>8, <3>9 DEF OneStoring
    <3> QED BY <3>3, <3>5, <3>6, <3>8, <3>10 DEF OnDisk, WithinQuota, RowsHaveFiles
  <2> QED BY <1>4, <2>5, <2>6, <2>7, <2>8, <2>9, <2>10, <2>11, <2>12, <2>13, <2>14 DEF Step
<1> QED BY <1>2, <1>3, <1>4 DEF Next

LEMMA OnDiskHolds == Spec => []OnDisk
<1>1. Inv /\ OnDisk /\ [Next]_verificationVars => OnDisk'
  BY OnDiskStep
<1> QED BY InitOnDisk, InvHolds, <1>1, PTL DEF Spec

\* Whatever fails, each row has a file of its own, and only a failure leaves a
\* file without a row.
THEOREM RowsKeepFiles == Spec => []RowsHaveFiles
BY OnDiskHolds, PTL DEF OnDisk

\* No shelf holds more documents or more bytes than its owner may have, however
\* many uploads are in flight and whatever fails (uploads.py).
THEOREM QuotaHolds == Spec => []WithinQuota
BY OnDiskHolds, PTL DEF OnDisk
=============================================================================
