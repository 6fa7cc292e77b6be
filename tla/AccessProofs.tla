---------------------------- MODULE AccessProofs ----------------------------
(***************************************************************************)
(* What holds of an access request for any number of requests in flight    *)
(* and of restarts.                                                        *)
(***************************************************************************)
EXTENDS Access, SequenceTheorems, TLAPS

\* A request about to open the conversation has an approval behind it.
OpenersApproved == \A r \in Requests : task[r] = "open" => "approve" \in Decided

\* A decision in flight is about a row that is there.
DecidersSawRow == \A r \in Requests : task[r] \in Decision => row # "none"

Inv ==
    /\ TypeOK
    /\ TrailExplainsRow
    /\ OpenersApproved
    /\ OnlyApprovalOpens
    /\ DecidersSawRow
    /\ SecondHalfDone

----------------------------------------------------------------------------
LEMMA InitInv == Init => Inv
<1> SUFFICES ASSUME Init PROVE Inv
  OBVIOUS
<1>1. TypeOK
  <2>1. trail \in Seq(Decision)
    BY EmptySeq DEF Init
  <2>2. failures \in 0 .. MaxFailures
    BY AccessAssumption DEF Init
  <2>3. task \in [Requests -> Task]
    BY DEF Init, Task
  <2> QED BY <2>1, <2>2, <2>3 DEF Init, TypeOK, RowStatus
<1>2. TrailExplainsRow /\ OpenersApproved /\ OnlyApprovalOpens /\ DecidersSawRow /\ SecondHalfDone
  BY DEF Init, TrailExplainsRow, OpenersApproved, OnlyApprovalOpens, DecidersSawRow,
     Decision, SecondHalfDone
<1> QED BY <1>1, <1>2 DEF Inv

\* Every step keeps every type: a decision is the only one to write the trail.
LEMMA TypeStep == TypeOK /\ [Next]_accessVars => TypeOK'
<1> SUFFICES ASSUME TypeOK, [Next]_accessVars PROVE TypeOK'
  OBVIOUS
<1> USE DEF TypeOK, RowStatus, Task, Becomes
<1>1. CASE UNCHANGED accessVars
  BY <1>1 DEF accessVars
<1>2. CASE Crash
  BY <1>2, AccessAssumption DEF Crash, Fails
<1>3. ASSUME NEW r \in Requests, Step(r) PROVE TypeOK'
  <2>1. CASE AskWrite(r)
    BY <2>1 DEF AskWrite, Reask
  <2>2. CASE AskNotify(r)
    BY <2>2 DEF AskNotify
  <2>3. ASSUME NEW d \in Decision, DecideRead(r, d) PROVE TypeOK'
    BY <2>3 DEF DecideRead
  <2>4. ASSUME NEW d \in Decision, NEW next \in Task, Decide(r, d, next) PROVE TypeOK'
    <3>1. row' \in RowStatus
      BY <2>4 DEF Decide, Decision, To
    <3>2. trail' \in Seq(Decision)
      BY <2>4, AppendProperties DEF Decide
    <3> QED BY <2>4, <3>1, <3>2 DEF Decide
  <2>5. CASE ApproveWrite(r) \/ DenyWrite(r) \/ RevokeWrite(r)
    BY <2>5, <2>4 DEF ApproveWrite, DenyWrite, RevokeWrite, Decision
  <2>6. CASE OpenConversation(r)
    BY <2>6 DEF OpenConversation
  <2>7. CASE RevokeDone(r)
    BY <2>7 DEF RevokeDone
  <2>8. CASE RequestFails(r)
    BY <2>8, AccessAssumption DEF RequestFails, Fails
  <2> QED BY <1>3, <2>1, <2>2, <2>3, <2>5, <2>6, <2>7, <2>8 DEF Step
<1> QED BY <1>1, <1>2, <1>3 DEF Next

\* What a decision does to the trail.
LEMMA DecideTrail ==
  ASSUME TypeOK, NEW r \in Requests, NEW d \in Decision, NEW next, Decide(r, d, next)
  PROVE  /\ trail' # <<>>
         /\ trail'[Len(trail')] = d
         /\ Decided' = Decided \cup {d}
<1>1. /\ trail' \in Seq(Decision)
      /\ Len(trail') = Len(trail) + 1
      /\ \A i \in 1 .. Len(trail) : trail'[i] = trail[i]
      /\ trail'[Len(trail) + 1] = d
  BY AppendProperties DEF Decide, TypeOK
<1>2. Len(trail) \in Nat /\ DOMAIN trail = 1 .. Len(trail) /\ DOMAIN trail' = 1 .. Len(trail')
  BY <1>1, LenProperties DEF TypeOK
<1>3. DOMAIN trail' = DOMAIN trail \cup {Len(trail) + 1}
  BY <1>1, <1>2
<1>4. Decided' = Decided \cup {d}
  BY <1>1, <1>2, <1>3 DEF Decided
<1>5. trail' # <<>>
  BY <1>1, <1>2
<1> QED BY <1>1, <1>4, <1>5

\* What every other step leaves of it.
Undecided == UNCHANGED trail /\ (UNCHANGED row \/ (row = "none" /\ row' = "requested"))

LEMMA TrailStep ==
  ASSUME TypeOK, TrailExplainsRow, [Next]_accessVars
  PROVE  TrailExplainsRow'
<1> USE DEF TypeOK
<1>1. CASE Undecided
  <2>1. CASE trail = <<>>
    BY <1>1, <2>1 DEF Undecided, TrailExplainsRow
  <2>2. CASE trail # <<>>
    <3>1. Len(trail) \in DOMAIN trail
      BY <2>2, LenProperties, EmptySeq
    <3>2. trail[Len(trail)] \in Decision
      BY <3>1, ElementOfSeq, LenProperties
    <3>3. row # "none"
      BY <2>2, <3>2 DEF TrailExplainsRow, To, Decision
    <3> QED BY <1>1, <2>2, <3>3 DEF Undecided, TrailExplainsRow
  <2> QED BY <2>1, <2>2
<1>2. ASSUME NEW r \in Requests, NEW d \in Decision, NEW next, Decide(r, d, next)
      PROVE  TrailExplainsRow'
  BY <1>2, DecideTrail DEF Decide, TrailExplainsRow
<1>3. ASSUME NEW r \in Requests, Step(r) PROVE TrailExplainsRow'
  <2>1. CASE ApproveWrite(r) \/ DenyWrite(r) \/ RevokeWrite(r)
    BY <2>1, <1>2 DEF ApproveWrite, DenyWrite, RevokeWrite, Decision
  <2>2. CASE ~(ApproveWrite(r) \/ DenyWrite(r) \/ RevokeWrite(r))
    <3>1. Undecided
      BY <1>3, <2>2 DEF Step, AskWrite, Reask, AskNotify, DecideRead, OpenConversation,
         RevokeDone, RequestFails, Undecided
    <3> QED BY <3>1, <1>1
  <2> QED BY <2>1, <2>2
<1>4. CASE UNCHANGED accessVars \/ Crash
  BY <1>4, <1>1 DEF accessVars, Crash, Fails, Undecided
<1> QED BY <1>3, <1>4 DEF Next

\* Only an approval leads to a conversation: the request that will open one
\* has approved, and the trail never forgets it.
LEMMA OpenStep ==
  ASSUME TypeOK, OpenersApproved, OnlyApprovalOpens, [Next]_accessVars
  PROVE  OpenersApproved' /\ OnlyApprovalOpens'
<1> USE DEF TypeOK, OpenersApproved, OnlyApprovalOpens, Becomes
<1>1. CASE UNCHANGED accessVars \/ Crash
  BY <1>1 DEF accessVars, Crash, Fails, Decided
<1>2. ASSUME NEW r \in Requests, NEW d \in Decision, NEW next \in Task, Decide(r, d, next),
             next = "open" => d = "approve"
      PROVE  OpenersApproved' /\ OnlyApprovalOpens'
  <2>1. Decided' = Decided \cup {d}
    BY <1>2, DecideTrail
  <2> QED BY <1>2, <2>1 DEF Decide
<1>3. ASSUME NEW r \in Requests, Step(r) PROVE OpenersApproved' /\ OnlyApprovalOpens'
  <2>1. CASE ApproveWrite(r) \/ DenyWrite(r) \/ RevokeWrite(r)
    BY <2>1, <1>2 DEF ApproveWrite, DenyWrite, RevokeWrite, Decision, Task
  <2>2. CASE AskWrite(r) \/ AskNotify(r) \/ RevokeDone(r) \/ RequestFails(r)
    BY <2>2 DEF AskWrite, Reask, AskNotify, RevokeDone, RequestFails, Decided
  <2>3. ASSUME NEW d \in Decision, DecideRead(r, d) PROVE OpenersApproved' /\ OnlyApprovalOpens'
    BY <2>3 DEF DecideRead, Decided, Decision
  <2>4. CASE OpenConversation(r)
    BY <2>4 DEF OpenConversation, Decided
  <2> QED BY <1>3, <2>1, <2>2, <2>3, <2>4 DEF Step
<1> QED BY <1>1, <1>3 DEF Next

\* A row stays once it is there.
LEMMA SawStep ==
  ASSUME TypeOK, DecidersSawRow, [Next]_accessVars
  PROVE  DecidersSawRow'
<1> USE DEF TypeOK, DecidersSawRow, Becomes
<1>1. CASE UNCHANGED accessVars \/ Crash
  BY <1>1 DEF accessVars, Crash, Fails, Decision
<1>2. ASSUME NEW r \in Requests, Step(r) PROVE DecidersSawRow'
  <2>1. CASE ApproveWrite(r) \/ DenyWrite(r) \/ RevokeWrite(r)
    BY <2>1 DEF ApproveWrite, DenyWrite, RevokeWrite, Decide, To
  <2>2. CASE AskWrite(r) \/ AskNotify(r) \/ RevokeDone(r) \/ OpenConversation(r) \/ RequestFails(r)
    BY <2>2 DEF AskWrite, Reask, AskNotify, RevokeDone, OpenConversation, RequestFails, Decision
  <2>3. ASSUME NEW d \in Decision, DecideRead(r, d) PROVE DecidersSawRow'
    BY <2>3 DEF DecideRead, From, Decision
  <2> QED BY <1>2, <2>1, <2>2, <2>3 DEF Step
<1> QED BY <1>1, <1>2 DEF Next

\* The second transaction is either done or in flight until a restart.
LEMMA SecondHalfStep ==
  ASSUME TypeOK, DecidersSawRow, SecondHalfDone, [Next]_accessVars
  PROVE  SecondHalfDone'
<1> USE DEF TypeOK, SecondHalfDone, Becomes
<1>1. CASE UNCHANGED accessVars
  BY <1>1 DEF accessVars
<1>2. CASE Crash
  BY <1>2, AccessAssumption DEF Crash, Fails
<1>3. ASSUME NEW r \in Requests, Step(r) PROVE SecondHalfDone'
  <2>1. CASE AskWrite(r)
    BY <2>1 DEF AskWrite, Reask
  <2>2. CASE AskNotify(r)
    BY <2>2 DEF AskNotify
  <2>3. ASSUME NEW d \in Decision, DecideRead(r, d) PROVE SecondHalfDone'
    BY <2>3 DEF DecideRead
  <2>4. ASSUME NEW d \in Decision, NEW next, Decide(r, d, next), To[d] = "approved" => next = "open"
        PROVE  SecondHalfDone'
    <3>1. row # "none" /\ UNCHANGED <<asked, conv, failures>>
      BY <2>4 DEF Decide, DecidersSawRow
    <3>2. row' = "approved" => task'[r] = "open"
      BY <2>4 DEF Decide
    <3>3. \A q \in Requests : task[q] = "ask" => task'[q] = "ask"
      BY <2>4 DEF Decide, Decision
    <3> QED BY <3>1, <3>2, <3>3
  <2>5. CASE ApproveWrite(r)
    BY <2>5, <2>4 DEF ApproveWrite, Decision, To
  <2>6. CASE DenyWrite(r) \/ RevokeWrite(r)
    BY <2>6, <2>4 DEF DenyWrite, RevokeWrite, Decision, To
  <2>7. CASE OpenConversation(r)
    BY <2>7 DEF OpenConversation
  <2>8. CASE RevokeDone(r)
    BY <2>8 DEF RevokeDone
  <2>9. CASE RequestFails(r)
    BY <2>9, AccessAssumption DEF RequestFails, Fails
  <2> QED BY <1>3, <2>1, <2>2, <2>3, <2>5, <2>6, <2>7, <2>8, <2>9 DEF Step
<1> QED BY <1>1, <1>2, <1>3 DEF Next
----------------------------------------------------------------------------
LEMMA NextInv == Inv /\ [Next]_accessVars => Inv'
  BY TypeStep, TrailStep, OpenStep, SawStep, SecondHalfStep DEF Inv

LEMMA InvHolds == Spec => []Inv
  BY InitInv, NextInv, PTL DEF Spec

\* The request's row and its audit trail are well formed.
THEOREM TypeCorrect == Spec => []TypeOK
  BY InvHolds, PTL DEF Inv

\* However decisions race, the trail's last row is where the request stands.
THEOREM TrailExplains == Spec => []TrailExplainsRow
  BY InvHolds, PTL DEF Inv

\* However decisions race, no conversation exists without an approval.
THEOREM ApprovalOpens == Spec => []OnlyApprovalOpens
  BY InvHolds, PTL DEF Inv

\* Without a restart no two-transaction operation is left half done.
THEOREM SecondHalves == Spec => []SecondHalfDone
  BY InvHolds, PTL DEF Inv

----------------------------------------------------------------------------
(* Without a lost update. *)

\* The trail a row can have when each decision was taken from where it stands.
Path ==
    /\ row \in {"none", "requested"} => trail = <<>>
    /\ row = "approved" => trail = <<"approve">>
    /\ row = "denied" => trail = <<"deny">>
    /\ row = "revoked" => trail = <<"approve", "revoke">>

LEMMA TwoDecisions == Append(<<"approve">>, "revoke") = <<"approve", "revoke">>
<1> DEFINE s == Append(<<"approve">>, "revoke")
           t == <<"approve", "revoke">>
<1>1. <<"approve">> \in Seq(Decision) /\ "revoke" \in Decision /\ Len(<<"approve">>) = 1
  BY DEF Decision
<1>2. s \in Seq(Decision) /\ Len(s) = 2 /\ s[1] = "approve" /\ s[2] = "revoke"
  BY <1>1, AppendProperties
<1>3. t \in Seq(Decision) /\ Len(t) = 2 /\ t[1] = "approve" /\ t[2] = "revoke"
  BY DEF Decision
<1>4. \A i \in 1 .. 2 : s[i] = t[i]
  BY <1>2, <1>3
<1> HIDE DEF s, t
<1> QED BY <1>2, <1>3, <1>4, SeqEqual DEF s, t

LEMMA PathStep == TypeOK /\ Path /\ [SerialNext]_accessVars => Path'
<1> SUFFICES ASSUME TypeOK, Path, [SerialNext]_accessVars PROVE Path'
  OBVIOUS
<1> USE DEF Path
<1>1. CASE UNCHANGED accessVars \/ Crash
  BY <1>1 DEF accessVars, Crash, Fails
<1>2. ASSUME NEW r \in Requests, Current(r), Step(r) PROVE Path'
  <2>1. CASE ApproveWrite(r)
    <3>1. row = "requested"
      BY <1>2, <2>1 DEF Current, ApproveWrite, Decide, Decision, From
    <3>2. row' = "approved" /\ trail' = Append(<<>>, "approve")
      BY <2>1, <3>1 DEF ApproveWrite, Decide, To
    <3> QED BY <3>2
  <2>2. CASE DenyWrite(r)
    <3>1. row = "requested"
      BY <1>2, <2>2 DEF Current, DenyWrite, Decide, Decision, From
    <3>2. row' = "denied" /\ trail' = Append(<<>>, "deny")
      BY <2>2, <3>1 DEF DenyWrite, Decide, To
    <3> QED BY <3>2
  <2>3. CASE RevokeWrite(r)
    <3>1. row = "approved"
      BY <1>2, <2>3 DEF Current, RevokeWrite, Decide, Decision, From
    <3>2. row' = "revoked" /\ trail' = Append(<<"approve">>, "revoke")
      BY <2>3, <3>1 DEF RevokeWrite, Decide, To
    <3> QED BY <3>2, TwoDecisions
  <2>4. CASE AskWrite(r)
    BY <2>4 DEF AskWrite, Reask
  <2>5. CASE AskNotify(r) \/ RevokeDone(r) \/ OpenConversation(r) \/ RequestFails(r)
    BY <2>5 DEF AskNotify, RevokeDone, OpenConversation, RequestFails
  <2>6. ASSUME NEW d \in Decision, DecideRead(r, d) PROVE Path'
    BY <2>6 DEF DecideRead
  <2> QED BY <1>2, <2>1, <2>2, <2>3, <2>4, <2>5, <2>6 DEF Step
<1> QED BY <1>1, <1>2 DEF SerialNext

LEMMA SerialIsNext == [SerialNext]_accessVars => [Next]_accessVars
  BY DEF SerialNext, Next

\* If each decision repeated the status it relies on in its WHERE, a request
\* would be decided once and revoked only after that.
THEOREM Final == SerialSpec => []DecisionsAreFinal
<1>1. Init => Path
  BY DEF Init, Path
<1>2. SerialSpec => []TypeOK
  <2>1. Init => TypeOK
    BY InitInv DEF Inv
  <2> QED BY <2>1, TypeStep, SerialIsNext, PTL DEF SerialSpec
<1>3. TypeOK /\ Path => DecisionsAreFinal
  BY DEF TypeOK, RowStatus, Path, DecisionsAreFinal
<1> QED BY <1>1, <1>2, <1>3, PathStep, PTL DEF SerialSpec
=============================================================================
