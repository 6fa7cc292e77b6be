----------------------------- MODULE ChatProofs -----------------------------
(***************************************************************************)
(* What holds of a conversation for any number of sockets, messages,       *)
(* requests in flight and restarts.                                        *)
(***************************************************************************)
EXTENDS Chat, AccessProofs

\* The broker knows exactly the sockets whose coroutine is past its handshake,
\* and those whose handshake failed once registered.
RegistryIsServing == registered = {s \in Sockets : handler[s] \in Serving \cup {"failed"}}

\* No socket gets past Connect without the conversation's row.
SocketsNeedConversation == \A s \in Sockets : handler[s] # "new" => conv

\* A coroutine outside publish has nothing left to send, and a socket that is
\* not open is owed nothing.
Quiet ==
    \A s \in Sockets :
        /\ handler[s] # "publishing" => publishing[s].aim = {} /\ publishing[s].sides = {}
        /\ handler[s] \notin Serving => owed[s] = {}

Shape == RegistryIsServing /\ SocketsNeedConversation /\ Quiet

ChatInv == ChatTypeOK /\ Shape /\ RevokedIsClosed /\ OpenSocketsHear

----------------------------------------------------------------------------
(* Every step of the composition is a step of Access, or leaves it alone. *)

LEMMA StepIsAccess == [ChatNext]_vars => [Next]_accessVars
<1> SUFFICES ASSUME [ChatNext]_vars PROVE [Next]_accessVars
  OBVIOUS
<1>1. CASE UNCHANGED vars
  BY <1>1 DEF vars
<1>2. CASE Restart
  BY <1>2 DEF Restart, Next
<1>3. ASSUME NEW r \in Requests, Endpoint(r) \/ Revocation(r) PROVE [Next]_accessVars
  BY <1>3 DEF Endpoint, Revocation, RevokeAndClose, RevokeUnclosed, CloseNext, CloseDone, Next, Step
<1>4. ASSUME NEW s \in Sockets, Client(s) \/ Coroutine(s) PROVE UNCHANGED accessVars
  BY <1>4 DEF Client, Coroutine, Connect, ClientLeaves, Frame, Accepted, Admit, Reject,
     HandshakeFails, HandlerEnds, Refused, InvalidFrame, StoreMessage, StoreUnheard, ListSockets, SendTo, PublishEnds
<1> QED BY <1>1, <1>2, <1>3, <1>4 DEF ChatNext

\* Composed with the chat, the decisions behave as they do alone.
THEOREM ChatRunsAccess == ChatSpec => Spec
<1>1. ChatInit => Init
  BY DEF ChatInit
<1> QED BY <1>1, StepIsAccess, PTL DEF ChatSpec, Spec

----------------------------------------------------------------------------
(* Types. *)

LEMMA PublishTypes ==
  ASSUME NEW m \in 0 .. MaxMessages, NEW sides \in SUBSET Sides, NEW aim \in SUBSET Sockets
  PROVE  Sending(m, sides, aim) \in Publish
  BY DEF Publish, Sending

LEMMA PublishParts ==
  ASSUME ChatTypeOK, NEW s \in Sockets
  PROVE  /\ publishing[s].message \in 0 .. MaxMessages
         /\ publishing[s].sides \in SUBSET Sides
         /\ publishing[s].aim \in SUBSET Sockets
<1>1. publishing[s] \in Publish
  BY DEF ChatTypeOK
<1> QED BY <1>1 DEF Publish

LEMMA NoPublishType == NoPublish \in Publish
  BY PublishTypes, ChatAssumption DEF NoPublish

LEMMA ChatInitType == ChatInit => ChatTypeOK
<1> SUFFICES ASSUME ChatInit PROVE ChatTypeOK
  OBVIOUS
<1>1. TypeOK
  BY InitInv DEF ChatInit, Inv
<1>2. publishing \in [Sockets -> Publish]
  BY NoPublishType DEF ChatInit
<1>3. messages \in Seq(Sides)
  BY EmptySeq DEF ChatInit
<1> QED BY <1>1, <1>2, <1>3 DEF ChatInit, ChatTypeOK, HandlerState

\* The end of a coroutine.
LEMMA EndsType ==
  ASSUME ChatTypeOK, NEW s \in Sockets, Ends(s)
  PROVE  /\ handler' \in [Sockets -> HandlerState]
         /\ link' \in [Sockets -> {"up", "left", "closed"}]
         /\ registered' \subseteq Sockets
         /\ publishing' \in [Sockets -> Publish]
         /\ owed' \in [Sockets -> SUBSET (1 .. MaxMessages)]
<1>1. \A t \in Sockets, o \in SUBSET Sides :
        Sending(publishing[t].message, publishing[t].sides \ o, publishing[t].aim) \in Publish
  BY PublishParts, PublishTypes
<1>2. publishing' \in [Sockets -> Publish]
  BY <1>1 DEF Ends
<1> QED BY <1>2 DEF Ends, Removed, ChatTypeOK, HandlerState

LEMMA ChatTypeStep == ChatTypeOK /\ [ChatNext]_vars => ChatTypeOK'
<1> SUFFICES ASSUME ChatTypeOK, [ChatNext]_vars PROVE ChatTypeOK'
  OBVIOUS
<1>0. TypeOK'
  BY StepIsAccess, TypeStep DEF ChatTypeOK
<1> USE <1>0 DEF ChatTypeOK, HandlerState
<1>1. CASE UNCHANGED vars
  BY <1>1 DEF vars, chatVars, socketVars, messageVars
<1>2. CASE Restart
  BY <1>2, NoPublishType DEF Restart
<1>3. ASSUME NEW r \in Requests, Endpoint(r) \/ Revocation(r) PROVE ChatTypeOK'
  <2>1. CASE Endpoint(r) \/ CloseDone(r)
    BY <2>1 DEF Endpoint, CloseDone, chatVars, socketVars, messageVars
  <2>2. ASSUME NEW t \in Sockets, Close(t) PROVE link' \in [Sockets -> {"up", "left", "closed"}]
    BY <2>2 DEF Close
  <2>3. CASE RevokeAndClose(r)
    BY <2>2, <2>3 DEF RevokeAndClose, ToClose, messageVars, Sockets
  <2>4. CASE CloseNext(r)
    BY <2>2, <2>4 DEF CloseNext, messageVars, Sockets
  <2>5. CASE RevokeUnclosed(r)
    BY <2>5 DEF RevokeUnclosed, socketVars, messageVars
  <2> QED BY <1>3, <2>1, <2>3, <2>4, <2>5 DEF Revocation
<1>4. ASSUME NEW s \in Sockets, Client(s) PROVE ChatTypeOK'
  BY <1>4 DEF Client, Connect, ClientLeaves, Frame, messageVars
<1>5. ASSUME NEW s \in Sockets, Coroutine(s) PROVE ChatTypeOK'
  <2>1. CASE Accepted(s)
    BY <2>1 DEF Accepted, Admit, Reject, HandshakeFails, messageVars
  <2>2. CASE HandlerEnds(s) \/ Refused(s)
    BY <2>2, EndsType DEF HandlerEnds, Refused
  <2>3. CASE InvalidFrame(s)
    BY <2>3, EndsType DEF InvalidFrame
  <2>4. CASE StoreMessage(s)
    <3>1. Len(messages) \in Nat /\ Len(messages) + 1 \in 1 .. MaxMessages
      BY <2>4, LenProperties, ChatAssumption DEF StoreMessage
    <3>2. messages' \in Seq(Sides)
      BY <2>4, AppendProperties DEF StoreMessage, SideOf, Sides
    <3>3. publishing' \in [Sockets -> Publish]
      <4>1. {SideOf(t) : t \in registered} \in SUBSET Sides
        BY DEF SideOf, Sides
      <4>2. Sending(Len(messages) + 1, {SideOf(t) : t \in registered}, {}) \in Publish
        BY <3>1, <4>1, PublishTypes
      <4> QED BY <2>4, <4>2 DEF StoreMessage
    <3>4. owed' \in [Sockets -> SUBSET (1 .. MaxMessages)]
      BY <2>4, <3>1 DEF StoreMessage
    <3> QED BY <2>4, <3>2, <3>3, <3>4 DEF StoreMessage
  <2>5. CASE ListSockets(s)
    <3>1. \A u \in Sides :
            Sending(publishing[s].message, publishing[s].sides \ {u}, SocketsOf(u) \cap registered)
              \in Publish
      BY PublishParts, PublishTypes
    <3>2. PICK u \in publishing[s].sides : publishing' = [publishing EXCEPT ![s] =
              Sending(@.message, @.sides \ {u}, SocketsOf(u) \cap registered)]
      BY <2>5 DEF ListSockets
    <3>3. u \in Sides
      BY PublishParts
    <3>4. publishing' \in [Sockets -> Publish]
      BY <3>1, <3>2, <3>3
    <3> QED BY <2>5, <3>4 DEF ListSockets, socketVars
  <2>6. CASE SendTo(s)
    <3>1. \A t \in Sockets :
            Sending(publishing[s].message, publishing[s].sides, publishing[s].aim \ {t}) \in Publish
      BY PublishParts, PublishTypes
    <3>2. publishing' \in [Sockets -> Publish]
      BY <2>6, <3>1, PublishParts DEF SendTo
    <3>3. \A t \in Sockets : owed[t] \in SUBSET (1 .. MaxMessages)
      OBVIOUS
    <3>4. owed' \in [Sockets -> SUBSET (1 .. MaxMessages)]
      <4>1. PICK t \in publishing[s].aim : owed' = [owed EXCEPT ![t] =
                IF link[t] = "up" THEN @ \ {publishing[s].message} ELSE @]
        BY <2>6 DEF SendTo
      <4>2. t \in Sockets
        BY PublishParts
      <4> QED BY <3>3, <4>1, <4>2
    <3> QED BY <2>6, <3>2, <3>4 DEF SendTo, socketVars
  <2>7. CASE PublishEnds(s)
    BY <2>7, NoPublishType DEF PublishEnds
  <2>8. CASE StoreUnheard(s)
    <3>1. messages' \in Seq(Sides)
      BY <2>8, AppendProperties DEF StoreUnheard, SideOf, Sides
    <3> QED BY <2>8, <3>1, EndsType DEF StoreUnheard
  <2> QED BY <1>5, <2>1, <2>2, <2>3, <2>4, <2>5, <2>6, <2>7, <2>8 DEF Coroutine
<1> QED BY <1>1, <1>2, <1>3, <1>4, <1>5 DEF ChatNext
----------------------------------------------------------------------------
(* The registry, the conversation's row and the coroutines at rest. *)

LEMMA EndsShape ==
  ASSUME ChatTypeOK, Shape, NEW s \in Sockets, Ends(s), conv' = conv,
         handler[s] # "new", handler[s] # "publishing"
  PROVE  Shape'
<1> USE DEF ChatTypeOK, Serving
<1>1. RegistryIsServing'
  BY DEF Shape, RegistryIsServing, Ends, Removed
<1>2. SocketsNeedConversation'
  BY DEF Shape, SocketsNeedConversation, Ends
<1>3. \A t \in Sockets : /\ publishing'[t].aim = publishing[t].aim
                         /\ publishing'[t].sides \subseteq publishing[t].sides
  BY DEF Ends, Sending
<1>4. Quiet'
  BY <1>3 DEF Shape, Quiet, Ends
<1> QED BY <1>1, <1>2, <1>4 DEF Shape

LEMMA ShapeStep == ChatTypeOK /\ Shape /\ [ChatNext]_vars => Shape'
<1> SUFFICES ASSUME ChatTypeOK, Shape, [ChatNext]_vars PROVE Shape'
  OBVIOUS
<1> USE DEF ChatTypeOK, Shape, RegistryIsServing, SocketsNeedConversation, Quiet, Serving
<1>1. CASE UNCHANGED vars
  BY <1>1 DEF vars, accessVars, chatVars, socketVars, messageVars
<1>2. CASE Restart
  BY <1>2 DEF Restart, Crash, Fails, NoPublish, Sending
<1>3. ASSUME NEW r \in Requests, Endpoint(r) \/ Revocation(r) PROVE Shape'
  <2>1. conv => conv'
    BY <1>3 DEF Endpoint, Revocation, AskWrite, Reask, AskNotify, DecideRead, ApproveWrite,
       DenyWrite, Decide, OpenConversation, RequestFails, RevokeAndClose, RevokeUnclosed, RevokeWrite, CloseNext,
       CloseDone, RevokeDone, accessVars
  <2>2. UNCHANGED <<handler, registered, publishing, owed>>
    BY <1>3 DEF Endpoint, Revocation, RevokeAndClose, RevokeUnclosed, CloseNext, CloseDone, chatVars,
       socketVars, messageVars
  <2> QED BY <2>1, <2>2
<1>4. ASSUME NEW s \in Sockets, Client(s) PROVE Shape'
  BY <1>4 DEF Client, Connect, ClientLeaves, Frame, messageVars, accessVars
<1>5. ASSUME NEW s \in Sockets, Coroutine(s) PROVE Shape'
  <2>1. CASE Accepted(s)
    BY <2>1 DEF Accepted, Admit, Reject, HandshakeFails, messageVars, accessVars
  <2>2. CASE HandlerEnds(s) \/ Refused(s) \/ StoreUnheard(s)
    BY <2>2, EndsShape DEF HandlerEnds, Refused, StoreUnheard, accessVars
  <2>3. CASE InvalidFrame(s)
    <3>1. CASE Ends(s)
      BY <2>3, <3>1, EndsShape DEF InvalidFrame, accessVars
    <3>2. CASE ~Ends(s)
      BY <2>3, <3>2 DEF InvalidFrame, accessVars
    <3> QED BY <3>1, <3>2
  <2>4. CASE StoreMessage(s)
    BY <2>4 DEF StoreMessage, accessVars
  <2>5. CASE ListSockets(s)
    BY <2>5 DEF ListSockets, accessVars, socketVars
  <2>6. CASE SendTo(s)
    <3>1. PICK t \in publishing[s].aim : owed' = [owed EXCEPT ![t] =
                IF link[t] = "up" THEN @ \ {publishing[s].message} ELSE @]
      BY <2>6 DEF SendTo
    <3>2. \A u \in Sockets : owed[u] = {} => owed'[u] = {}
      BY <3>1
    <3> QED BY <2>6, <3>2 DEF SendTo, accessVars, socketVars
  <2>7. CASE PublishEnds(s)
    BY <2>7 DEF PublishEnds, NoPublish, Sending, accessVars
  <2> QED BY <1>5, <2>1, <2>2, <2>3, <2>4, <2>5, <2>6, <2>7 DEF Coroutine
<1> QED BY <1>1, <1>2, <1>3, <1>4, <1>5 DEF ChatNext

----------------------------------------------------------------------------
(* Revocation. *)


\* A coroutine or a client gets no buyer's socket past the handshake unless the
\* access is approved at that moment.
LEMMA SocketStep ==
  ASSUME ChatTypeOK, NEW s \in Sockets, Client(s) \/ Coroutine(s)
  PROVE  /\ UNCHANGED <<row, closing, missed>>
         /\ \A t \in BuyerSockets : Live(t)' => Live(t) \/ row = "approved"
<1> USE DEF ChatTypeOK, Serving, Live, accessVars, Sockets
<1>1. CASE Accepted(s)
  BY <1>1, ChatAssumption DEF Accepted, Admit, Reject, HandshakeFails, HasRole
<1>2. CASE Client(s)
  BY <1>2 DEF Client, Connect, ClientLeaves, Frame
<1>3. CASE HandlerEnds(s) \/ Refused(s) \/ InvalidFrame(s) \/ StoreUnheard(s)
  BY <1>3 DEF HandlerEnds, Refused, InvalidFrame, StoreUnheard, Ends
<1>4. CASE StoreMessage(s) \/ ListSockets(s) \/ SendTo(s) \/ PublishEnds(s)
  BY <1>4 DEF StoreMessage, ListSockets, SendTo, PublishEnds, socketVars
<1> QED BY <1>1, <1>2, <1>3, <1>4 DEF Coroutine

LEMMA RevokedStep ==
  ASSUME ChatTypeOK, Shape, RevokedIsClosed, [ChatNext]_vars
  PROVE  RevokedIsClosed'
<1> USE DEF ChatTypeOK, RevokedIsClosed, Live, Serving, Sockets
<1>1. CASE UNCHANGED vars
  BY <1>1 DEF vars, accessVars, chatVars, socketVars
<1>2. CASE Restart
  BY <1>2 DEF Restart
<1>3. ASSUME NEW r \in Requests, Endpoint(r) \/ RevokeUnclosed(r) PROVE RevokedIsClosed'
  <2>1. Endpoint(r) /\ row' = "revoked" => row = "revoked"
    BY DEF Endpoint, AskWrite, Reask, AskNotify, DecideRead, ApproveWrite, DenyWrite,
       Decide, To, OpenConversation, RequestFails
  <2> QED BY <1>3, <2>1 DEF Endpoint, RevokeUnclosed, chatVars, socketVars
<1>4. ASSUME NEW r \in Requests, RevokeAndClose(r) PROVE RevokedIsClosed'
  <2>1. ASSUME NEW s \in BuyerSockets, Live(s)' PROVE s \in closing'[r]
    <3>1. Live(s)
      BY <1>4, <2>1 DEF RevokeAndClose, Close
    <3>2. conv /\ s \in ToClose
      BY <3>1 DEF Shape, RegistryIsServing, SocketsNeedConversation, ToClose
    <3>3. PICK t \in ToClose : Close(t) /\ closing' = [closing EXCEPT ![r] = ToClose \ {t}]
      BY <1>4, <3>2 DEF RevokeAndClose
    <3>4. s # t
      BY <2>1, <3>1, <3>3 DEF Close
    <3> QED BY <3>2, <3>3, <3>4
  <2> QED BY <2>1
<1>5. ASSUME NEW r \in Requests, CloseNext(r) PROVE RevokedIsClosed'
  <2>1. PICK t \in closing[r] : Close(t) /\ closing' = [closing EXCEPT ![r] = @ \ {t}]
    BY <1>5 DEF CloseNext
  <2>2. ASSUME NEW s \in BuyerSockets, Live(s)', row' = "revoked", ~missed'
        PROVE  \E q \in Requests : s \in closing'[q]
    <3>1. Live(s) /\ row = "revoked" /\ ~missed
      BY <1>5, <2>1, <2>2 DEF CloseNext, Close, accessVars
    <3>2. s # t
      BY <2>1, <2>2, <3>1 DEF Close
    <3>3. PICK q \in Requests : s \in closing[q]
      BY <3>1
    <3>4. s \in closing'[q]
      BY <2>1, <3>2, <3>3
    <3> QED BY <3>4
  <2> QED BY <2>2
<1>6. ASSUME NEW r \in Requests, CloseDone(r) PROVE RevokedIsClosed'
  BY <1>6 DEF CloseDone, RevokeDone, chatVars, socketVars
<1>7. ASSUME NEW s \in Sockets, Client(s) \/ Coroutine(s) PROVE RevokedIsClosed'
  BY <1>7, SocketStep
<1> QED BY <1>1, <1>2, <1>3, <1>4, <1>5, <1>6, <1>7 DEF ChatNext, Revocation
----------------------------------------------------------------------------
(* Delivery. *)

\* By the value p of publishing, coroutine t has message m still to send to
\* socket s.
SentBy(p, t, s, m) ==
    /\ p[t].message = m
    /\ s \in p[t].aim \/ SideOf(s) \in p[t].sides

\* The end of a coroutine takes no message off its way to another open socket.
LEMMA EndsHear ==
  ASSUME ChatTypeOK, Shape, OpenSocketsHear, NEW s \in Sockets, Ends(s)
  PROVE  OpenSocketsHear'
<1> USE DEF ChatTypeOK
<1> SUFFICES ASSUME NEW u \in Sockets, Live(u)', NEW m \in owed'[u]
             PROVE  \E t \in Sockets : SentBy(publishing', t, u, m)
  BY DEF OpenSocketsHear, SentBy
<1>1. u # s /\ Live(u) /\ m \in owed[u]
  BY DEF Live, Ends, Serving
<1>2. PICK t \in Sockets : SentBy(publishing, t, u, m)
  BY <1>1 DEF OpenSocketsHear, SentBy
<1>3. u \in SocketsOf(SideOf(u)) \cap registered'
  BY <1>1 DEF Shape, RegistryIsServing, Live, SocketsOf, Ends, Removed
<1>4. SideOf(u) \in publishing[t].sides => SideOf(u) \in publishing'[t].sides
  BY <1>3 DEF Ends, Sending
<1>5. publishing'[t].message = publishing[t].message /\ publishing'[t].aim = publishing[t].aim
  BY DEF Ends, Sending
<1> QED BY <1>2, <1>4, <1>5 DEF SentBy

\* A step after which no more sockets are open or owed, and no coroutine has
\* less to do, keeps the messages on their way.
LEMMA SameHear ==
  ASSUME OpenSocketsHear, UNCHANGED publishing,
         \A s \in Sockets : Live(s)' => Live(s) \/ owed'[s] = {},
         \A s \in Sockets : owed'[s] \subseteq owed[s]
  PROVE  OpenSocketsHear'
  BY DEF OpenSocketsHear

LEMMA HearStep ==
  ASSUME ChatTypeOK, Shape, OpenSocketsHear, [ChatNext]_vars
  PROVE  OpenSocketsHear'
<1> USE DEF ChatTypeOK
<1>1. CASE UNCHANGED vars
  BY <1>1, SameHear DEF vars, accessVars, chatVars, socketVars, messageVars, Live
<1>2. CASE Restart
  BY <1>2 DEF Restart, OpenSocketsHear, Live, Serving
<1>3. ASSUME NEW r \in Requests, Endpoint(r) \/ Revocation(r) PROVE OpenSocketsHear'
  <2>1. UNCHANGED <<handler, publishing, owed>>
    BY <1>3 DEF Endpoint, Revocation, RevokeAndClose, RevokeUnclosed, CloseNext, CloseDone, chatVars,
       socketVars, messageVars
  <2>2. \A s \in Sockets : link'[s] = "up" => link[s] = "up"
    BY <1>3 DEF Endpoint, Revocation, RevokeAndClose, RevokeUnclosed, CloseNext, CloseDone, chatVars,
       socketVars, Close, ToClose
  <2> QED BY <2>1, <2>2, SameHear DEF Live
<1>4. ASSUME NEW s \in Sockets, Client(s) PROVE OpenSocketsHear'
  BY <1>4, SameHear DEF Client, Connect, ClientLeaves, Frame, messageVars, Live, Serving
<1>5. ASSUME NEW s \in Sockets, Coroutine(s) PROVE OpenSocketsHear'
  <2>1. CASE Accepted(s)
    <3>1. owed[s] = {}
      BY <2>1 DEF Accepted, Admit, Reject, HandshakeFails, Shape, Quiet, Serving
    <3> QED BY <2>1, <3>1, SameHear DEF Accepted, Admit, Reject, HandshakeFails, messageVars, Live, Serving
  <2>2. CASE HandlerEnds(s) \/ Refused(s) \/ StoreUnheard(s)
    BY <2>2, EndsHear DEF HandlerEnds, Refused, StoreUnheard
  <2>3. CASE InvalidFrame(s)
    <3>1. CASE Ends(s)
      BY <3>1, EndsHear
    <3>2. CASE ~Ends(s)
      BY <2>3, <3>2, SameHear DEF InvalidFrame, Live, Serving
    <3> QED BY <3>1, <3>2
  <2>4. CASE StoreMessage(s)
    <3> DEFINE n == Len(messages) + 1
    <3> SUFFICES ASSUME NEW u \in Sockets, Live(u)', NEW m \in owed'[u]
                 PROVE  \E t \in Sockets : SentBy(publishing', t, u, m)
      BY DEF OpenSocketsHear, SentBy
    <3>1. /\ publishing'[s].message = n
          /\ publishing'[s].sides = {SideOf(t) : t \in registered}
          /\ \A t \in Sockets \ {s} : publishing'[t] = publishing[t]
      BY <2>4 DEF StoreMessage, Sending
    <3>2. Live(u) /\ u \in registered
      BY <2>4 DEF StoreMessage, Live, Serving, Shape, RegistryIsServing
    <3>3. CASE m = n
      BY <3>1, <3>2, <3>3 DEF SentBy
    <3>4. CASE m # n
      <4>1. m \in owed[u]
        BY <2>4, <3>4 DEF StoreMessage
      <4>2. PICK t \in Sockets : SentBy(publishing, t, u, m)
        BY <3>2, <4>1 DEF OpenSocketsHear, SentBy
      <4>3. t # s
        BY <2>4, <4>2 DEF StoreMessage, Shape, Quiet, SentBy
      <4> QED BY <3>1, <4>2, <4>3 DEF SentBy
    <3> QED BY <3>3, <3>4
  <2>5. CASE ListSockets(s)
    <3>1. PICK v \in publishing[s].sides : publishing' = [publishing EXCEPT ![s] =
              Sending(@.message, @.sides \ {v}, SocketsOf(v) \cap registered)]
      BY <2>5 DEF ListSockets
    <3>2. /\ publishing'[s].message = publishing[s].message
          /\ publishing'[s].sides = publishing[s].sides \ {v}
          /\ publishing'[s].aim = SocketsOf(v) \cap registered
          /\ \A t \in Sockets \ {s} : publishing'[t] = publishing[t]
      BY <3>1 DEF Sending
    <3> SUFFICES ASSUME NEW u \in Sockets, Live(u)', NEW m \in owed'[u]
                 PROVE  \E t \in Sockets : SentBy(publishing', t, u, m)
      BY DEF OpenSocketsHear, SentBy
    <3>3. Live(u) /\ m \in owed[u] /\ u \in SocketsOf(SideOf(u)) \cap registered
      BY <2>5 DEF ListSockets, socketVars, Live, Shape, RegistryIsServing, SocketsOf
    <3>4. PICK t \in Sockets : SentBy(publishing, t, u, m)
      BY <3>3 DEF OpenSocketsHear, SentBy
    <3>5. CASE t = s
      <4>1. SideOf(u) \in publishing[s].sides
        BY <2>5, <3>4, <3>5 DEF ListSockets, SentBy
      <4> QED BY <3>2, <3>3, <3>4, <3>5, <4>1 DEF SentBy
    <3>6. CASE t # s
      BY <3>2, <3>4, <3>6 DEF SentBy
    <3> QED BY <3>5, <3>6
  <2>6. CASE SendTo(s)
    <3>1. PICK v \in publishing[s].aim :
            /\ publishing' = [publishing EXCEPT ![s] =
                  Sending(@.message, @.sides, @.aim \ {v})]
            /\ owed' = [owed EXCEPT ![v] =
                  IF link[v] = "up" THEN @ \ {publishing[s].message} ELSE @]
      BY <2>6 DEF SendTo
    <3>2. v \in Sockets
      BY PublishParts
    <3>3. /\ publishing'[s].message = publishing[s].message
          /\ publishing'[s].sides = publishing[s].sides
          /\ publishing'[s].aim = publishing[s].aim \ {v}
          /\ \A t \in Sockets \ {s} : publishing'[t] = publishing[t]
      BY <3>1 DEF Sending
    <3> SUFFICES ASSUME NEW u \in Sockets, Live(u)', NEW m \in owed'[u]
                 PROVE  \E t \in Sockets : SentBy(publishing', t, u, m)
      BY DEF OpenSocketsHear, SentBy
    <3>4. Live(u) /\ m \in owed[u] /\ (u = v => m # publishing[s].message)
      BY <2>6, <3>1, <3>2 DEF SendTo, socketVars, Live
    <3>5. PICK t \in Sockets : SentBy(publishing, t, u, m)
      BY <3>4 DEF OpenSocketsHear, SentBy
    <3>6. CASE t = s
      BY <3>3, <3>4, <3>5, <3>6 DEF SentBy
    <3>7. CASE t # s
      BY <3>3, <3>5, <3>7 DEF SentBy
    <3> QED BY <3>6, <3>7
  <2>7. CASE PublishEnds(s)
    <3>1. \A t \in Sockets \ {s} : publishing'[t] = publishing[t]
      BY <2>7 DEF PublishEnds
    <3> SUFFICES ASSUME NEW u \in Sockets, Live(u)', NEW m \in owed'[u]
                 PROVE  \E t \in Sockets : SentBy(publishing', t, u, m)
      BY DEF OpenSocketsHear, SentBy
    <3>2. Live(u) /\ m \in owed[u]
      BY <2>7 DEF PublishEnds, Live, Serving
    <3>3. PICK t \in Sockets : SentBy(publishing, t, u, m)
      BY <3>2 DEF OpenSocketsHear, SentBy
    <3>4. t # s
      BY <2>7, <3>3 DEF PublishEnds, SentBy
    <3> QED BY <3>1, <3>3, <3>4 DEF SentBy
  <2> QED BY <1>5, <2>1, <2>2, <2>3, <2>4, <2>5, <2>6, <2>7 DEF Coroutine
<1> QED BY <1>1, <1>2, <1>3, <1>4, <1>5 DEF ChatNext

----------------------------------------------------------------------------
LEMMA ChatInitInv == ChatInit => ChatInv
<1> SUFFICES ASSUME ChatInit PROVE ChatInv
  OBVIOUS
<1>1. ChatTypeOK
  BY ChatInitType
<1>2. Shape
  BY DEF ChatInit, Shape, RegistryIsServing, SocketsNeedConversation, Quiet, Serving,
     NoPublish, Sending
<1>3. RevokedIsClosed /\ OpenSocketsHear
  BY DEF ChatInit, RevokedIsClosed, OpenSocketsHear, Live, Serving, Sockets
<1> QED BY <1>1, <1>2, <1>3 DEF ChatInv

LEMMA ChatNextInv == ChatInv /\ [ChatNext]_vars => ChatInv'
  BY ChatTypeStep, ShapeStep, RevokedStep, HearStep DEF ChatInv

LEMMA ChatInvHolds == ChatSpec => []ChatInv
  BY ChatInitInv, ChatNextInv, PTL DEF ChatSpec

\* Sockets, coroutines and the registry stay well formed.
THEOREM ChatTypeCorrect == ChatSpec => []ChatTypeOK
  BY ChatInvHolds, PTL DEF ChatInv

\* After a revocation no socket of the buyer stays open but those it is about
\* to close: the second look at the role, right after registering, is what
\* covers a handshake that the revocation overtakes.
THEOREM RevocationCloses == ChatSpec => []RevokedIsClosed
  BY ChatInvHolds, PTL DEF ChatInv

\* However publishes, arrivals and departures interleave at the awaits, a
\* message stored while a socket is open reaches it or is on its way.
THEOREM MessagesReach == ChatSpec => []OpenSocketsHear
  BY ChatInvHolds, PTL DEF ChatInv

\* While no publish is under way nothing is owed: whoever is open has been sent
\* every message stored since.
THEOREM NothingOwedAtRest ==
    ChatSpec => []((\A t \in Sockets : handler[t] # "publishing")
                   => \A s \in Sockets : Live(s) => owed[s] = {})
<1>1. ChatInv => ((\A t \in Sockets : handler[t] # "publishing")
                  => \A s \in Sockets : Live(s) => owed[s] = {})
  <2> SUFFICES ASSUME ChatInv, \A t \in Sockets : handler[t] # "publishing",
                      NEW s \in Sockets, Live(s), owed[s] # {}
               PROVE  FALSE
    OBVIOUS
  <2>1. PICK m \in owed[s], t \in Sockets :
            s \in publishing[t].aim \/ SideOf(s) \in publishing[t].sides
    BY DEF ChatInv, OpenSocketsHear
  <2> QED BY <2>1 DEF ChatInv, Shape, Quiet
<1> QED BY <1>1, ChatInvHolds, PTL

\* The registry holds every socket that is being served, and of those that no
\* longer are only the ones whose handshake failed between registering and the
\* try (chat.py:87, 96, 108): these no "disconnect handler" of chat_broker.py:64
\* cleans up, and they stay until a restart.
THEOREM RegistryIsExact == ChatSpec => []RegistryIsServing
  BY ChatInvHolds, PTL DEF ChatInv, Shape

----------------------------------------------------------------------------
(* The room, and what a revocation still lets through. *)

\* A coroutine or a client lets nobody in but its own socket, and only while the
\* access is approved.
LEMMA PresentStep ==
  ASSUME ChatTypeOK, NEW s \in Sockets, Client(s) \/ Coroutine(s)
  PROVE  Present' \subseteq Present \/ (row = "approved" /\ Present' = Present \cup {s})
<1> USE DEF ChatTypeOK, Serving, Live, accessVars, Sockets, Present
<1>1. CASE Accepted(s)
  BY <1>1, ChatAssumption DEF Accepted, Admit, Reject, HandshakeFails, HasRole
<1>2. CASE Client(s)
  BY <1>2 DEF Client, Connect, ClientLeaves, Frame
<1>3. CASE HandlerEnds(s) \/ Refused(s) \/ InvalidFrame(s) \/ StoreUnheard(s)
  BY <1>3 DEF HandlerEnds, Refused, InvalidFrame, StoreUnheard, Ends
<1>4. CASE StoreMessage(s) \/ ListSockets(s) \/ SendTo(s) \/ PublishEnds(s)
  BY <1>4 DEF StoreMessage, ListSockets, SendTo, PublishEnds, socketVars
<1> QED BY <1>1, <1>2, <1>3, <1>4 DEF Coroutine

\* The moves of a request when no decision is stale.
SerialMove ==
    \/ row' = row /\ trail' = trail
    \/ row = "none" /\ row' = "requested"
    \/ row = "requested" /\ row' \in {"approved", "denied"}
    \/ row = "approved" /\ row' = "revoked"

LEMMA AppendGrows ==
  ASSUME NEW S, NEW q \in Seq(S), NEW e \in S
  PROVE  Append(q, e) # q
  BY AppendProperties, LenProperties

LEMMA SerialMoves == [SerialNext]_accessVars => SerialMove
<1> SUFFICES ASSUME [SerialNext]_accessVars PROVE SerialMove
  OBVIOUS
<1> USE DEF SerialMove
<1>1. CASE UNCHANGED accessVars \/ Crash
  BY <1>1 DEF accessVars, Crash
<1>2. ASSUME NEW r \in Requests, Current(r), Step(r) PROVE SerialMove
  <2>1. CASE AskWrite(r)
    BY <2>1 DEF AskWrite, Reask
  <2>2. CASE ApproveWrite(r) \/ DenyWrite(r) \/ RevokeWrite(r)
    BY <1>2, <2>2 DEF Current, ApproveWrite, DenyWrite, RevokeWrite, Decide, Decision, From, To
  <2>3. CASE AskNotify(r) \/ OpenConversation(r) \/ RevokeDone(r) \/ RequestFails(r)
             \/ \E d \in Decision : DecideRead(r, d)
    BY <2>3 DEF AskNotify, OpenConversation, RevokeDone, RequestFails, DecideRead
  <2> QED BY <1>2, <2>1, <2>2, <2>3 DEF Step
<1> QED BY <1>1, <1>2 DEF SerialNext

\* The sockets a revocation lists are all that the buyer has open.
LEMMA RevocationEmpties ==
  ASSUME ChatTypeOK, Shape, NEW r \in Requests, RevokeAndClose(r)
  PROVE  Present' = {}
<1> USE DEF ChatTypeOK, Live, Serving, Sockets
<1> SUFFICES ASSUME NEW s \in BuyerSockets, Live(s)' PROVE s \in closing'[r]
  BY DEF Present
<1>1. Live(s)
  BY DEF RevokeAndClose, Close
<1>2. conv /\ s \in ToClose
  BY <1>1 DEF Shape, RegistryIsServing, SocketsNeedConversation, ToClose
<1>3. PICK t \in ToClose : Close(t) /\ closing' = [closing EXCEPT ![r] = ToClose \ {t}]
  BY <1>2 DEF RevokeAndClose
<1>4. s # t
  BY <1>1, <1>3 DEF Close
<1> QED BY <1>2, <1>3, <1>4

\* What is taken off a revocation's list is closed by then.
LEMMA CloseKeepsOut ==
  ASSUME ChatTypeOK, NEW r \in Requests, CloseNext(r)
  PROVE  Present' \subseteq Present /\ UNCHANGED row
<1> USE DEF ChatTypeOK, Live, Serving, Sockets
<1>1. PICK t \in closing[r] : Close(t) /\ closing' = [closing EXCEPT ![r] = @ \ {t}]
  BY DEF CloseNext
<1>2. UNCHANGED <<row, handler>>
  BY DEF CloseNext, accessVars
<1>3. ASSUME NEW s \in Present' PROVE s \in Present
  <2>1. s \in BuyerSockets /\ Live(s)' /\ \A q \in Requests : s \notin closing'[q]
    BY <1>3 DEF Present
  <2>2. Live(s) /\ s # t
    BY <1>1, <1>2, <2>1 DEF Close
  <2>3. \A q \in Requests : s \notin closing[q]
    BY <1>1, <2>1, <2>2
  <2> QED BY <2>1, <2>2, <2>3 DEF Present
<1> QED BY <1>2, <1>3

LEMMA RoomStep ==
  ASSUME ChatTypeOK, Shape, [ChatNext /\ [SerialNext]_accessVars]_vars
  PROVE  [Room!Next]_(Room!vars)
<1> USE DEF Room!Next, Room!vars, ChatTypeOK
<1>1. CASE UNCHANGED vars
  BY <1>1 DEF vars, accessVars, chatVars, socketVars, Present, Live, Standing
<1>2. ASSUME Present' \subseteq Present, UNCHANGED Standing PROVE Room!Next
  BY <1>2 DEF Room!Leave
<1>3. CASE Restart
  <2>1. Present' = {} /\ UNCHANGED Standing
    BY <1>3 DEF Restart, Crash, Present, Live, Serving, Sockets, Standing
  <2> QED BY <1>2, <2>1
<1>4. ASSUME NEW r \in Requests, Endpoint(r), SerialMove PROVE [Room!Next]_(Room!vars)
  <2>1. UNCHANGED <<Present, missed>>
    BY <1>4 DEF Endpoint, chatVars, socketVars, Present, Live
  <2>2. row' = "revoked" => row = "revoked"
    BY <1>4 DEF Endpoint, AskWrite, Reask, AskNotify, DecideRead, ApproveWrite, DenyWrite,
       Decide, To, OpenConversation, RequestFails
  <2>3. CASE missed
    BY <2>1, <2>3 DEF Standing
  <2>4. CASE ~missed
    BY <1>4, <2>1, <2>2, <2>4 DEF SerialMove, Standing, Room!Ask, Room!Admit, Room!Refuse,
       Room!Moves
  <2> QED BY <2>3, <2>4
<1>5. ASSUME NEW r \in Requests, RevokeAndClose(r), SerialMove PROVE Room!Next
  <2>1. Present' = {} /\ row' = "revoked" /\ UNCHANGED missed
    BY <1>5, RevocationEmpties DEF RevokeAndClose, RevokeWrite, Decide, To
  <2>2. CASE row = "revoked" \/ missed
    BY <1>2, <2>1, <2>2 DEF Standing
  <2>3. CASE row = "approved" /\ ~missed
    BY <2>1, <2>3 DEF Room!Expel, Room!Moves, Standing
  <2> QED BY <1>5, <2>1, <2>2, <2>3 DEF SerialMove
<1>6. ASSUME NEW r \in Requests, CloseNext(r) PROVE Room!Next
  <2>1. UNCHANGED missed
    BY <1>6 DEF CloseNext
  <2> QED BY <1>2, <1>6, <2>1, CloseKeepsOut DEF Standing
<1>7. ASSUME NEW r \in Requests, CloseDone(r) PROVE UNCHANGED Room!vars
  BY <1>7 DEF CloseDone, RevokeDone, chatVars, socketVars, Present, Live, Standing
<1>9. ASSUME NEW r \in Requests, RevokeUnclosed(r), SerialMove PROVE UNCHANGED Room!vars
  <2>1. UNCHANGED Present
    BY <1>9 DEF RevokeUnclosed, socketVars, Present, Live
  <2>2. row = "approved"
    BY <1>9, AppendGrows DEF RevokeUnclosed, RevokeWrite, Decide, To, Decision, TypeOK, SerialMove
  <2>3. missed' = TRUE
    BY <1>9 DEF RevokeUnclosed
  <2> QED BY <2>1, <2>2, <2>3 DEF Standing
<1>8. ASSUME NEW s \in Sockets, Client(s) \/ Coroutine(s) PROVE Room!Next
  <2>1. UNCHANGED <<row, missed, Standing>>
    BY <1>8, SocketStep DEF Standing
  <2>2. CASE Present' \subseteq Present
    BY <1>2, <2>1, <2>2
  <2>3. CASE row = "approved" /\ Present' = Present \cup {s} /\ s \in BuyerSockets
    BY <2>1, <2>3 DEF Room!Enter, Standing
  <2>4. s \notin BuyerSockets => s \notin Present'
    BY DEF Present
  <2> QED BY <1>8, <2>2, <2>3, <2>4, PresentStep
<1> QED BY <1>1, <1>3, <1>4, <1>5, <1>6, <1>7, <1>8, <1>9, SerialMoves DEF ChatNext, Revocation

LEMMA SerialChatInv == SerialChatSpec => []ChatInv
<1>1. ChatInv /\ [ChatNext /\ [SerialNext]_accessVars]_vars => ChatInv'
  BY ChatNextInv
<1> QED BY ChatInitInv, <1>1, PTL DEF SerialChatSpec

\* Without a stale decision the conversation keeps its contract with the seller:
\* nobody comes in who is not approved at that moment, and a revocation empties
\* the room in the step that commits it, however many sockets there are to close
\* and whoever is in a handshake.
THEOREM ConversationKeepsRoom == SerialChatSpec => KeepsRoom
<1>1. ChatInit => Room!Init
  BY DEF ChatInit, Init, Room!Init, Present, Live, Serving, Sockets, Standing
<1>2. ChatInv /\ [ChatNext /\ [SerialNext]_accessVars]_vars => [Room!Next]_(Room!vars)
  BY RoomStep DEF ChatInv
<1> QED BY <1>1, <1>2, SerialChatInv, PTL DEF SerialChatSpec, KeepsRoom, Room!Spec

LEMMA ContractMeans == Room!Spec => []Room!ApprovedInside
<1> USE DEF Room!ApprovedInside
<1>1. Room!Init => Room!ApprovedInside
  BY DEF Room!Init
<1>2. Room!ApprovedInside /\ [Room!Next]_(Room!vars) => Room!ApprovedInside'
  BY DEF Room!Next, Room!vars, Room!Ask, Room!Admit, Room!Refuse, Room!Expel, Room!Enter,
     Room!Leave, Room!Moves
<1> QED BY <1>1, <1>2, PTL DEF Room!Spec

\* Without a stale decision, whoever is in the room has an approval that stands,
\* or one whose revocation failed before it came to the sockets: a request denied
\* or not yet decided has no socket either (spec 006 F1).
THEOREM OnlyApprovedInside ==
    SerialChatSpec => [](Present # {} => row = "approved" \/ missed)
<1>1. Room!ApprovedInside => (Present # {} => row = "approved" \/ missed)
  BY DEF Room!ApprovedInside, Standing
<1> QED BY <1>1, ConversationKeepsRoom, ContractMeans, PTL DEF KeepsRoom

\* What is left of OnlyMembersTalk: a message of the buyer that is stored without
\* an approval came down a socket that is gone or that the revocation is about
\* to close, as a frame received before (chat.py on the frame loop), or after a
\* revocation that failed before it came to the sockets.
LateFramesOnly ==
    [][\A s \in BuyerSockets :
          StoreMessage(s) \/ StoreUnheard(s) =>
              row = "approved" \/ missed \/ s \notin Present]_vars

\* Without a stale decision no other message gets past a revocation.
THEOREM LateFrames == SerialChatSpec => LateFramesOnly
<1>1. (Present # {} => row = "approved" \/ missed)
      => [\A s \in BuyerSockets :
            StoreMessage(s) \/ StoreUnheard(s) =>
                row = "approved" \/ missed \/ s \notin Present]_vars
  OBVIOUS
<1> QED BY <1>1, OnlyApprovedInside, PTL DEF LateFramesOnly

\* The safe half of RevocationReaches, in every schedule: from a revocation on
\* the buyer's coroutines only come to an end.
ServedBuyers == {s \in BuyerSockets : handler[s] \in Serving}

RevokedOnlyLeave == [][row = "revoked" => ServedBuyers' \subseteq ServedBuyers]_vars

\* No buyer is served after a revocation who was not before, whatever races it
\* and even if it failed before it came to the sockets.
THEOREM RevokedStayOut == ChatSpec => RevokedOnlyLeave
<1> USE DEF ServedBuyers
<1>1. ASSUME ChatTypeOK, ChatNext, row = "revoked"
      PROVE  ServedBuyers' \subseteq ServedBuyers
  <2>1. CASE Restart
    BY <2>1 DEF Restart, Serving, Sockets
  <2>2. ASSUME NEW r \in Requests, Endpoint(r) \/ Revocation(r) PROVE UNCHANGED handler
    BY <2>2 DEF Endpoint, Revocation, RevokeAndClose, RevokeUnclosed, CloseNext, CloseDone,
       chatVars, socketVars
  <2>3. ASSUME NEW s \in Sockets, Client(s) \/ Coroutine(s)
        PROVE  ServedBuyers' \subseteq ServedBuyers
    <3> USE DEF Serving, ChatTypeOK, Sockets
    <3>1. CASE Accepted(s)
      BY <1>1, <3>1, ChatAssumption DEF Accepted, Admit, Reject, HandshakeFails, HasRole
    <3>2. CASE Client(s) \/ StoreMessage(s) \/ ListSockets(s) \/ SendTo(s) \/ PublishEnds(s)
      BY <1>1, <3>2 DEF Client, Connect, ClientLeaves, Frame, StoreMessage, ListSockets, SendTo,
         PublishEnds, socketVars
    <3>3. CASE HandlerEnds(s) \/ Refused(s) \/ InvalidFrame(s) \/ StoreUnheard(s)
      BY <1>1, <3>3 DEF HandlerEnds, Refused, InvalidFrame, StoreUnheard, Ends
    <3> QED BY <2>3, <3>1, <3>2, <3>3 DEF Coroutine
  <2> QED BY <1>1, <2>1, <2>2, <2>3 DEF ChatNext
<1>2. ChatInv /\ [ChatNext]_vars
      => [row = "revoked" => ServedBuyers' \subseteq ServedBuyers]_vars
  BY <1>1 DEF ChatInv
<1> QED BY <1>2, ChatInvHolds, PTL DEF ChatSpec, RevokedOnlyLeave
=============================================================================
