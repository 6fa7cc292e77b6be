-------------------------------- MODULE Chat --------------------------------
(***************************************************************************)
(* The conversation an approval opens, over the seller's decisions on the  *)
(* buyer's access (Access): the sockets of its two members, the coroutine  *)
(* that serves each (routers/chat.py), the registry the coroutines and the *)
(* revocation share (chat_broker.py), and the messages.                    *)
(*                                                                         *)
(* The coroutines share one event loop: what a handler does between two    *)
(* awaits is one step, and other handlers run at the awaits only.  The     *)
(* endpoints of Access other than the revocation run in threads and commit *)
(* between any two steps.                                                  *)
(*                                                                         *)
(* A socket connects once: a member who connects again uses another one.   *)
(***************************************************************************)
EXTENDS Access, FiniteSets

CONSTANTS
    BuyerSockets,      \* connections the buyer may make
    SellerSockets,     \* connections the seller may make
    MaxMessages        \* bound: rows of the message table

ASSUME ChatAssumption ==
    /\ BuyerSockets \cap SellerSockets = {}
    /\ MaxMessages \in Nat

VARIABLES
    handler,       \* where each socket's coroutine is
    link,          \* "up", "left" by the client or "closed" by the server
    registered,    \* the sockets in the broker's registry
    messages,      \* the message rows: which side sent each
    publishing,    \* the progress of each coroutine's broker.publish
    owed,          \* the messages stored for publication since a socket was
                   \* accepted that have not been sent down it
    closing,       \* the sockets each revocation has still to close
    missed         \* a revocation failed between its commit and close_user

socketVars  == <<handler, link, registered>>
messageVars == <<messages, publishing, owed>>
chatVars    == <<socketVars, messageVars, closing, missed>>
vars        == <<accessVars, chatVars>>

Sockets == BuyerSockets \cup SellerSockets
Sides   == {"buyer", "seller"}

SideOf(s)     == IF s \in BuyerSockets THEN "buyer" ELSE "seller"
SocketsOf(u)  == {s \in Sockets : SideOf(s) = u}

\* "accepting": in the await of accept(); "waiting": in that of receive_text();
\* "woken": a frame has been handed to it; "publishing": in an await of publish;
\* "failed": ended by an exception raised once registered, before the try whose
\* finally clause unregisters.
HandlerState == {"new", "accepting", "waiting", "woken", "publishing", "failed", "done"}

Serving == {"waiting", "woken", "publishing"}

\* publish has yet to list the sockets of the users in "sides"; it has listed,
\* and has yet to send to, the sockets in "aim".
Publish == [message : 0 .. MaxMessages, sides : SUBSET Sides, aim : SUBSET Sockets]

Sending(m, sides, aim) == [message |-> m, sides |-> sides, aim |-> aim]

NoPublish == Sending(0, {}, {})

\* Mutant of HasRole: the conversation's row alone names its members.
Named(s) == s \in SellerSockets \/ conv

\* conversation_role_for, read at the moment it is called.
HasRole(s) == s \in SellerSockets \/ row = "approved"

ChatInit ==
    /\ Init
    /\ handler = [s \in Sockets |-> "new"]
    /\ link = [s \in Sockets |-> "up"]
    /\ registered = {}
    /\ messages = <<>>
    /\ publishing = [s \in Sockets |-> NoPublish]
    /\ owed = [s \in Sockets |-> {}]
    /\ closing = [r \in Requests |-> {}]
    /\ missed = FALSE

----------------------------------------------------------------------------
(* The handshake. *)

Connect(s) ==
    /\ handler[s] = "new"
    /\ conv
    /\ HasRole(s)
    /\ handler' = [handler EXCEPT ![s] = "accepting"]
    /\ UNCHANGED <<accessVars, link, registered, messageVars, closing, missed>>

\* Mutant of Accepted: no second check of the role once registered.
Admit(s) ==
    /\ handler[s] = "accepting"
    /\ handler' = [handler EXCEPT ![s] = "waiting"]
    /\ registered' = registered \cup {s}
    /\ UNCHANGED <<accessVars, link, messageVars, closing, missed>>

Reject(s) ==
    /\ handler[s] = "accepting"
    /\ handler' = [handler EXCEPT ![s] = "done"]
    /\ link' = [link EXCEPT ![s] = "closed"]
    /\ UNCHANGED <<accessVars, registered, messageVars, closing, missed>>

\* The transactions of the chat that may still fail, on top of those of Access.
MayFail ==
    failures + Cardinality({s \in Sockets : handler[s] = "failed"}) < MaxFailures /\ ~missed

\* The second read of the role raises: the connection goes with the coroutine,
\* and nothing takes the socket out of the registry.
HandshakeFails(s) ==
    /\ handler[s] = "accepting"
    /\ MayFail
    /\ handler' = [handler EXCEPT ![s] = "failed"]
    /\ link' = [link EXCEPT ![s] = "closed"]
    /\ registered' = registered \cup {s}
    /\ UNCHANGED <<accessVars, messageVars, closing, missed>>

\* accept() returns: the socket is registered and the role read again, with no
\* await in between.
Accepted(s) ==
    \/ HasRole(s) /\ Admit(s)
    \/ ~HasRole(s) /\ Reject(s)
    \/ HandshakeFails(s)

ClientLeaves(s) ==
    /\ handler[s] # "new"
    /\ link[s] = "up"
    /\ link' = [link EXCEPT ![s] = "left"]
    /\ UNCHANGED <<accessVars, handler, registered, messageVars, closing, missed>>

----------------------------------------------------------------------------
(* The end of a coroutine: unregister, in its finally clause. *)

\* Mutant of Removed: the user's entry is dropped with any of its sockets.
WholeUser(s) == SocketsOf(SideOf(s))

\* What unregister takes out of the registry.
Removed(s) == {s}

\* A user whose last socket goes is popped from the registry; a publish that
\* had the user's set in its list finds it empty, even if the user is back.
Ends(s) ==
    LET rest == registered \ Removed(s)
        orphaned == {u \in Sides : SocketsOf(u) \cap rest = {}}
    IN /\ handler' = [handler EXCEPT ![s] = "done"]
       /\ link' = [link EXCEPT ![s] = "closed"]
       /\ registered' = rest
       /\ owed' = [owed EXCEPT ![s] = {}]
       /\ publishing' = [t \in Sockets |->
             Sending(publishing[t].message, publishing[t].sides \ orphaned, publishing[t].aim)]

\* receive_text raises: the disconnect arrives, or the socket was closed.
HandlerEnds(s) ==
    /\ handler[s] = "waiting"
    /\ link[s] # "up"
    /\ Ends(s)
    /\ UNCHANGED <<accessVars, messages, closing, missed>>

----------------------------------------------------------------------------
(* A frame. *)

\* Frames queued before the client left are delivered before its disconnect;
\* none is after the server closed.
Frame(s) ==
    /\ handler[s] = "waiting"
    /\ link[s] # "closed"
    /\ handler' = [handler EXCEPT ![s] = "woken"]
    /\ UNCHANGED <<accessVars, link, registered, messageVars, closing, missed>>

\* The frame is over the rate limit, or its transaction fails: the coroutine
\* closes the socket and ends.
Refused(s) ==
    /\ handler[s] = "woken"
    /\ Ends(s)
    /\ UNCHANGED <<accessVars, messages, closing, missed>>

\* An invalid frame is answered with an error: back to receive_text, or out by
\* the exception that sending on a socket known to be gone raises.
InvalidFrame(s) ==
    /\ handler[s] = "woken"
    /\ \/ link[s] # "up" /\ Ends(s)
       \/ /\ link[s] # "closed"
          /\ handler' = [handler EXCEPT ![s] = "waiting"]
          /\ UNCHANGED <<link, registered, publishing, owed>>
    /\ UNCHANGED <<accessVars, messages, closing, missed>>

\* The message commits, with the notification of it, and publish takes the list of the registry's users.
\* Nothing here asks whether the sender still has a role.
StoreMessage(s) ==
    /\ handler[s] = "woken"
    /\ Len(messages) < MaxMessages
    /\ handler' = [handler EXCEPT ![s] = "publishing"]
    /\ messages' = Append(messages, SideOf(s))
    /\ publishing' = [publishing EXCEPT ![s] =
          Sending(Len(messages) + 1, {SideOf(t) : t \in registered}, {})]
    /\ owed' = [t \in Sockets |->
          IF handler[t] \in Serving THEN owed[t] \cup {Len(messages) + 1} ELSE owed[t]]
    /\ UNCHANGED <<accessVars, link, registered, closing, missed>>

\* The message commits and reading it back fails: it is in the history, and is
\* never published.
StoreUnheard(s) ==
    /\ handler[s] = "woken"
    /\ Len(messages) < MaxMessages
    /\ messages' = Append(messages, SideOf(s))
    /\ Ends(s)
    /\ UNCHANGED <<accessVars, closing, missed>>

\* publish comes to the next user of its list, and lists the user's sockets.
ListSockets(s) ==
    /\ handler[s] = "publishing"
    /\ publishing[s].aim = {}
    /\ \E u \in publishing[s].sides :
         publishing' = [publishing EXCEPT ![s] =
              Sending(@.message, @.sides \ {u}, SocketsOf(u) \cap registered)]
    /\ UNCHANGED <<accessVars, socketVars, messages, owed, closing, missed>>

\* A send to a socket that is gone fails, and the failure is ignored.
SendTo(s) ==
    /\ handler[s] = "publishing"
    /\ \E t \in publishing[s].aim :
         /\ publishing' = [publishing EXCEPT ![s] =
               Sending(@.message, @.sides, @.aim \ {t})]
         /\ owed' = [owed EXCEPT ![t] = IF link[t] = "up"
                                        THEN @ \ {publishing[s].message} ELSE @]
    /\ UNCHANGED <<accessVars, socketVars, messages, closing, missed>>

PublishEnds(s) ==
    /\ handler[s] = "publishing"
    /\ publishing[s].aim = {}
    /\ publishing[s].sides = {}
    /\ handler' = [handler EXCEPT ![s] = "waiting"]
    /\ publishing' = [publishing EXCEPT ![s] = NoPublish]
    /\ UNCHANGED <<accessVars, link, registered, messages, owed, closing, missed>>

----------------------------------------------------------------------------
(* Revocation, live: close_user. *)

\* Mutant of ToClose: the revocation closes the whole conversation.
Everyone == registered

\* The sockets close_user lists: no await separates this from the commit.
ToClose == BuyerSockets \cap registered

Close(t) == link' = [link EXCEPT ![t] = IF @ = "up" THEN "closed" ELSE @]

\* The revocation commits, lists the buyer's sockets and closes the first one
\* without an await.
RevokeAndClose(r) ==
    /\ RevokeWrite(r)
    /\ IF conv /\ ToClose # {}
       THEN \E t \in ToClose :
              /\ Close(t)
              /\ closing' = [closing EXCEPT ![r] = ToClose \ {t}]
       ELSE UNCHANGED <<link, closing>>
    /\ UNCHANGED <<handler, registered, messageVars, missed>>

\* The revocation commits, and the read that follows it fails, of the row or of
\* the conversation: the request is over and has closed nothing.
RevokeUnclosed(r) ==
    /\ conv
    /\ MayFail
    /\ RevokeWrite(r)
    /\ missed' = TRUE
    /\ UNCHANGED <<socketVars, messageVars, closing>>

\* After each await of close() the loop goes on to the next socket.
CloseNext(r) ==
    /\ \E t \in closing[r] :
         /\ Close(t)
         /\ closing' = [closing EXCEPT ![r] = @ \ {t}]
    /\ UNCHANGED <<accessVars, handler, registered, messageVars, missed>>

CloseDone(r) == closing[r] = {} /\ RevokeDone(r) /\ UNCHANGED chatVars

----------------------------------------------------------------------------
\* A restart loses every connection and the registry, which is in memory.
Restart ==
    /\ Crash
    /\ handler' = [s \in Sockets |-> IF handler[s] = "new" THEN "new" ELSE "done"]
    /\ link' = [s \in Sockets |-> IF handler[s] = "new" THEN "up" ELSE "closed"]
    /\ registered' = {}
    /\ publishing' = [s \in Sockets |-> NoPublish]
    /\ owed' = [s \in Sockets |-> {}]
    /\ closing' = [r \in Requests |-> {}]
    /\ UNCHANGED <<messages, missed>>

\* The endpoints that run in threads.
Endpoint(r) ==
    /\ \/ AskWrite(r)
       \/ AskNotify(r)
       \/ \E d \in Decision : DecideRead(r, d)
       \/ ApproveWrite(r)
       \/ DenyWrite(r)
       \/ OpenConversation(r)
       \/ RequestFails(r)
    /\ UNCHANGED chatVars

Revocation(r) == RevokeAndClose(r) \/ RevokeUnclosed(r) \/ CloseNext(r) \/ CloseDone(r)

Client(s) == Connect(s) \/ ClientLeaves(s) \/ Frame(s)

Coroutine(s) ==
    \/ Accepted(s)
    \/ HandlerEnds(s)
    \/ Refused(s)
    \/ InvalidFrame(s)
    \/ StoreMessage(s)
    \/ StoreUnheard(s)
    \/ ListSockets(s)
    \/ SendTo(s)
    \/ PublishEnds(s)

ChatNext ==
    \/ Restart
    \/ \E r \in Requests : Endpoint(r) \/ Revocation(r)
    \/ \E s \in Sockets : Client(s) \/ Coroutine(s)

ChatSpec == ChatInit /\ [][ChatNext]_vars

\* The event loop runs every coroutine that is ready: an await of accept, send
\* or close returns, and so does one of receive on a socket that is gone, after
\* the finitely many frames queued before the client left.
EventLoop ==
    /\ \A s \in Sockets : WF_vars(Coroutine(s)) /\ SF_vars(HandlerEnds(s))
    /\ \A r \in Requests : WF_vars(CloseNext(r) \/ CloseDone(r))

FairChatSpec == ChatSpec /\ EventLoop

\* The schedules in which no decision is written after the status it read has
\* changed (SerialSpec of Access), with everything else as it was.
SerialChatSpec == ChatInit /\ [][ChatNext /\ [SerialNext]_accessVars]_vars

----------------------------------------------------------------------------
\* Every coroutine, socket and row has its type.
ChatTypeOK ==
    /\ TypeOK
    /\ handler \in [Sockets -> HandlerState]
    /\ link \in [Sockets -> {"up", "left", "closed"}]
    /\ registered \subseteq Sockets
    /\ messages \in Seq(Sides)
    /\ publishing \in [Sockets -> Publish]
    /\ owed \in [Sockets -> SUBSET (1 .. MaxMessages)]
    /\ closing \in [Requests -> SUBSET BuyerSockets]
    /\ missed \in BOOLEAN

Live(s) == handler[s] \in Serving /\ link[s] = "up"

\* Once a revocation has been through the sockets it found, no socket of the
\* buyer is open, one that was in its handshake included (spec 006 F1, S5);
\* unless it failed before it came to the sockets.
RevokedIsClosed ==
    row = "revoked" /\ ~missed =>
        \A s \in BuyerSockets : Live(s) => \E r \in Requests : s \in closing[r]

\* Every message published while a socket is open has been sent down it, or some
\* coroutine has it still to send (spec 006 C1, D4): none is lost between the
\* registry and the coroutines that come and go.
OpenSocketsHear ==
    \A s \in Sockets :
        Live(s) =>
            \A m \in owed[s] :
                \E t \in Sockets :
                    /\ publishing[t].message = m
                    /\ s \in publishing[t].aim \/ SideOf(s) \in publishing[t].sides

\* A revoked buyer's coroutines come to an end without the client's help, unless
\* the revocation failed before it came to the sockets.
RevocationReaches ==
    row = "revoked" ~>
        (row # "revoked" \/ missed \/ \A s \in BuyerSockets : handler[s] \notin Serving)

\* A message of the buyer is stored only while access is approved (revocation
\* re-denies the socket immediately, access.py and docs/security.md 1.5).
OnlyMembersTalk ==
    [][\A m \in DOMAIN messages' \ DOMAIN messages :
          messages'[m] = "buyer" => row = "approved"]_vars

----------------------------------------------------------------------------
(* The contract of the conversation with the seller, and how the sockets    *)
(* keep it.                                                                 *)

\* Where the buyer stands as far as the sockets go: a revocation that failed
\* before it came to them has not been felt there.
Standing == IF missed THEN "approved" ELSE row

\* The buyer's open sockets but those that a revocation is about to close.
Present == {s \in BuyerSockets : Live(s) /\ \A r \in Requests : s \notin closing[r]}

Room == INSTANCE RoomContract WITH
    Connections <- BuyerSockets,
    standing <- Standing,
    room <- Present

\* Revocation is live: although the sockets are closed one await after another,
\* and others are in their handshake, the room is empty from the commit on;
\* one that fails in between leaves the room as it found it.
KeepsRoom == Room!Spec
=============================================================================
