------------------------------ MODULE Accounts ------------------------------
(***************************************************************************)
(* One account, from its registration: the NDA, its roles, the confirmation *)
(* of its address and the reset of its password (routers/auth.py), through  *)
(* single-use links (tokens.py) that leave by mail (mailer.py).  Reset      *)
(* links have a budget per address, kept by a rate limiter (RateLimit).     *)
(*                                                                          *)
(* A request reads the account and the links still unused, and writes some  *)
(* time later: resetting a password hashes it in between.  Its writes are   *)
(* one transaction, which marks the links it read, by id, and flushes the   *)
(* columns that differ from what it loaded.  A mail waits on the session of *)
(* its request: once the commit is done it is handed to a pool of threads,  *)
(* and a rollback drops it.                                                 *)
(***************************************************************************)
EXTENDS RateLimit, FiniteSets

CONSTANTS
    Address,       \* the address of the account
    FirstRoles,    \* bound: the roles it may be registered with
    ResetTTL,      \* settings.password_reset_token_ttl_minutes
    ConfirmTTL,    \* settings.email_verification_token_ttl_hours
    MaxRequests,   \* bound: requests served, after the registration
    MaxFailures    \* bound: transactions and mails that fail and restarts

ASSUME AccountsAssumption ==
    /\ Address \in Keys
    /\ FirstRoles \subseteq {"buyer", "seller"}
    /\ {ResetTTL, ConfirmTTL} \subseteq Nat \ {0}
    /\ {MaxRequests, MaxFailures} \subseteq Nat

VARIABLES
    user,          \* the row of the account, or NoUser
    links,         \* the token rows of each kind, by id
    mail,          \* where the mail of each token drawn is
    resets,        \* the links that have changed the password, in order
    spent,         \* the stamps of the attempts the address's budget let through
    req,           \* the requests between their reads and their writes
    begun,         \* requests begun so far
    raced,         \* a write was made from a read no longer current
    failures,      \* transactions and mails that failed so far
    restarts       \* restarts of the server so far

accountVars  == <<user, links, mail, resets, spent, req, begun>>
accountsVars == <<rateVars, accountVars, raced, failures, restarts>>

----------------------------------------------------------------------------
(* The rows. *)

Kind == {"reset", "confirm"}

Lifetime == [reset |-> ResetTTL, confirm |-> ConfirmTTL]

Role == {"buyer", "seller"}

\* is_buyer and is_seller, nda_signed_at and email_verified_at.
User == [buyer: BOOLEAN, seller: BOOLEAN, nda: 0 .. MaxTime, confirmed: 0 .. MaxTime]

NoUser == [nda |-> 0]

\* A passwordresettoken or emailverificationtoken row; asked is its created_at.
Link == [token: Nat \ {0}, used: BOOLEAN, asked: Time]

NoLink == [token |-> 0]

\* A mail waits on a session, or was dropped with it; it was handed to the pool
\* of senders, and then delivered or lost.
HandedOver == {"queued", "delivered", "lost"}

Place == {"pending", "dropped"} \cup HandedOver

Issuing == {"register", "resend", "forgot"}

Op == {"count", "redeem", "verify", "nda"} \cup Issuing \cup Role

\* A request: the account and the unused links it read, the link it redeems, and
\* the row of the one it issues.
Request == [op: Op \cup {"idle", "committed"}, user: User \cup {NoUser},
            live: SUBSET Nat, link: Nat, new: Link \cup {NoLink}]

Idle == [op |-> "idle", user |-> NoUser, live |-> {}, link |-> 0, new |-> NoLink]

Live(kind) == {i \in DOMAIN links[kind] : ~links[kind][i].used}

Init ==
    /\ RateInit
    /\ user = NoUser
    /\ links = [k \in Kind |-> <<>>]
    /\ mail = <<>>
    /\ resets = <<>>
    /\ spent = <<>>
    /\ req = [r \in Requests |-> Idle]
    /\ begun = 0
    /\ raced = FALSE
    /\ failures = 0
    /\ restarts = 0

Ends(r) == req' = [req EXCEPT ![r] = Idle]

\* A request takes its snapshot: the account and the links it relies on.
Saw(r, op, row, live, i) ==
    req' = [req EXCEPT ![r] =
               [op |-> op, user |-> row, live |-> live, link |-> i, new |-> NoLink]]

Admitted(r) ==
    /\ req[r].op = "idle"
    /\ begun < MaxRequests
    /\ begun' = begun + 1

\* The first read of a request.
Reads(r, op, row, live, i) == Admitted(r) /\ Saw(r, op, row, live, i)

\* The write of r is made from a read that others have overtaken.
Stale(r, kind) == req[r].user # user \/ req[r].live # Live(kind)

----------------------------------------------------------------------------
(* Links. *)

\* Mutant of Marked: the links read stay good.
MarkedNone(kind, live) == links[kind]

\* _invalidate_*: used_at is stamped on the rows that were read.
Marked(kind, live) ==
    [i \in DOMAIN links[kind] |->
        IF i \in live THEN [links[kind][i] EXCEPT !.used = TRUE] ELSE links[kind][i]]

\* issue_*: the outstanding links are superseded by the one that was drawn.
Issue(kind, r) ==
    links' = [links EXCEPT ![kind] = Append(Marked(kind, req[r].live), req[r].new)]

\* The checks of redeem_*: the mailed link is unused and has not expired.
Redeemable(kind, i) ==
    /\ i \in Live(kind)
    /\ mail[links[kind][i].token] = "delivered"
    /\ now < links[kind][i].asked + Lifetime[kind]

Redeem(kind, live) == links' = [links EXCEPT ![kind] = Marked(kind, live)]

\* Mutant of FlushedUser: the whole row is written.
WholeRow(loaded, new) == new

\* A column reaches the row only when it differs from what was loaded.
FlushedUser(loaded, new) ==
    [c \in DOMAIN user |-> IF new[c] # loaded[c] THEN new[c] ELSE user[c]]

----------------------------------------------------------------------------
(* A link and its mail, from the session to the pool of senders (mailer.py). *)

\* Mutant of NewLink: the row is stamped with its expiry.
NewLinkAtExpiry(kind) == [token |-> Len(mail) + 1, used |-> FALSE, asked |-> now + Lifetime[kind]]

\* The row of a link, with a token that no other has.
NewLink(kind) == [token |-> Len(mail) + 1, used |-> FALSE, asked |-> now]

\* Mutant of QueueEmail: the mail is sent at once.
SendEmail == Append(mail, "queued")

\* queue_email: the mail waits on the session.
QueueEmail == Append(mail, "pending")

\* A request draws a link and queues its mail.
Draws(r, op, kind, row, live) ==
    /\ mail' = QueueEmail
    /\ req' = [req EXCEPT ![r] =
                  [op |-> op, user |-> row, live |-> live, link |-> 0, new |-> NewLink(kind)]]

Committed(r) ==
    req' = [req EXCEPT ![r] = [Idle EXCEPT !.op = "committed", !.new = req[r].new]]

\* after_commit: the session's mail goes to the pool.
HandOver(r) ==
    /\ req[r].op = "committed"
    /\ mail' = [mail EXCEPT ![req[r].new.token] = "queued"]
    /\ Ends(r)
    /\ UNCHANGED <<rateVars, user, links, resets, spent, begun, raced, failures, restarts>>

Deliver(t) ==
    /\ mail[t] = "queued"
    /\ mail' = [mail EXCEPT ![t] = "delivered"]
    /\ UNCHANGED <<rateVars, user, links, resets, spent, begun, req, raced, failures, restarts>>

Fails == failures + restarts < MaxFailures

\* send_safe: a mail that cannot be sent is lost.
SendFails(t) ==
    /\ mail[t] = "queued"
    /\ Fails
    /\ failures' = failures + 1
    /\ mail' = [mail EXCEPT ![t] = "lost"]
    /\ UNCHANGED <<rateVars, user, links, resets, spent, begun, req, raced, restarts>>

----------------------------------------------------------------------------
(* Registration, the NDA and the roles. *)

\* The row is flushed, and other registrations of the address wait for what
\* becomes of it.
RegisterRead(r, role) ==
    /\ user = NoUser
    /\ req[r].op = "idle"
    /\ \A q \in Requests : req[q].op # "register"
    /\ Draws(r, "register", "confirm",
             [buyer |-> role = "buyer", seller |-> role = "seller", nda |-> 0, confirmed |-> 0], {})
    /\ UNCHANGED <<rateVars, user, links, resets, spent, begun, raced, failures, restarts>>

\* The unique constraint on the address lets one registration through.
Register(r) ==
    /\ req[r].op = "register"
    /\ user' = req[r].user
    /\ Issue("confirm", r)
    /\ Committed(r)
    /\ UNCHANGED <<rateVars, mail, resets, spent, begun, raced, failures, restarts>>

SignRead(r) ==
    /\ user # NoUser
    /\ user.nda = 0
    /\ Reads(r, "nda", user, {}, 0)
    /\ UNCHANGED <<rateVars, user, links, mail, resets, spent, raced, failures, restarts>>

SignWrite(r) ==
    /\ req[r].op = "nda"
    /\ user' = FlushedUser(req[r].user, [req[r].user EXCEPT !.nda = now])
    /\ raced' = (raced \/ req[r].user # user)
    /\ Ends(r)
    /\ UNCHANGED <<rateVars, links, mail, resets, spent, begun, failures, restarts>>

RoleRead(r, role) ==
    /\ user # NoUser
    /\ Reads(r, role, user, {}, 0)
    /\ UNCHANGED <<rateVars, user, links, mail, resets, spent, raced, failures, restarts>>

Granted(loaded, role) == [loaded EXCEPT ![role] = TRUE]

RoleWrite(r) ==
    /\ req[r].op \in Role
    /\ user' = FlushedUser(req[r].user, Granted(req[r].user, req[r].op))
    /\ raced' = (raced \/ req[r].user # user)
    /\ Ends(r)
    /\ UNCHANGED <<rateVars, links, mail, resets, spent, begun, failures, restarts>>

----------------------------------------------------------------------------
(* Confirming the address. *)

ResendRead(r) ==
    /\ user # NoUser
    /\ user.confirmed = 0
    /\ Admitted(r)
    /\ Draws(r, "resend", "confirm", user, Live("confirm"))
    /\ UNCHANGED <<rateVars, user, links, resets, spent, raced, failures, restarts>>

ResendWrite(r) ==
    /\ req[r].op = "resend"
    /\ Issue("confirm", r)
    /\ raced' = (raced \/ Stale(r, "confirm"))
    /\ Committed(r)
    /\ UNCHANGED <<rateVars, user, mail, resets, spent, begun, failures, restarts>>

VerifyRead(r, i) ==
    /\ Redeemable("confirm", i)
    /\ Reads(r, "verify", user, Live("confirm"), i)
    /\ UNCHANGED <<rateVars, user, links, mail, resets, spent, raced, failures, restarts>>

\* The first stamp stands.
VerifyWrite(r) ==
    /\ req[r].op = "verify"
    /\ Redeem("confirm", req[r].live)
    /\ user' = FlushedUser(req[r].user,
                   [req[r].user EXCEPT !.confirmed = IF @ = 0 THEN now ELSE @])
    /\ raced' = (raced \/ Stale(r, "confirm"))
    /\ Ends(r)
    /\ UNCHANGED <<rateVars, mail, resets, spent, begun, failures, restarts>>

----------------------------------------------------------------------------
(* Resetting the password. *)

\* forgot_password: the attempt is counted against the address it names.
ForgotCount(r, k) ==
    /\ HitStart(r, k)
    /\ Reads(r, "count", NoUser, {}, 0)
    /\ UNCHANGED <<user, links, mail, resets, spent, raced, failures, restarts>>

\* The hit goes on.  A sweep has been overtaken when another has been listed
\* since it was found due, or when the key has other stamps than were judged.
Counting(r) ==
    /\ \/ SweepCheck(r) /\ UNCHANGED raced
       \/ SweepList(r) /\ raced' = (raced \/ ~SweepDue(hit[r].at))
       \/ \E k \in Keys : /\ SweepKey(r, k)
                         /\ raced' = (raced \/ ~Elapsed(hits[k], hit[r].at))
       \/ HitRead(r) /\ UNCHANGED raced
    /\ UNCHANGED <<accountVars, failures, restarts>>

CountBreaks(r) ==
    /\ req[r].op = "count"
    /\ SweepBreaks(r)
    /\ raced' = TRUE
    /\ Ends(r)
    /\ UNCHANGED <<user, links, mail, resets, spent, begun, failures, restarts>>

HasBudget(r) == Allowed(r)

\* With budget left and a known address, the account and its links are read, and
\* a new link is drawn.
ForgotRead(r) ==
    /\ req[r].op = "count"
    /\ HitWrite(r)
    /\ raced' = (raced \/ Overtaken(r))
    /\ IF HasBudget(r) /\ hit[r].key = Address /\ user # NoUser
       THEN /\ spent' = Append(spent, hit[r].at)
            /\ Draws(r, "forgot", "reset", NoUser, Live("reset"))
       ELSE Ends(r) /\ UNCHANGED <<spent, mail>>
    /\ UNCHANGED <<user, links, resets, begun, failures, restarts>>

ForgotWrite(r) ==
    /\ req[r].op = "forgot"
    /\ Issue("reset", r)
    /\ raced' = (raced \/ req[r].live # Live("reset"))
    /\ Committed(r)
    /\ UNCHANGED <<rateVars, user, mail, resets, spent, begun, failures, restarts>>

ResetRead(r, i) ==
    /\ Redeemable("reset", i)
    /\ Reads(r, "redeem", NoUser, Live("reset"), i)
    /\ UNCHANGED <<rateVars, user, links, mail, resets, spent, raced, failures, restarts>>

ResetWrite(r) ==
    /\ req[r].op = "redeem"
    /\ Redeem("reset", req[r].live)
    /\ resets' = Append(resets, req[r].link)
    /\ raced' = (raced \/ req[r].live # Live("reset"))
    /\ Ends(r)
    /\ UNCHANGED <<rateVars, user, mail, spent, begun, failures, restarts>>

----------------------------------------------------------------------------
(* Failures. *)

\* The transaction rolls back, and the mail queued on it is dropped.
WriteFails(r) ==
    /\ req[r].op \notin {"idle", "count", "committed"}
    /\ Fails
    /\ failures' = failures + 1
    /\ mail' = IF req[r].op \in Issuing
               THEN [mail EXCEPT ![req[r].new.token] = "dropped"] ELSE mail
    /\ Ends(r)
    /\ UNCHANGED <<rateVars, user, links, resets, spent, begun, raced, restarts>>

\* Nothing in flight survives, nor the mail on a session or in the pool.
Crash ==
    /\ Fails
    /\ restarts' = restarts + 1
    /\ RateRestart
    /\ req' = [r \in Requests |-> Idle]
    /\ mail' = [t \in DOMAIN mail |->
                   IF mail[t] = "pending" THEN "dropped"
                   ELSE IF mail[t] = "queued" THEN "lost" ELSE mail[t]]
    /\ UNCHANGED <<user, links, resets, spent, begun, raced, failures>>

----------------------------------------------------------------------------
Confirming(r) ==
    \/ ResendRead(r)
    \/ ResendWrite(r)
    \/ \E i \in DOMAIN links["confirm"] : VerifyRead(r, i)
    \/ VerifyWrite(r)

Resetting(r) ==
    \/ \E k \in Keys : ForgotCount(r, k)
    \/ Counting(r)
    \/ CountBreaks(r)
    \/ ForgotRead(r)
    \/ ForgotWrite(r)
    \/ \E i \in DOMAIN links["reset"] : ResetRead(r, i)
    \/ ResetWrite(r)

Step(r) ==
    \/ \E role \in FirstRoles : RegisterRead(r, role)
    \/ Register(r)
    \/ SignRead(r)
    \/ SignWrite(r)
    \/ \E role \in Role : RoleRead(r, role)
    \/ RoleWrite(r)
    \/ Confirming(r)
    \/ Resetting(r)
    \/ HandOver(r)
    \/ WriteFails(r)

Mailing == \E t \in DOMAIN mail : Deliver(t) \/ SendFails(t)

Clock == Tick /\ UNCHANGED <<accountVars, raced, failures, restarts>>

Next ==
    \/ \E r \in Requests : Step(r)
    \/ Mailing
    \/ Clock
    \/ Crash

Spec == Init /\ [][Next]_accountsVars

\* The schedules in which no write is made from a read that others have
\* overtaken: all there are if links are marked where they are still unused.
SerialSpec == Init /\ [][Next /\ ~raced']_accountsVars

----------------------------------------------------------------------------
(* Properties. *)

\* Every column, link, mail and request has its type.
TypeOK ==
    /\ RateTypeOK
    /\ user \in User \cup {NoUser}
    /\ links \in [Kind -> Seq(Link)]
    /\ mail \in Seq(Place)
    /\ resets \in Seq(Nat \ {0})
    /\ spent \in Seq(Time)
    /\ req \in [Requests -> Request]
    /\ raced \in BOOLEAN
    /\ begun \in 0 .. MaxRequests
    /\ {failures, restarts} \subseteq 0 .. MaxFailures

\* The tokens of the links that are in the database.
Tokens(kind) == {links[kind][i].token : i \in DOMAIN links[kind]}

Durable == Tokens("reset") \cup Tokens("confirm")

\* A mail is handed over only once the link in it is durable, and, unless the
\* server stops, every durable link's mail is, or is about to be: whatever fails
\* or overlaps, none is sent for a link rolled back, left on a session that is
\* gone, or dropped for a link that stands (mailer.py:84-96).
MailIffDurable ==
    \A t \in DOMAIN mail :
        /\ mail[t] \in HandedOver => t \in Durable
        /\ mail[t] = "pending" => \E r \in Requests : req[r].new.token = t
        /\ mail[t] = "dropped" /\ restarts = 0 => t \notin Durable

OnlyNewestLive == \A k \in Kind : Live(k) \subseteq {Len(links[k])}

ResetsDiffer == \A i, j \in DOMAIN resets : resets[i] = resets[j] => i = j

NoneOnceConfirmed == user # NoUser /\ user.confirmed # 0 => Live("confirm") = {}

\* As long as no write is made from a stale read, only the newest link of a kind
\* is good (two live reset links double the window), a reset link changes the
\* password once, and no link to confirm an address outlives its confirmation
\* (tokens.py, spec 008 H7, H9).
SingleUse == ~raced => OnlyNewestLive /\ ResetsDiffer /\ NoneOnceConfirmed

\* One address is mailed at most MaxAttempts reset links for the attempts of
\* any window, whatever is swept meanwhile (pre-011 D6 and D9).
MailBudget ==
    ~raced /\ restarts = 0 =>
        \A i, j \in DOMAIN spent : j = i + MaxAttempts => spent[j] - spent[i] >= Window

\* No request takes a role away, whichever others it overlaps (FR-2), nor, from
\* a current read, moves the first signature or confirmation (spec 005 D4,
\* verify_email).
RecordsStand ==
    [][user # NoUser =>
        /\ \A role \in Role : user[role] => user'[role]
        /\ ~raced' => /\ user.nda # 0 => user'.nda = user.nda
                      /\ user.confirmed # 0 => user'.confirmed = user.confirmed]_accountsVars

----------------------------------------------------------------------------
(* What the owner of the account may rely on: in serial schedules the reset  *)
(* links implement LinkContract.                                             *)

Resets == INSTANCE LinkContract
              WITH issued <- Len(links["reset"]),
                   good   <- IF Live("reset") = {} THEN 0 ELSE Len(links["reset"]),
                   uses   <- resets

KeepsLinks == Resets!Spec
=============================================================================
