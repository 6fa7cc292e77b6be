--------------------------- MODULE AccountsProofs ---------------------------
(***************************************************************************)
(* What holds of an account, its links and its mail for any number of       *)
(* requests, links, failures and restarts, and of the budget its address    *)
(* has of links, for any window, limit and interval between sweeps.         *)
(***************************************************************************)
EXTENDS Accounts, Induction, SequenceTheorems, TLAPS

\* The types the arguments below rest on.
Types ==
    /\ now \in Time
    /\ user \in User \cup {NoUser}
    /\ links \in [Kind -> Seq(Link)]
    /\ mail \in Seq(Place)
    /\ resets \in Seq(Nat \ {0})
    /\ req \in [Requests -> Request]
    /\ raced \in BOOLEAN
    /\ restarts \in Nat

\* Links to confirm an address are those of an account.
NoLinksBefore == user = NoUser => links["confirm"] = <<>>

OnAccount == {"resend", "verify", "nda"} \cup Role

\* What a request in flight has read, and the link it has drawn.
Passed(r) ==
    /\ req[r].op \in OnAccount => req[r].user \in User /\ user \in User
    /\ req[r].op = "nda" => req[r].user.nda = 0
    /\ req[r].op = "resend" => req[r].user.confirmed = 0
    /\ req[r].op = "redeem" => req[r].link \in req[r].live /\ req[r].link # 0
    /\ req[r].op = "register" => /\ user = NoUser /\ req[r].user \in User
                                /\ req[r].user.confirmed = 0 /\ req[r].live = {}

OneRegisters ==
    \A r, q \in Requests : req[r].op = "register" /\ req[q].op = "register" => r = q

ReadsPassed == (\A r \in Requests : Passed(r)) /\ OneRegisters

\* A request that has drawn a link holds its mail until it is handed over.
Holding == Issuing \cup {"committed"}

Held(r) ==
    IF req[r].op \in Holding
    THEN /\ req[r].new \in Link /\ ~req[r].new.used
         /\ req[r].new.token \in DOMAIN mail
         /\ mail[req[r].new.token] = "pending"
         /\ req[r].new.token \in Durable <=> req[r].op = "committed"
    ELSE req[r].new = NoLink

OneHolds ==
    \A r, q \in Requests :
        req[r].op \in Holding /\ req[q].op \in Holding /\ req[r].new.token = req[q].new.token
            => r = q

Mails ==
    /\ Durable \subseteq DOMAIN mail
    /\ \A r \in Requests : Held(r)
    /\ OneHolds
    /\ MailIffDurable

Inv == Types /\ NoLinksBefore /\ ReadsPassed /\ Mails

----------------------------------------------------------------------------
(* Rows. *)

LEMMA NoUserIsNone == NoUser \notin User
<1>1. \A u \in User : DOMAIN u = {"buyer", "seller", "nda", "confirmed"}
  BY DEF User
<1>2. DOMAIN NoUser = {"nda"}
  BY DEF NoUser
<1> QED BY <1>1, <1>2

LEMMA Stamps == ASSUME now \in Time PROVE now \in 0 .. MaxTime /\ now \in Nat \ {0} /\ 0 \in 0 .. MaxTime
BY RateLimitAssumption, SMT DEF Time

LEMMA FlushedRow ==
    ASSUME user \in User, NEW loaded \in User, NEW new \in User
    PROVE  /\ FlushedUser(loaded, new) \in User
           /\ FlushedUser(loaded, new).buyer =
                  IF new.buyer # loaded.buyer THEN new.buyer ELSE user.buyer
           /\ FlushedUser(loaded, new).seller =
                  IF new.seller # loaded.seller THEN new.seller ELSE user.seller
           /\ FlushedUser(loaded, new).nda =
                  IF new.nda # loaded.nda THEN new.nda ELSE user.nda
           /\ FlushedUser(loaded, new).confirmed =
                  IF new.confirmed # loaded.confirmed THEN new.confirmed ELSE user.confirmed
<1>1. DOMAIN user = {"buyer", "seller", "nda", "confirmed"}
  BY DEF User
<1>2. FlushedUser(loaded, new) =
          [c \in {"buyer", "seller", "nda", "confirmed"} |->
              IF new[c] # loaded[c] THEN new[c] ELSE user[c]]
  BY <1>1 DEF FlushedUser
<1> QED BY <1>2 DEF User

\* Signing, a role and a confirmation, as columns.
LEMMA SignedRow ==
    ASSUME now \in Time, NEW loaded \in User
    PROVE  LET new == [loaded EXCEPT !.nda = now]
           IN  /\ new \in User /\ new.nda = now /\ new.buyer = loaded.buyer
               /\ new.seller = loaded.seller /\ new.confirmed = loaded.confirmed
BY Stamps DEF User

LEMMA GrantedRow ==
    ASSUME NEW loaded \in User, NEW role \in Role
    PROVE  LET new == Granted(loaded, role)
           IN  /\ new \in User /\ new.nda = loaded.nda /\ new.confirmed = loaded.confirmed
               /\ new.buyer = loaded.buyer \/ new.buyer = TRUE
               /\ new.seller = loaded.seller \/ new.seller = TRUE
<1>1. CASE role = "buyer"
  BY <1>1 DEF User, Granted
<1>2. CASE role = "seller"
  BY <1>2 DEF User, Granted
<1> QED BY <1>1, <1>2 DEF Role

ConfirmedRow(loaded) == [loaded EXCEPT !.confirmed = IF @ = 0 THEN now ELSE @]

LEMMA ConfirmedRowIs ==
    ASSUME now \in Time, NEW loaded \in User
    PROVE  LET new == ConfirmedRow(loaded)
           IN  /\ new \in User /\ new.nda = loaded.nda /\ new.buyer = loaded.buyer
               /\ new.seller = loaded.seller
               /\ new.confirmed # 0
               /\ loaded.confirmed # 0 => new.confirmed = loaded.confirmed
BY Stamps DEF User, ConfirmedRow

----------------------------------------------------------------------------
(* Links. *)

\* Marking links keeps them all, and marks those that are live no more.
LEMMA MarkedLinks ==
    ASSUME Types, NEW k \in Kind, NEW live
    PROVE  /\ Marked(k, live) \in Seq(Link)
           /\ Len(Marked(k, live)) = Len(links[k])
           /\ \A i \in 1 .. Len(links[k]) :
                  /\ Marked(k, live)[i].used <=> (links[k][i].used \/ i \in live)
                  /\ Marked(k, live)[i].token = links[k][i].token
<1>1. /\ links[k] \in Seq(Link)
      /\ Len(links[k]) \in Nat
      /\ DOMAIN links[k] = 1 .. Len(links[k])
      /\ \A i \in 1 .. Len(links[k]) : links[k][i] \in Link
  <2>1. links[k] \in Seq(Link)
    BY DEF Types
  <2> QED BY <2>1, LenProperties, ElementOfSeq
<1> DEFINE mark(i) == IF i \in live THEN [links[k][i] EXCEPT !.used = TRUE] ELSE links[k][i]
<1>2. \A i \in 1 .. Len(links[k]) :
         /\ mark(i) \in Link /\ (mark(i).used <=> (links[k][i].used \/ i \in live))
         /\ mark(i).token = links[k][i].token
  BY <1>1 DEF Link
<1>3. Marked(k, live) = [i \in 1 .. Len(links[k]) |-> mark(i)]
  BY <1>1 DEF Marked
<1> HIDE DEF mark
<1>4. Marked(k, live) \in [1 .. Len(links[k]) -> Link]
  BY <1>2, <1>3
<1>5. Marked(k, live) \in Seq(Link)
  BY <1>1, <1>4, SeqDef
<1>6. DOMAIN Marked(k, live) = 1 .. Len(links[k])
      /\ DOMAIN Marked(k, live) = 1 .. Len(Marked(k, live))
      /\ Len(Marked(k, live)) \in Nat
  BY <1>3, <1>5, LenProperties
<1>7. Len(Marked(k, live)) = Len(links[k])
  BY <1>1, <1>6, SMT
<1> QED BY <1>2, <1>3, <1>5, <1>7

\* Where the live links lie.
LEMMA LiveLinks ==
    ASSUME Types, NEW k \in Kind
    PROVE  /\ links[k] \in Seq(Link)
           /\ Len(links[k]) \in Nat
           /\ Live(k) = {i \in 1 .. Len(links[k]) : ~links[k][i].used}
           /\ Live(k) \subseteq Nat
<1>1. links[k] \in Seq(Link)
  BY DEF Types
<1>2. Len(links[k]) \in Nat /\ DOMAIN links[k] = 1 .. Len(links[k])
  BY <1>1, LenProperties
<1> QED BY <1>1, <1>2, SMT DEF Live

\* A link is issued: those read live are so no more, and it is.
LEMMA IssueEffect ==
    ASSUME Types, NEW k \in Kind, NEW r \in Requests,
           req[r].new \in Link, ~req[r].new.used, Issue(k, r)
    PROVE  /\ links' \in [Kind -> Seq(Link)]
           /\ links'[k] # <<>>
           /\ Len(links'[k]) = Len(links[k]) + 1
           /\ Live(k)' = (Live(k) \ req[r].live) \cup {Len(links[k]) + 1}
           /\ \A j \in Kind \ {k} : links'[j] = links[j] /\ Live(j)' = Live(j)
           /\ Durable' = Durable \cup {req[r].new.token}
<1> DEFINE live == req[r].live
           new == req[r].new
           old == Marked(k, live)
           n   == Len(links[k])
<1>1. links' = [links EXCEPT ![k] = Append(old, new)]
  BY DEF Issue
<1>2. /\ old \in Seq(Link) /\ Len(old) = n
      /\ \A i \in 1 .. n : /\ old[i].used <=> (links[k][i].used \/ i \in live)
                           /\ old[i].token = links[k][i].token
      /\ n \in Nat
  BY MarkedLinks, LiveLinks
<1>3. /\ Append(old, new) \in Seq(Link)
      /\ Append(old, new) # <<>>
      /\ Len(Append(old, new)) = n + 1
      /\ \A i \in 1 .. n : Append(old, new)[i] = old[i]
      /\ Append(old, new)[n + 1] = new
  <2>1. old \in Seq(Link) /\ new \in Link /\ Len(old) = n
    BY <1>2
  <2> HIDE DEF old, new, n
  <2> QED BY <2>1, AppendProperties
<1>4. links'[k] = Append(old, new) /\ \A j \in Kind \ {k} : links'[j] = links[j]
  BY <1>1 DEF Types
<1>5. links' \in [Kind -> Seq(Link)]
  BY <1>1, <1>3 DEF Types
<1>6. DOMAIN links'[k] = 1 .. n + 1
  BY <1>3, <1>4, LenProperties
<1>7. Live(k)' = {i \in 1 .. n + 1 : ~links'[k][i].used}
  BY <1>6 DEF Live
<1>8. \A i \in 1 .. n + 1 :
          ~links'[k][i].used <=> (i \in (Live(k) \ live) \/ i = n + 1)
  <2> SUFFICES ASSUME NEW i \in 1 .. n + 1
               PROVE  ~links'[k][i].used <=> (i \in (Live(k) \ live) \/ i = n + 1)
    OBVIOUS
  <2>1. CASE i = n + 1
    BY <1>3, <1>4, <2>1
  <2>2. CASE i \in 1 .. n
    <3>1. i # n + 1
      BY <1>2, <2>2, SMT
    <3> QED BY <1>2, <1>3, <1>4, <2>2, <3>1, LiveLinks
  <2> QED BY <1>2, <2>1, <2>2, SMT
<1>9. Live(k) \subseteq 1 .. n + 1 /\ n + 1 \in 1 .. n + 1
  BY <1>2, LiveLinks, SMT
<1>10. Live(k)' = (Live(k) \ live) \cup {n + 1}
  BY <1>7, <1>8, <1>9
<1>11. \A j \in Kind \ {k} : Live(j)' = Live(j)
  BY <1>4 DEF Live
<1>12. {links'[k][i].token : i \in DOMAIN links'[k]}
           = {links[k][i].token : i \in DOMAIN links[k]} \cup {new.token}
  <2>1. DOMAIN links[k] = 1 .. n
    BY LenProperties DEF Types
  <2>2. \A i \in 1 .. n : links'[k][i].token = links[k][i].token
    BY <1>2, <1>3, <1>4
  <2>3. links'[k][n + 1].token = new.token
    BY <1>3, <1>4
  <2>4. \A i : i \in 1 .. n + 1 <=> i \in 1 .. n \/ i = n + 1
    BY <1>2, SMT
  <2> HIDE DEF new, old, n
  <2> QED BY <1>6, <2>1, <2>2, <2>3, <2>4
<1>13. Durable' = Durable \cup {new.token}
  <2> HIDE DEF new
  <2>1. Tokens(k)' = Tokens(k) \cup {new.token} /\ \A j \in Kind \ {k} : Tokens(j)' = Tokens(j)
    BY <1>4, <1>12 DEF Tokens
  <2> QED BY <2>1, Zenon DEF Durable, Kind
<1> QED BY <1>3, <1>4, <1>5, <1>10, <1>11, <1>13

\* Links are redeemed: those read live are so no more.
LEMMA RedeemEffect ==
    ASSUME Types, NEW k \in Kind, NEW live, Redeem(k, live)
    PROVE  /\ links' \in [Kind -> Seq(Link)]
           /\ Len(links'[k]) = Len(links[k])
           /\ links[k] # <<>> => links'[k] # <<>>
           /\ Live(k)' = Live(k) \ live
           /\ \A j \in Kind \ {k} : links'[j] = links[j] /\ Live(j)' = Live(j)
           /\ Durable' = Durable
<1> DEFINE old == Marked(k, live)
           n   == Len(links[k])
<1>1. /\ old \in Seq(Link) /\ Len(old) = n
      /\ \A i \in 1 .. n : /\ old[i].used <=> (links[k][i].used \/ i \in live)
                           /\ old[i].token = links[k][i].token
      /\ n \in Nat
  BY MarkedLinks, LiveLinks
<1>2. links'[k] = old /\ \A j \in Kind \ {k} : links'[j] = links[j]
  BY DEF Redeem, Types
<1>3. links' \in [Kind -> Seq(Link)]
  BY <1>1 DEF Redeem, Types
<1>4. DOMAIN links'[k] = 1 .. n /\ DOMAIN links[k] = 1 .. n
  BY <1>1, <1>2, LenProperties DEF Types
<1>5. Live(k)' = {i \in 1 .. n : ~links'[k][i].used}
  BY <1>4 DEF Live
<1>6. Live(k)' = Live(k) \ live
  BY <1>1, <1>2, <1>5, LiveLinks
<1>7. \A j \in Kind \ {k} : Live(j)' = Live(j)
  BY <1>2 DEF Live
<1>8. links[k] # <<>> => n # 0
  BY LiveLinks, EmptySeq
<1>9. links[k] # <<>> => links'[k] # <<>>
  BY <1>1, <1>2, <1>8, EmptySeq
<1>10. Durable' = Durable
  <2>1. \A i \in 1 .. n : links'[k][i].token = links[k][i].token
    BY <1>1, <1>2
  <2>2. {links'[k][i].token : i \in DOMAIN links'[k]} = {links[k][i].token : i \in DOMAIN links[k]}
    <3> HIDE DEF n, old
    <3> QED BY <1>4, <2>1
  <2>3. Tokens(k)' = Tokens(k) /\ \A j \in Kind \ {k} : Tokens(j)' = Tokens(j)
    BY <1>2, <2>2 DEF Tokens
  <2> QED BY <2>3 DEF Durable, Kind
<1> QED BY <1>1, <1>2, <1>3, <1>6, <1>7, <1>9, <1>10

----------------------------------------------------------------------------
(* What every step keeps. *)

LEMMA IdleIs ==
    /\ Idle \in Request /\ Idle.op = "idle" /\ Idle.op \notin Holding /\ Idle.op \notin OnAccount
    /\ Idle.new = NoLink
BY DEF Idle, Request, Holding, Issuing, OnAccount, Role

LEMMA InitInv == Init => Inv
<1> SUFFICES ASSUME Init PROVE Inv
  OBVIOUS
<1>1. /\ <<>> \in Seq(Link) /\ <<>> \in Seq(Place) /\ <<>> \in Seq(Nat \ {0})
      /\ DOMAIN <<>> = {}
  BY EmptySeq
<1>2. now \in Time
  BY RateLimitAssumption, SMT DEF Init, RateInit, Time
<1>3. req \in [Requests -> Request] /\ \A r \in Requests : req[r] = Idle
  BY IdleIs DEF Init
<1>4. links \in [Kind -> Seq(Link)] /\ mail = <<>>
  BY <1>1 DEF Init
<1>5. Types
  BY <1>1, <1>2, <1>3, <1>4 DEF Init, Types
<1>6. NoLinksBefore
  BY DEF Init, NoLinksBefore, Kind
<1>7. ReadsPassed
  BY <1>3, IdleIs DEF ReadsPassed, Passed, OneRegisters, Idle
<1>8. \A k \in Kind : DOMAIN links[k] = {}
  BY <1>1 DEF Init
<1>9. Durable = {} /\ DOMAIN mail = {}
  BY <1>1, <1>4, <1>8 DEF Durable, Tokens, Kind
<1>10. Mails
  <2>1. \A r \in Requests : Held(r)
    BY <1>3, IdleIs DEF Held
  <2>2. OneHolds
    BY <1>3, IdleIs DEF OneHolds
  <2> QED BY <1>9, <2>1, <2>2 DEF Mails, MailIffDurable
<1> QED BY <1>5, <1>6, <1>7, <1>10 DEF Inv

\* A request that ends, draws or commits leaves the others.
LEMMA EndsEffect ==
    ASSUME Types, NEW r \in Requests, Ends(r)
    PROVE  /\ req' \in [Requests -> Request]
           /\ req'[r] = Idle
           /\ \A q \in Requests \ {r} : req'[q] = req[q]
BY IdleIs DEF Ends, Types

LEMMA SawEffect ==
    ASSUME Types, NEW r \in Requests, NEW op \in Op, NEW row \in User \cup {NoUser},
           NEW live \in SUBSET Nat, NEW i \in Nat, Saw(r, op, row, live, i)
    PROVE  /\ req' \in [Requests -> Request]
           /\ req'[r] = [op |-> op, user |-> row, live |-> live, link |-> i, new |-> NoLink]
           /\ \A q \in Requests \ {r} : req'[q] = req[q]
<1>1. [op |-> op, user |-> row, live |-> live, link |-> i, new |-> NoLink] \in Request
  BY DEF Request
<1> QED BY <1>1 DEF Saw, Types

LEMMA DrawsEffect ==
    ASSUME Types, NEW r \in Requests, NEW op \in Issuing, NEW kind, NEW row \in User \cup {NoUser},
           NEW live \in SUBSET Nat, Draws(r, op, kind, row, live)
    PROVE  /\ req' \in [Requests -> Request]
           /\ req'[r] = [op |-> op, user |-> row, live |-> live, link |-> 0, new |-> NewLink(kind)]
           /\ \A q \in Requests \ {r} : req'[q] = req[q]
           /\ NewLink(kind) \in Link /\ ~NewLink(kind).used /\ NewLink(kind).token = Len(mail) + 1
           /\ mail' \in Seq(Place) /\ Len(mail) \in Nat
           /\ DOMAIN mail = 1 .. Len(mail) /\ DOMAIN mail' = 1 .. Len(mail) + 1
           /\ mail'[Len(mail) + 1] = "pending"
           /\ \A t \in DOMAIN mail : mail'[t] = mail[t]
<1>1. /\ Len(mail) \in Nat /\ DOMAIN mail = 1 .. Len(mail)
      /\ mail' = Append(mail, "pending") /\ "pending" \in Place /\ mail \in Seq(Place)
  BY LenProperties DEF Types, Draws, QueueEmail, Place
<1>2. /\ mail' \in Seq(Place) /\ Len(mail') = Len(mail) + 1
      /\ mail'[Len(mail) + 1] = "pending"
      /\ \A t \in 1 .. Len(mail) : mail'[t] = mail[t]
  BY <1>1, AppendProperties
<1>3. DOMAIN mail' = 1 .. Len(mail) + 1
  BY <1>2, LenProperties
<1>4. NewLink(kind) \in Link /\ ~NewLink(kind).used /\ NewLink(kind).token = Len(mail) + 1
  <2>1. Len(mail) + 1 \in Nat \ {0}
    BY <1>1
  <2> QED BY <2>1 DEF NewLink, Link, Types
<1>5. op \in Op
  BY DEF Op
<1>6. [op |-> op, user |-> row, live |-> live, link |-> 0, new |-> NewLink(kind)] \in Request
  BY <1>4, <1>5 DEF Request
<1>7. req' = [req EXCEPT ![r] =
                [op |-> op, user |-> row, live |-> live, link |-> 0, new |-> NewLink(kind)]]
  BY DEF Draws
<1> QED BY <1>1, <1>2, <1>3, <1>4, <1>6, <1>7 DEF Types

LEMMA CommittedEffect ==
    ASSUME Types, NEW r \in Requests, req[r].new \in Link, Committed(r)
    PROVE  /\ req' \in [Requests -> Request]
           /\ req'[r].op = "committed" /\ req'[r].new = req[r].new
           /\ \A q \in Requests \ {r} : req'[q] = req[q]
<1>1. [Idle EXCEPT !.op = "committed", !.new = req[r].new] \in Request
  BY DEF Idle, Request
<1>2. /\ [Idle EXCEPT !.op = "committed", !.new = req[r].new].op = "committed"
      /\ [Idle EXCEPT !.op = "committed", !.new = req[r].new].new = req[r].new
  BY DEF Idle
<1> QED BY <1>1, <1>2 DEF Committed, Types

\* What the requests in flight have read stands, when the account is unchanged
\* or was one, and r alone moves.
LEMMA PassedKept ==
    ASSUME ReadsPassed, NEW r \in Requests,
           user' = user \/ (user \in User /\ user' \in User),
           Passed(r)', req'[r].op # "register", \A q \in Requests \ {r} : req'[q] = req[q]
    PROVE  ReadsPassed'
<1>1. ASSUME NEW q \in Requests \ {r} PROVE Passed(q)'
  BY NoUserIsNone DEF ReadsPassed, Passed
<1>2. OneRegisters'
  BY DEF ReadsPassed, OneRegisters
<1> QED BY <1>1, <1>2 DEF ReadsPassed

LEMMA EndedPassed ==
    ASSUME NEW r \in Requests, req'[r] = Idle
    PROVE  Passed(r)' /\ req'[r].op # "register"
BY IdleIs DEF Passed, Idle, OnAccount, Role

----------------------------------------------------------------------------
(* Mail: a link's token is held by its session, or its mail is decided. *)

LEMMA MailIs ==
    ASSUME Types
    PROVE  /\ DOMAIN mail = 1 .. Len(mail) /\ Len(mail) \in Nat
           /\ 0 \notin DOMAIN mail /\ Len(mail) + 1 \notin DOMAIN mail
           /\ NoLink.token = 0
<1>1. DOMAIN mail = 1 .. Len(mail) /\ Len(mail) \in Nat
  BY LenProperties DEF Types
<1> QED BY <1>1 DEF NoLink

\* Nothing that bears on mail changes, though r may begin, go on or end.
LEMMA MailsSame ==
    ASSUME Types, Mails, NEW r \in Requests, UNCHANGED <<mail, restarts>>, Durable' = Durable,
           req[r].op \notin Holding, req'[r].op \notin Holding, req'[r].new = NoLink,
           \A q \in Requests \ {r} : req'[q] = req[q]
    PROVE  Mails'
<1>1. \A q \in Requests : Held(q)'
  BY DEF Mails, Held
<1>2. OneHolds'
  BY DEF Mails, OneHolds
<1>3. MailIffDurable'
  <2> SUFFICES ASSUME NEW t \in DOMAIN mail
               PROVE  /\ mail[t] \in HandedOver => t \in Durable
                      /\ mail[t] = "pending" => \E q \in Requests : req'[q].new.token = t
                      /\ mail[t] = "dropped" /\ restarts = 0 => t \notin Durable
    BY DEF MailIffDurable
  <2>1. ASSUME mail[t] = "pending" PROVE \E q \in Requests : req'[q].new.token = t
    <3>1. PICK q \in Requests : req[q].new.token = t
      BY <2>1 DEF Mails, MailIffDurable
    <3>2. req[r].new.token # t
      BY MailIs DEF Mails, Held
    <3> QED BY <3>1, <3>2
  <2> QED BY <2>1 DEF Mails, MailIffDurable
<1> QED BY <1>1, <1>2, <1>3 DEF Mails

\* A link is drawn: its mail waits on the session of r.
LEMMA MailsDrawn ==
    ASSUME Types, Mails, NEW r \in Requests, UNCHANGED restarts, Durable' = Durable,
           req[r].op \notin Holding, req'[r].op \in Issuing,
           req'[r].new \in Link, ~req'[r].new.used, req'[r].new.token = Len(mail) + 1,
           \A q \in Requests \ {r} : req'[q] = req[q],
           DOMAIN mail' = 1 .. Len(mail) + 1, mail'[Len(mail) + 1] = "pending",
           \A t \in DOMAIN mail : mail'[t] = mail[t]
    PROVE  Mails'
<1> DEFINE n == Len(mail) + 1
<1>1. /\ n \notin DOMAIN mail /\ n \in DOMAIN mail' /\ DOMAIN mail \subseteq DOMAIN mail'
      /\ \A t \in DOMAIN mail' : t \in DOMAIN mail \/ t = n
  BY MailIs
<1>2. n \notin Durable /\ Durable \subseteq DOMAIN mail'
  BY <1>1 DEF Mails
<1>3. req'[r].op # "committed" /\ req'[r].op \in Holding /\ Issuing \subseteq Holding
  BY DEF Issuing, Holding
<1>4. \A q \in Requests \ {r} :
        req[q].op \in Holding => req[q].new.token \in DOMAIN mail /\ req[q].new.token # n
  BY <1>1 DEF Mails, Held
<1>5. Held(r)'
  BY <1>1, <1>2, <1>3 DEF Held
<1>6. \A q \in Requests \ {r} : Held(q)'
  BY <1>1, <1>4 DEF Mails, Held
<1>7. OneHolds'
  BY <1>4 DEF Mails, OneHolds
<1>8. MailIffDurable'
  <2> SUFFICES ASSUME NEW t \in DOMAIN mail'
               PROVE  /\ mail'[t] \in HandedOver => t \in Durable
                      /\ mail'[t] = "pending" => \E q \in Requests : req'[q].new.token = t
                      /\ mail'[t] = "dropped" /\ restarts = 0 => t \notin Durable
    BY DEF MailIffDurable
  <2>1. CASE t = n
    BY <2>1 DEF HandedOver
  <2>2. CASE t \in DOMAIN mail
    <3>1. mail'[t] = mail[t]
      BY <2>2
    <3>2. ASSUME mail[t] = "pending" PROVE \E q \in Requests : req'[q].new.token = t
      <4>1. PICK q \in Requests : req[q].new.token = t
        BY <2>2, <3>2 DEF Mails, MailIffDurable
      <4>2. req[r].new.token # t
        BY <2>2, MailIs DEF Mails, Held
      <4> QED BY <4>1, <4>2
    <3> QED BY <2>2, <3>1, <3>2 DEF Mails, MailIffDurable
  <2> QED BY <1>1, <2>1, <2>2
<1> QED BY <1>2, <1>5, <1>6, <1>7, <1>8 DEF Mails

\* The transaction of r commits: the link it holds is durable, and its mail is
\* still to be handed over.
LEMMA MailsCommitted ==
    ASSUME Types, Mails, NEW r \in Requests, UNCHANGED <<mail, restarts>>, req[r].op \in Issuing,
           Durable' = Durable \cup {req[r].new.token},
           req'[r].op = "committed", req'[r].new = req[r].new,
           \A q \in Requests \ {r} : req'[q] = req[q]
    PROVE  Mails'
<1> DEFINE n == req[r].new.token
<1>1. req[r].op \in Holding /\ req'[r].op \in Holding /\ req[r].op # "committed"
  BY DEF Holding, Issuing
<1>2. n \in DOMAIN mail /\ mail[n] = "pending" /\ req[r].new \in Link /\ ~req[r].new.used
  BY <1>1 DEF Mails, Held
<1>3. \A q \in Requests \ {r} : req[q].op \in Holding => req[q].new.token # n
  BY <1>1 DEF Mails, OneHolds
<1>4. Held(r)'
  BY <1>1, <1>2 DEF Held
<1>5. \A q \in Requests \ {r} : Held(q)'
  BY <1>3 DEF Mails, Held
<1>6. OneHolds'
  BY <1>1 DEF Mails, OneHolds
<1>7. MailIffDurable'
  <2> SUFFICES ASSUME NEW t \in DOMAIN mail
               PROVE  /\ mail[t] \in HandedOver => t \in Durable'
                      /\ mail[t] = "pending" => \E q \in Requests : req'[q].new.token = t
                      /\ mail[t] = "dropped" /\ restarts = 0 => t \notin Durable'
    BY DEF MailIffDurable
  <2>1. \A q \in Requests : req'[q].new.token = req[q].new.token
    OBVIOUS
  <2>2. mail[t] = "dropped" => t # n
    BY <1>2
  <2> QED BY <2>1, <2>2 DEF Mails, MailIffDurable
<1>8. Durable' \subseteq DOMAIN mail
  BY <1>2 DEF Mails
<1> QED BY <1>4, <1>5, <1>6, <1>7, <1>8 DEF Mails

\* The mail r holds is handed over, if its link is durable, or else dropped.
LEMMA MailsDecided ==
    ASSUME Types, Mails, NEW r \in Requests, UNCHANGED restarts, req[r].op \in Holding,
           NEW place, mail' = [mail EXCEPT ![req[r].new.token] = place],
           \/ req[r].op = "committed" /\ place = "queued"
           \/ req[r].op # "committed" /\ place = "dropped",
           Durable' = Durable, req'[r] = Idle, \A q \in Requests \ {r} : req'[q] = req[q]
    PROVE  Mails'
<1> DEFINE n == req[r].new.token
<1>1. n \in DOMAIN mail /\ (n \in Durable <=> req[r].op = "committed")
  BY DEF Mails, Held
<1>2. /\ DOMAIN mail' = DOMAIN mail /\ mail'[n] = place
      /\ \A t \in DOMAIN mail \ {n} : mail'[t] = mail[t]
  BY <1>1
<1>3. \A q \in Requests \ {r} :
        req[q].op \in Holding => req[q].new.token \in DOMAIN mail \ {n}
  BY DEF Mails, Held, OneHolds
<1>4. Held(r)'
  BY IdleIs DEF Held
<1>5. \A q \in Requests \ {r} : Held(q)'
  BY <1>2, <1>3 DEF Mails, Held
<1>6. OneHolds'
  BY IdleIs DEF Mails, OneHolds
<1>7. MailIffDurable'
  <2> SUFFICES ASSUME NEW t \in DOMAIN mail
               PROVE  /\ mail'[t] \in HandedOver => t \in Durable
                      /\ mail'[t] = "pending" => \E q \in Requests : req'[q].new.token = t
                      /\ mail'[t] = "dropped" /\ restarts = 0 => t \notin Durable
    BY <1>2 DEF MailIffDurable
  <2>1. CASE t = n
    BY <1>1, <1>2, <2>1 DEF HandedOver
  <2>2. CASE t # n
    <3>1. mail'[t] = mail[t]
      BY <1>2, <2>2
    <3>2. ASSUME mail[t] = "pending" PROVE \E q \in Requests : req'[q].new.token = t
      <4>1. PICK q \in Requests : req[q].new.token = t
        BY <3>2 DEF Mails, MailIffDurable
      <4> QED BY <2>2, <4>1
    <3> QED BY <3>1, <3>2 DEF Mails, MailIffDurable
  <2> QED BY <2>1, <2>2
<1> QED BY <1>2, <1>4, <1>5, <1>6, <1>7 DEF Mails

\* A mail in the pool is delivered or lost.
LEMMA MailsSent ==
    ASSUME Types, Mails, UNCHANGED <<restarts, req>>, Durable' = Durable,
           NEW t \in DOMAIN mail, mail[t] = "queued",
           NEW place \in {"delivered", "lost"}, mail' = [mail EXCEPT ![t] = place]
    PROVE  Mails'
<1>1. /\ DOMAIN mail' = DOMAIN mail /\ mail'[t] = place
      /\ \A u \in DOMAIN mail \ {t} : mail'[u] = mail[u]
  OBVIOUS
<1>2. \A r \in Requests : Held(r)'
  BY <1>1 DEF Mails, Held
<1>3. OneHolds'
  BY DEF Mails, OneHolds
<1>4. \A u \in DOMAIN mail :
         /\ mail'[u] \in HandedOver <=> mail[u] \in HandedOver
         /\ mail'[u] \in {"pending", "dropped"} => mail'[u] = mail[u]
  BY <1>1 DEF HandedOver
<1>5. MailIffDurable'
  BY <1>1, <1>4, Zenon DEF Mails, MailIffDurable
<1> QED BY <1>1, <1>2, <1>3, <1>5 DEF Mails

\* A restart: no session is left, and mail may be dropped though its link stands.
LEMMA MailsCrash ==
    ASSUME Types, Mails, Durable' = Durable, restarts' # 0, \A r \in Requests : req'[r] = Idle,
           mail' = [t \in DOMAIN mail |->
                       IF mail[t] = "pending" THEN "dropped"
                       ELSE IF mail[t] = "queued" THEN "lost" ELSE mail[t]]
    PROVE  Mails' /\ mail' \in Seq(Place)
<1>1. /\ DOMAIN mail' = DOMAIN mail
      /\ \A t \in DOMAIN mail : mail'[t] # "pending"
      /\ \A t \in DOMAIN mail : mail'[t] \in HandedOver => mail[t] \in HandedOver
  BY DEF HandedOver
<1>2. \A r \in Requests : Held(r)'
  BY IdleIs DEF Held
<1>3. OneHolds'
  BY IdleIs DEF OneHolds
<1>4. MailIffDurable'
  BY <1>1 DEF Mails, MailIffDurable
<1>5. mail' \in Seq(Place)
  <2>1. \A t \in DOMAIN mail : mail[t] \in Place
    BY ElementOfSeq, MailIs DEF Types
  <2>2. mail' \in [1 .. Len(mail) -> Place]
    BY <2>1, MailIs DEF Place, HandedOver
  <2> QED BY <2>2, MailIs, SeqDef
<1> QED BY <1>1, <1>2, <1>3, <1>4, <1>5 DEF Mails

LEMMA StepInv ==
    ASSUME Inv, [Next]_accountsVars
    PROVE  Inv'
<1> USE DEF Inv
<1>1. now \in Time /\ raced \in BOOLEAN /\ restarts \in Nat /\ (user # NoUser => user \in User)
  BY DEF Types
<1>2. links' = links => Durable' = Durable
  BY DEF Durable, Tokens
<1>3. CASE UNCHANGED accountsVars \/ Clock
  <2>1. now' \in Time
    BY <1>1, <1>3, RateLimitAssumption, SMT DEF Clock, Tick, Time, accountsVars, rateVars
  <2>2. UNCHANGED <<user, links, mail, resets, req, raced, restarts>>
    BY <1>3 DEF accountsVars, Clock, accountVars
  <2>3. Types' /\ NoLinksBefore' /\ ReadsPassed'
    BY <2>1, <2>2 DEF Types, NoLinksBefore, ReadsPassed, Passed, OneRegisters
  <2>4. Mails'
    BY <1>2, <2>2 DEF Mails, Held, OneHolds, MailIffDurable
  <2> QED BY <2>3, <2>4
<1>4. CASE Crash
  <2>1. /\ UNCHANGED <<now, user, links, resets, raced>> /\ restarts' = restarts + 1
        /\ req' = [r \in Requests |-> Idle]
        /\ mail' = [t \in DOMAIN mail |->
                       IF mail[t] = "pending" THEN "dropped"
                       ELSE IF mail[t] = "queued" THEN "lost" ELSE mail[t]]
    BY <1>4 DEF Crash, RateRestart
  <2>2. restarts' \in Nat /\ restarts' # 0
    BY <1>1, <2>1
  <2>3. req' \in [Requests -> Request] /\ \A r \in Requests : req'[r] = Idle
    BY <2>1, IdleIs
  <2>4. Mails' /\ mail' \in Seq(Place)
    BY <1>2, <2>1, <2>2, <2>3, MailsCrash
  <2>5. ReadsPassed'
    BY <2>3, EndedPassed DEF ReadsPassed, OneRegisters
  <2> QED BY <2>1, <2>2, <2>3, <2>4, <2>5 DEF Types, NoLinksBefore
<1>5. CASE Mailing
  <2>1. PICK t \in DOMAIN mail : Deliver(t) \/ SendFails(t)
    BY <1>5 DEF Mailing
  <2>2. PICK place \in {"delivered", "lost"} : mail' = [mail EXCEPT ![t] = place]
    BY <2>1 DEF Deliver, SendFails
  <2>3. /\ UNCHANGED <<now, user, links, resets, req, raced, restarts>>
        /\ mail[t] = "queued"
    BY <2>1 DEF Deliver, SendFails, rateVars
  <2>4. mail' \in Seq(Place)
    <3>1. place \in Place /\ mail \in Seq(Place) /\ t \in 1 .. Len(mail)
      BY MailIs DEF Place, HandedOver, Types
    <3> QED BY <2>2, <3>1, ExceptSeq
  <2>5. Mails'
    BY <1>2, <2>2, <2>3, MailsSent
  <2> QED BY <2>3, <2>4, <2>5 DEF Types, NoLinksBefore, ReadsPassed, Passed, OneRegisters
<1>6. ASSUME NEW r \in Requests, Step(r) PROVE Inv'
  <2>1. \A k \in Kind : Live(k) \in SUBSET Nat
    BY LiveLinks
  \* Steps by what they do to r and to the mail.
  <2>2. ASSUME Ends(r), UNCHANGED <<now, links, mail, resets, restarts>>, raced' \in BOOLEAN,
               req[r].op \notin Holding,
               user' = user \/ (user \in User /\ user' \in User)
        PROVE  Inv'
    <3>1. /\ req' \in [Requests -> Request] /\ req'[r] = Idle
          /\ \A q \in Requests \ {r} : req'[q] = req[q]
      BY <2>2, EndsEffect
    <3>2. ReadsPassed'
      BY <2>2, <3>1, PassedKept, EndedPassed
    <3>3. Mails'
      BY <1>2, <2>2, <3>1, IdleIs, MailsSame
    <3> QED BY <2>2, <3>1, <3>2, <3>3, NoUserIsNone DEF Types, NoLinksBefore
  <2>3. ASSUME NEW op \in Op \ Issuing, NEW row \in User \cup {NoUser}, NEW live \in SUBSET Nat,
               NEW i \in Nat, Reads(r, op, row, live, i),
               UNCHANGED <<now, user, links, mail, resets, raced, restarts>>,
               op \in OnAccount => row \in User /\ user \in User,
               op = "nda" => row.nda = 0,
               op = "redeem" => i \in live /\ i # 0
        PROVE  Inv'
    <3>1. /\ req' \in [Requests -> Request]
          /\ req'[r] = [op |-> op, user |-> row, live |-> live, link |-> i, new |-> NoLink]
          /\ \A q \in Requests \ {r} : req'[q] = req[q]
      BY <2>3, SawEffect DEF Reads
    <3>2. req[r].op \notin Holding /\ req'[r].op \notin Holding
      BY <2>3, <3>1 DEF Reads, Admitted, Holding, Issuing, Op, Role
    <3>3. Passed(r)' /\ req'[r].op # "register"
      BY <2>3, <3>1 DEF Passed, Issuing
    <3>4. ReadsPassed'
      BY <2>3, <3>1, <3>3, PassedKept
    <3>5. Mails'
      BY <1>2, <2>3, <3>1, <3>2, MailsSame
    <3> QED BY <2>3, <3>1, <3>4, <3>5 DEF Types, NoLinksBefore
  <2>4. ASSUME NEW op \in Issuing, NEW k \in Kind, NEW row \in User \cup {NoUser},
               NEW live \in SUBSET Nat, Draws(r, op, k, row, live), req[r].op \notin Holding,
               UNCHANGED <<now, user, links, resets, restarts>>, raced' \in BOOLEAN,
               op = "resend" => row \in User /\ user \in User /\ row.confirmed = 0,
               op = "register" => /\ user = NoUser /\ row \in User /\ row.confirmed = 0
                                  /\ live = {}
                                  /\ \A q \in Requests : req[q].op # "register"
        PROVE  Inv'
    <3>1. /\ req' \in [Requests -> Request]
          /\ req'[r] = [op |-> op, user |-> row, live |-> live, link |-> 0, new |-> NewLink(k)]
          /\ \A q \in Requests \ {r} : req'[q] = req[q]
          /\ NewLink(k) \in Link /\ ~NewLink(k).used /\ NewLink(k).token = Len(mail) + 1
          /\ mail' \in Seq(Place)
          /\ DOMAIN mail' = 1 .. Len(mail) + 1 /\ mail'[Len(mail) + 1] = "pending"
          /\ \A t \in DOMAIN mail : mail'[t] = mail[t]
      <4>1. Types /\ Draws(r, op, k, row, live)
        BY <2>4
      <4> QED BY ONLY <4>1, r \in Requests, op \in Issuing, row \in User \cup {NoUser},
                      live \in SUBSET Nat, DrawsEffect
    <3>2. req'[r].op = op /\ req'[r].user = row /\ req'[r].live = live /\ req'[r].new = NewLink(k)
      BY <3>1
    <3>3. Passed(r)'
      BY <2>4, <3>2 DEF Passed, Issuing, OnAccount, Role
    <3>4. ASSUME NEW q \in Requests \ {r} PROVE Passed(q)'
      BY <2>4, <3>1 DEF ReadsPassed, Passed
    <3>5. OneRegisters'
      BY <2>4, <3>1, <3>2 DEF ReadsPassed, OneRegisters
    <3>6. Mails'
      BY <1>2, <2>4, <3>1, <3>2, MailsDrawn
    <3> QED BY <2>4, <3>1, <3>3, <3>4, <3>5, <3>6 DEF Types, NoLinksBefore, ReadsPassed
  <2>5. ASSUME NEW k \in Kind, req[r].op \in Issuing, Issue(k, r), Committed(r),
               UNCHANGED <<now, mail, resets, restarts>>, raced' \in BOOLEAN,
               \/ user' = user /\ (k = "confirm" => user \in User)
               \/ req[r].op = "register" /\ user' = req[r].user
        PROVE  Inv'
    <3>1. req[r].op \in Holding
      BY <2>5 DEF Holding
    <3>2. req[r].new \in Link /\ ~req[r].new.used
      BY <3>1 DEF Mails, Held
    <3>3. /\ links' \in [Kind -> Seq(Link)] /\ Durable' = Durable \cup {req[r].new.token}
          /\ k = "reset" => links'["confirm"] = links["confirm"]
      BY <2>5, <3>2, IssueEffect DEF Kind
    <3>4. /\ req' \in [Requests -> Request]
          /\ req'[r].op = "committed" /\ req'[r].new = req[r].new
          /\ \A q \in Requests \ {r} : req'[q] = req[q]
      BY <2>5, <3>2, CommittedEffect
    <3>5. Mails'
      BY <2>5, <3>3, <3>4, MailsCommitted
    <3>6. Passed(r)' /\ req'[r].op # "register"
      BY <3>4 DEF Passed, OnAccount, Role
    <3>7. CASE user' = user /\ (k = "confirm" => user \in User)
      <4>1. ReadsPassed'
        BY <3>4, <3>6, <3>7, PassedKept
      <4>2. NoLinksBefore'
        BY <2>5, <3>3, <3>7, NoUserIsNone DEF NoLinksBefore, Kind
      <4> QED BY <2>5, <3>3, <3>4, <3>5, <3>7, <4>1, <4>2 DEF Types
    <3>8. CASE req[r].op = "register" /\ user' = req[r].user
      <4>1. user = NoUser /\ user' \in User
        BY <3>8 DEF ReadsPassed, Passed
      <4>2. ASSUME NEW q \in Requests \ {r} PROVE Passed(q)'
        <5>1. req[q].op # "register"
          BY <3>8 DEF ReadsPassed, OneRegisters
        <5> QED BY <3>4, <4>1, <5>1 DEF ReadsPassed, Passed
      <4>3. OneRegisters'
        BY <3>4, <3>6 DEF ReadsPassed, OneRegisters
      <4>4. NoLinksBefore'
        BY <4>1, NoUserIsNone DEF NoLinksBefore
      <4> QED BY <2>5, <3>3, <3>4, <3>5, <3>6, <4>1, <4>2, <4>3, <4>4 DEF Types, ReadsPassed
    <3> QED BY <2>5, <3>7, <3>8
  <2>6. ASSUME NEW k \in Kind, NEW live, Redeem(k, live), Ends(r), req[r].op \notin Holding,
               UNCHANGED <<now, mail, restarts>>, raced' \in BOOLEAN,
               resets' \in Seq(Nat \ {0}),
               user' = user \/ (user \in User /\ user' \in User),
               k = "confirm" => user \in User
        PROVE  Inv'
    <3>1. /\ links' \in [Kind -> Seq(Link)] /\ Durable' = Durable
          /\ k = "reset" => links'["confirm"] = links["confirm"]
      BY <2>6, RedeemEffect DEF Kind
    <3>2. /\ req' \in [Requests -> Request] /\ req'[r] = Idle
          /\ \A q \in Requests \ {r} : req'[q] = req[q]
      BY <2>6, EndsEffect
    <3>3. ReadsPassed'
      BY <2>6, <3>2, PassedKept, EndedPassed
    <3>4. Mails'
      BY <2>6, <3>1, <3>2, IdleIs, MailsSame
    <3>5. NoLinksBefore'
      BY <2>6, <3>1, NoUserIsNone DEF NoLinksBefore, Kind
    <3> QED BY <2>6, <3>1, <3>2, <3>3, <3>4, <3>5 DEF Types
  <2>6a. ASSUME Ends(r), UNCHANGED <<now, user, links, resets, raced, restarts>>,
                req[r].op \in Holding, NEW place \in Place,
                mail' = [mail EXCEPT ![req[r].new.token] = place],
                \/ req[r].op = "committed" /\ place = "queued"
                \/ req[r].op # "committed" /\ place = "dropped"
         PROVE  Inv'
    <3>1. /\ req' \in [Requests -> Request] /\ req'[r] = Idle
          /\ \A q \in Requests \ {r} : req'[q] = req[q]
      BY <2>6a, EndsEffect
    <3>2. ReadsPassed'
      BY <2>6a, <3>1, PassedKept, EndedPassed
    <3>3. mail' \in Seq(Place)
      <4>1. mail \in Seq(Place) /\ req[r].new.token \in 1 .. Len(mail)
        BY <2>6a, MailIs DEF Types, Mails, Held
      <4> QED BY <2>6a, <4>1, ExceptSeq
    <3>4. Mails'
      BY <1>2, <2>6a, <3>1, MailsDecided
    <3> QED BY <2>6a, <3>1, <3>2, <3>3, <3>4 DEF Types, NoLinksBefore
  \* The requests, step by step.
  <2>7. ASSUME NEW role \in FirstRoles, RegisterRead(r, role) PROVE Inv'
    <3> DEFINE row == [buyer |-> role = "buyer", seller |-> role = "seller",
                       nda |-> 0, confirmed |-> 0]
    <3>1. row \in User /\ row.confirmed = 0
      BY <1>1, Stamps DEF User
    <3>2. Draws(r, "register", "confirm", row, {})
      BY <2>7 DEF RegisterRead
    <3> HIDE DEF row
    <3> QED BY <1>1, <2>4, <2>7, <3>1, <3>2 DEF RegisterRead, rateVars, Issuing, Holding, Kind
  <2>8. CASE Register(r)
    BY <1>1, <2>5, <2>8 DEF Register, rateVars, Issuing, Kind
  <2>9. CASE SignRead(r)
    BY <1>1, <2>3, <2>9 DEF SignRead, rateVars, Op, Issuing
  <2>10. ASSUME NEW role \in Role, RoleRead(r, role) PROVE Inv'
    BY <1>1, <2>3, <2>10 DEF RoleRead, rateVars, Op, Role, Issuing
  <2>11. CASE ResendRead(r)
    BY <1>1, <2>1, <2>4, <2>11 DEF ResendRead, Admitted, rateVars, Holding, Issuing, Kind
  <2>12. ASSUME NEW i \in DOMAIN links["confirm"], VerifyRead(r, i) PROVE Inv'
    <3>1. links["confirm"] # <<>> /\ i \in Nat
      BY <2>12, LiveLinks DEF VerifyRead, Redeemable, Kind, Live
    <3>2. user \in User
      BY <1>1, <3>1 DEF NoLinksBefore
    <3> QED BY <2>1, <2>3, <2>12, <3>1, <3>2 DEF VerifyRead, rateVars, Op, Kind, Issuing
  <2>13. ASSUME NEW k \in Keys, ForgotCount(r, k) PROVE Inv'
    BY <2>3, <2>13 DEF ForgotCount, HitStart, Op, OnAccount, Role, Issuing
  <2>14. ASSUME NEW i \in DOMAIN links["reset"], ResetRead(r, i) PROVE Inv'
    <3>1. i \in Live("reset") /\ i \in Nat /\ i # 0
      BY <2>14, LiveLinks DEF ResetRead, Redeemable, Kind
    <3> QED BY <2>1, <2>3, <2>14, <3>1 DEF ResetRead, rateVars, Op, Kind, OnAccount, Role, Issuing
  <2>15. CASE Counting(r)
    <3>1. UNCHANGED <<now, user, links, mail, resets, req, restarts>> /\ raced' \in BOOLEAN
      BY <1>1, <2>15 DEF Counting, accountVars, SweepCheck, SweepList, SweepKey, HitRead
    <3>2. Types' /\ NoLinksBefore' /\ ReadsPassed'
      BY <3>1 DEF Types, NoLinksBefore, ReadsPassed, Passed, OneRegisters
    <3>3. Mails'
      BY <1>2, <3>1 DEF Mails, Held, OneHolds, MailIffDurable
    <3> QED BY <3>2, <3>3
  <2>16. CASE CountBreaks(r)
    BY <1>1, <2>2, <2>16 DEF CountBreaks, SweepBreaks, Holding, Issuing
  <2>17. CASE ForgotRead(r)
    <3>1. /\ UNCHANGED <<now, user, links, resets, restarts>> /\ raced' \in BOOLEAN
          /\ req[r].op \notin Holding
      BY <1>1, <2>17 DEF ForgotRead, HitWrite, Holding, Issuing
    <3>2. (UNCHANGED mail /\ Ends(r)) \/ Draws(r, "forgot", "reset", NoUser, Live("reset"))
      BY <2>17 DEF ForgotRead
    <3> QED BY <2>1, <2>2, <2>4, <3>1, <3>2 DEF Issuing, Kind
  <2>18. CASE WriteFails(r)
    <3>1. UNCHANGED <<now, user, links, resets, raced, restarts>> /\ Ends(r)
      BY <2>18 DEF WriteFails, rateVars
    <3>2. CASE req[r].op \in Issuing
      <4>1. mail' = [mail EXCEPT ![req[r].new.token] = "dropped"]
        BY <2>18, <3>2 DEF WriteFails
      <4>2. req[r].op \in Holding /\ req[r].op # "committed"
        BY <3>2 DEF Holding, Issuing
      <4> QED BY <2>6a, <3>1, <4>1, <4>2 DEF Place
    <3>3. CASE req[r].op \notin Issuing
      BY <1>1, <2>2, <2>18, <3>1, <3>3 DEF WriteFails, Holding
    <3> QED BY <3>2, <3>3
  <2>19. CASE HandOver(r)
    <3>1. /\ UNCHANGED <<now, user, links, resets, raced, restarts>> /\ Ends(r)
          /\ req[r].op = "committed" /\ mail' = [mail EXCEPT ![req[r].new.token] = "queued"]
      BY <2>19 DEF HandOver, rateVars
    <3> QED BY <2>6a, <3>1 DEF Place, HandedOver, Holding
  <2>20. CASE SignWrite(r)
    <3>1. req[r].user \in User /\ user \in User
      BY <2>20 DEF SignWrite, ReadsPassed, Passed, OnAccount
    <3>2. user' \in User
      BY <1>1, <2>20, <3>1, SignedRow, FlushedRow DEF SignWrite
    <3>3. raced' \in BOOLEAN
      BY <1>1, <2>20 DEF SignWrite
    <3> QED BY <2>2, <2>20, <3>1, <3>2, <3>3 DEF SignWrite, rateVars, Holding, Issuing
  <2>21. CASE RoleWrite(r)
    <3>1. req[r].user \in User /\ user \in User
      BY <2>21 DEF RoleWrite, ReadsPassed, Passed, OnAccount
    <3>2. user' \in User
      BY <2>21, <3>1, GrantedRow, FlushedRow DEF RoleWrite
    <3>3. raced' \in BOOLEAN
      BY <1>1, <2>21 DEF RoleWrite
    <3> QED BY <2>2, <2>21, <3>1, <3>2, <3>3 DEF RoleWrite, rateVars, Holding, Issuing, Role
  <2>22. CASE ResendWrite(r)
    <3>1. user \in User
      BY <2>22 DEF ResendWrite, ReadsPassed, Passed, OnAccount
    <3>2. raced' \in BOOLEAN
      BY <1>1, <2>22 DEF ResendWrite, Stale
    <3> QED BY <2>5, <2>22, <3>1, <3>2 DEF ResendWrite, rateVars, Issuing, Kind
  <2>23. CASE VerifyWrite(r)
    <3>1. req[r].user \in User /\ user \in User
      BY <2>23 DEF VerifyWrite, ReadsPassed, Passed, OnAccount
    <3>2. user' \in User
      BY <1>1, <2>23, <3>1, ConfirmedRowIs, FlushedRow DEF VerifyWrite, ConfirmedRow
    <3>3. raced' \in BOOLEAN
      BY <1>1, <2>23 DEF VerifyWrite, Stale
    <3>4. resets' \in Seq(Nat \ {0})
      BY <2>23 DEF VerifyWrite, Types
    <3> QED BY <2>6, <2>23, <3>1, <3>2, <3>3, <3>4 DEF VerifyWrite, rateVars, Holding, Issuing, Kind
  <2>24. CASE ForgotWrite(r)
    <3>1. raced' \in BOOLEAN
      BY <1>1, <2>24 DEF ForgotWrite
    <3> QED BY <2>5, <2>24, <3>1 DEF ForgotWrite, rateVars, Issuing, Kind
  <2>25. CASE ResetWrite(r)
    <3>1. raced' \in BOOLEAN
      BY <1>1, <2>25 DEF ResetWrite
    <3>2. req[r].link \in Nat \ {0}
      BY <2>25 DEF ResetWrite, ReadsPassed, Passed, Types, Request
    <3>3. resets' \in Seq(Nat \ {0})
      BY <2>25, <3>2, AppendProperties DEF ResetWrite, Types
    <3> QED BY <2>6, <2>25, <3>1, <3>3 DEF ResetWrite, rateVars, Holding, Issuing, Kind
  <2> QED
    BY <1>6, <2>7, <2>8, <2>9, <2>10, <2>11, <2>12, <2>13, <2>14, <2>15, <2>16, <2>17, <2>18,
       <2>19, <2>20, <2>21, <2>22, <2>23, <2>24, <2>25
    DEF Step, Confirming, Resetting
<1> QED BY <1>3, <1>4, <1>5, <1>6 DEF Next

LEMMA InvHolds == Spec => []Inv
<1>1. Inv /\ [Next]_accountsVars => Inv'
  BY StepInv
<1> QED BY InitInv, <1>1, PTL DEF Spec

\* Whatever fails or overlaps, a mail is handed over only for a link that is
\* durable, and, unless the server stops, none is left on a session that is gone
\* or dropped for a link that stands.
THEOREM MailFollowsCommit == Spec => []MailIffDurable
<1>1. Inv => MailIffDurable
  BY DEF Inv, Mails
<1> QED BY <1>1, InvHolds, PTL

----------------------------------------------------------------------------
(* Links are single-use, as long as no write is made from a stale read. *)

\* A link that has changed the password is marked.
RedeemedAreSpent ==
    \A j \in DOMAIN resets :
        resets[j] \in 1 .. Len(links["reset"]) /\ resets[j] \notin Live("reset")

SingleInv == ~raced => OnlyNewestLive /\ ResetsDiffer /\ NoneOnceConfirmed /\ RedeemedAreSpent

LEMMA InitSingle == Init => SingleInv
<1> SUFFICES ASSUME Init PROVE SingleInv
  OBVIOUS
<1>1. \A k \in Kind : Live(k) = {}
  BY DEF Init, Live
<1>2. resets = <<>> /\ user = NoUser
  BY DEF Init
<1>3. DOMAIN resets = {}
  BY <1>2
<1> QED BY <1>1, <1>2, <1>3 DEF SingleInv, OnlyNewestLive, ResetsDiffer, NoneOnceConfirmed,
           RedeemedAreSpent

\* A step that issues and redeems nothing.
LEMMA SingleSame ==
    ASSUME SingleInv, UNCHANGED <<links, resets>>, ~raced' => ~raced,
           user' = user \/ (user \in User /\ user' \in User /\ user'.confirmed = user.confirmed)
    PROVE  SingleInv'
<1>1. \A k \in Kind : Live(k)' = Live(k)
  BY DEF Live
<1> QED BY <1>1, NoUserIsNone DEF SingleInv, OnlyNewestLive, ResetsDiffer, NoneOnceConfirmed,
           RedeemedAreSpent, Kind

\* The link that is about to be issued.
LEMMA HeldLink ==
    ASSUME Inv, NEW r \in Requests, req[r].op \in Issuing
    PROVE  req[r].new \in Link /\ ~req[r].new.used
BY DEF Inv, Mails, Held, Holding

\* Issuing a link when every live one was read leaves the new one only.
LEMMA SingleIssue ==
    ASSUME Inv, SingleInv, ~raced, ~raced', NEW k \in Kind, NEW r \in Requests,
           req[r].op \in Issuing, req[r].live = Live(k), Issue(k, r), UNCHANGED resets,
           k = "confirm" => user'.confirmed = 0,
           k = "reset" => UNCHANGED user
    PROVE  SingleInv'
<1>1. /\ Len(links'[k]) = Len(links[k]) + 1
      /\ Live(k)' = {Len(links[k]) + 1}
      /\ \A j \in Kind \ {k} : links'[j] = links[j] /\ Live(j)' = Live(j)
  BY HeldLink, IssueEffect DEF Inv
<1>2. OnlyNewestLive'
  BY <1>1 DEF SingleInv, OnlyNewestLive
<1>3. ResetsDiffer'
  BY DEF SingleInv, ResetsDiffer
<1>4. NoneOnceConfirmed'
  BY <1>1 DEF SingleInv, NoneOnceConfirmed, Kind
<1>5. RedeemedAreSpent'
  <2>1. CASE k = "confirm"
    BY <1>1, <2>1 DEF SingleInv, RedeemedAreSpent, Kind
  <2>2. CASE k = "reset"
    <3>1. Len(links["reset"]) \in Nat
      BY LiveLinks DEF Inv, Kind
    <3>2. \A n \in 1 .. Len(links["reset"]) :
             n \in 1 .. Len(links["reset"]) + 1 /\ n \notin {Len(links["reset"]) + 1}
      BY <3>1, SMT
    <3> QED BY <1>1, <2>2, <3>2 DEF SingleInv, RedeemedAreSpent
  <2> QED BY <2>1, <2>2 DEF Kind
<1> QED BY <1>2, <1>3, <1>4, <1>5 DEF SingleInv

\* The steps that leave the account's row and its links alone, and the others.
Apart == UNCHANGED <<user, links, resets>> /\ (raced => raced')

LEMMA StepCases ==
    ASSUME Inv, NEW r \in Requests, Step(r)
    PROVE  \/ Apart \/ Register(r) \/ SignWrite(r) \/ RoleWrite(r) \/ ResendWrite(r)
           \/ VerifyWrite(r) \/ ForgotWrite(r) \/ ResetWrite(r)
<1>1. ASSUME NEW x, \/ RegisterRead(r, x) \/ RoleRead(r, x) \/ VerifyRead(r, x)
                    \/ ForgotCount(r, x) \/ ResetRead(r, x)
      PROVE  Apart
  BY <1>1 DEF RegisterRead, RoleRead, VerifyRead, ForgotCount, ResetRead, Apart
<1>2. CASE SignRead(r) \/ ResendRead(r) \/ CountBreaks(r) \/ HandOver(r) \/ WriteFails(r)
  BY <1>2 DEF SignRead, ResendRead, CountBreaks, HandOver, WriteFails, Apart, Inv, Types
<1>3. CASE Counting(r) \/ ForgotRead(r)
  BY <1>3, Zenon DEF Counting, ForgotRead, accountVars, Apart
<1> QED BY <1>1, <1>2, <1>3 DEF Step, Confirming, Resetting

LEMMA SingleStep ==
    ASSUME Inv, SingleInv, [Next]_accountsVars
    PROVE  SingleInv'
<1>1. CASE raced'
  BY <1>1 DEF SingleInv
<1>2. CASE UNCHANGED accountsVars \/ Clock \/ Mailing \/ Crash
  BY <1>2, SingleSame DEF accountsVars, accountVars, Clock, Mailing, Deliver, SendFails, Crash
<1>4. ASSUME NEW r \in Requests, Step(r), ~raced' PROVE SingleInv'
  <2>1. now \in Time
    BY DEF Inv, Types
  <2>2. CASE Apart
    BY <1>4, <2>2, SingleSame DEF Apart
  <2>3. CASE Register(r)
    <3>1. user = NoUser /\ req[r].live = {} /\ req[r].user.confirmed = 0
      BY <2>3 DEF Register, Inv, ReadsPassed, Passed
    <3>2. Live("confirm") = {}
      BY <3>1, EmptySeq DEF Inv, NoLinksBefore, Live
    <3> QED BY <1>4, <2>3, <3>1, <3>2, SingleIssue DEF Register, Issuing, Kind
  <2>4. CASE SignWrite(r)
    <3>1. /\ user \in User /\ req[r].user \in User
          /\ [req[r].user EXCEPT !.nda = now] \in User
          /\ [req[r].user EXCEPT !.nda = now].confirmed = req[r].user.confirmed
      BY <2>1, <2>4, SignedRow DEF SignWrite, Inv, ReadsPassed, Passed, OnAccount
    <3>2. user' \in User /\ user'.confirmed = user.confirmed
      BY <2>4, <3>1, FlushedRow DEF SignWrite
    <3> QED BY <1>4, <2>4, <3>1, <3>2, SingleSame DEF SignWrite, Inv, Types
  <2>5. CASE RoleWrite(r)
    <3>1. /\ user \in User /\ req[r].user \in User
          /\ Granted(req[r].user, req[r].op) \in User
          /\ Granted(req[r].user, req[r].op).confirmed = req[r].user.confirmed
      BY <2>5, GrantedRow DEF RoleWrite, Inv, ReadsPassed, Passed, OnAccount
    <3>2. user' \in User /\ user'.confirmed = user.confirmed
      BY <2>5, <3>1, FlushedRow DEF RoleWrite
    <3> QED BY <1>4, <2>5, <3>1, <3>2, SingleSame DEF RoleWrite, Inv, Types
  <2>6. CASE ResendWrite(r)
    <3>1. /\ ~raced /\ req[r].live = Live("confirm") /\ req[r].user = user
          /\ UNCHANGED <<user, resets>>
      BY <1>4, <2>6 DEF ResendWrite, Stale, Inv, Types
    <3>2. user.confirmed = 0
      BY <2>6, <3>1 DEF ResendWrite, Inv, ReadsPassed, Passed
    <3> QED BY <1>4, <2>6, <3>1, <3>2, SingleIssue DEF ResendWrite, Issuing, Kind
  <2>7. CASE ForgotWrite(r)
    <3>1. ~raced /\ req[r].live = Live("reset") /\ UNCHANGED <<user, resets>>
      BY <1>4, <2>7 DEF ForgotWrite, Inv, Types
    <3> QED BY <1>4, <2>7, <3>1, SingleIssue DEF ForgotWrite, Issuing, Kind
  <2>8. CASE VerifyWrite(r)
    <3>1. ~raced /\ req[r].live = Live("confirm") /\ UNCHANGED <<mail, resets>>
      BY <1>4, <2>8 DEF VerifyWrite, Stale, Inv, Types
    <3>2. /\ Live("confirm")' = {}
          /\ links'["reset"] = links["reset"] /\ Live("reset")' = Live("reset")
      BY <2>8, <3>1, RedeemEffect DEF VerifyWrite, Inv, Kind
    <3> QED BY <3>1, <3>2 DEF SingleInv, OnlyNewestLive, ResetsDiffer, NoneOnceConfirmed,
               RedeemedAreSpent, Kind
  <2>9. CASE ResetWrite(r)
    <3> DEFINE i == req[r].link
    <3>1. /\ ~raced /\ req[r].live = Live("reset") /\ UNCHANGED <<mail, user>>
          /\ resets' = Append(resets, i)
      BY <1>4, <2>9 DEF ResetWrite, Inv, Types
    <3>2. /\ Live("reset")' = {}
          /\ Len(links'["reset"]) = Len(links["reset"])
          /\ links'["confirm"] = links["confirm"] /\ Live("confirm")' = Live("confirm")
      BY <2>9, <3>1, RedeemEffect DEF ResetWrite, Inv, Kind
    <3>3. i \in Live("reset")
      BY <2>9, <3>1 DEF ResetWrite, Inv, ReadsPassed, Passed
    <3>4. i \in Nat \ {0} /\ i \in 1 .. Len(links["reset"])
      BY <3>3, LiveLinks DEF Inv, Kind
    <3>5. resets \in Seq(Nat \ {0})
      BY DEF Inv, Types
    <3>6. /\ DOMAIN resets = 1 .. Len(resets) /\ Len(resets) \in Nat
          /\ DOMAIN resets' = 1 .. Len(resets) + 1
          /\ \A j \in 1 .. Len(resets) : resets'[j] = resets[j]
          /\ resets'[Len(resets) + 1] = i
      <4>1. Append(resets, i) \in Seq(Nat \ {0}) /\ Len(Append(resets, i)) = Len(resets) + 1
        BY <3>4, <3>5, AppendProperties
      <4> HIDE DEF i
      <4> QED BY <3>1, <3>4, <3>5, <4>1, AppendProperties, LenProperties
    <3>7. \A j \in DOMAIN resets :
             resets[j] \in 1 .. Len(links["reset"]) /\ resets[j] # i
      BY <3>1, <3>3 DEF SingleInv, RedeemedAreSpent
    <3> HIDE DEF i
    <3>8. \A j \in DOMAIN resets' : j \in DOMAIN resets \/ j = Len(resets) + 1
      BY <3>6, SMT
    <3>9. ResetsDiffer'
      <4> SUFFICES ASSUME NEW m \in DOMAIN resets', NEW n \in DOMAIN resets',
                          resets'[m] = resets'[n]
                   PROVE  m = n
        BY DEF ResetsDiffer
      <4> QED BY <3>1, <3>6, <3>7, <3>8 DEF SingleInv, ResetsDiffer
    <3>10. RedeemedAreSpent'
      BY <3>2, <3>4, <3>6, <3>7, <3>8 DEF RedeemedAreSpent
    <3>11. OnlyNewestLive' /\ NoneOnceConfirmed'
      BY <3>1, <3>2 DEF SingleInv, OnlyNewestLive, NoneOnceConfirmed, Kind
    <3> QED BY <3>9, <3>10, <3>11 DEF SingleInv
  <2> QED BY <1>4, <2>2, <2>3, <2>4, <2>5, <2>6, <2>7, <2>8, <2>9, StepCases
<1> QED BY <1>1, <1>2, <1>4 DEF Next

\* From current reads, one link of a kind is good at a time, a reset link works
\* once, and no link to confirm an address outlives its confirmation.
THEOREM LinksAreSingleUse == Spec => []SingleUse
<1>1. Inv /\ SingleInv /\ [Next]_accountsVars => SingleInv'
  BY SingleStep
<1>2. SingleInv => SingleUse
  BY DEF SingleInv, SingleUse
<1> QED BY InitSingle, InvHolds, <1>1, <1>2, PTL DEF Spec

----------------------------------------------------------------------------
(* What the owner of the account may rely on (LinkContract). *)

LEMMA InitLinks == Init => Resets!Init
BY EmptySeq DEF Init, Resets!Init, Live, Kind

\* A reset link is issued: it is the good one.
LEMMA IssueAsks ==
    ASSUME Inv, NEW r \in Requests, req[r].op \in Issuing, Issue("reset", r),
           req[r].live = Live("reset"), UNCHANGED resets
    PROVE  Resets!Ask
<1>1. /\ Len(links'["reset"]) = Len(links["reset"]) + 1
      /\ Live("reset")' = {Len(links["reset"]) + 1}
  BY HeldLink, IssueEffect DEF Inv, Kind
<1> QED BY <1>1 DEF Resets!Ask

\* A reset link is redeemed: it is the newest, and none is good after.
LEMMA ResetUses ==
    ASSUME Inv, SingleInv, NEW r \in Requests, ResetWrite(r), ~raced'
    PROVE  Resets!Use
<1>1. /\ ~raced /\ req[r].live = Live("reset") /\ UNCHANGED mail
      /\ Redeem("reset", Live("reset"))
      /\ resets' = Append(resets, req[r].link)
  BY DEF ResetWrite, Inv, Types
<1>2. /\ Live("reset")' = {}
      /\ Len(links'["reset"]) = Len(links["reset"])
  BY <1>1, RedeemEffect DEF Inv, Kind
<1>3. req[r].link \in Live("reset") /\ req[r].link # 0
  BY <1>1 DEF ResetWrite, Inv, ReadsPassed, Passed
<1>4. req[r].link = Len(links["reset"])
  BY <1>1, <1>3 DEF SingleInv, OnlyNewestLive, Kind
<1> QED BY <1>1, <1>2, <1>3, <1>4 DEF Resets!Use

LEMMA LinksStep ==
    ASSUME Inv, SingleInv, [Next /\ ~raced']_accountsVars
    PROVE  [Resets!Next]_(Resets!vars)
<1>1. ASSUME links'["reset"] = links["reset"], UNCHANGED resets
      PROVE  [Resets!Next]_(Resets!vars)
  BY <1>1 DEF Resets!vars, Live
<1>2. CASE UNCHANGED accountsVars \/ Clock \/ Mailing \/ Crash
  BY <1>1, <1>2 DEF accountsVars, accountVars, Clock, Mailing, Deliver, SendFails, Crash
<1>4. ASSUME NEW r \in Requests, Step(r), ~raced' PROVE [Resets!Next]_(Resets!vars)
  <2>1. CASE Apart \/ SignWrite(r) \/ RoleWrite(r)
    BY <1>1, <2>1 DEF Apart, SignWrite, RoleWrite
  <2>2. CASE Register(r)
    <3>1. links'["reset"] = links["reset"]
      BY <2>2, HeldLink, IssueEffect DEF Register, Issuing, Inv, Kind
    <3> QED BY <1>1, <2>2, <3>1 DEF Register
  <2>3. CASE ResendWrite(r)
    <3>1. links'["reset"] = links["reset"]
      BY <2>3, HeldLink, IssueEffect DEF ResendWrite, Issuing, Inv, Kind
    <3> QED BY <1>1, <2>3, <3>1 DEF ResendWrite
  <2>4. CASE VerifyWrite(r)
    <3>1. links'["reset"] = links["reset"]
      BY <2>4, RedeemEffect DEF VerifyWrite, Inv, Kind
    <3> QED BY <1>1, <2>4, <3>1 DEF VerifyWrite
  <2>5. CASE ForgotWrite(r)
    <3>1. /\ req[r].live = Live("reset") /\ UNCHANGED resets /\ Issue("reset", r)
          /\ req[r].op \in Issuing
      BY <1>4, <2>5 DEF ForgotWrite, Issuing, Inv, Types
    <3> QED BY <3>1, IssueAsks DEF Resets!Next
  <2>6. CASE ResetWrite(r)
    BY <1>4, <2>6, ResetUses DEF Resets!Next
  <2> QED BY <1>4, <2>1, <2>2, <2>3, <2>4, <2>5, <2>6, StepCases
<1> QED BY <1>2, <1>4 DEF Next

\* A serial schedule is a schedule.
LEMMA SerialSingle == SerialSpec => [](Inv /\ SingleInv)
<1>1. Init => Inv /\ SingleInv
  BY InitInv, InitSingle
<1>2. Inv /\ SingleInv /\ [Next /\ ~raced']_accountsVars => (Inv /\ SingleInv)'
  <2>1. [Next /\ ~raced']_accountsVars => [Next]_accountsVars
    OBVIOUS
  <2> QED BY <2>1, StepInv, SingleStep
<1> QED BY <1>1, <1>2, PTL DEF SerialSpec

\* From current reads the reset links of tokens.py implement LinkContract: a
\* link issued is the only good one, a link redeemed was, and whatever else
\* happens to the account, a restart included, neither brings a link back nor
\* puts an end to one.
THEOREM AccountKeepsLinks == SerialSpec => KeepsLinks
<1>1. Inv /\ SingleInv /\ [Next /\ ~raced']_accountsVars => [Resets!Next]_(Resets!vars)
  BY LinksStep
<1> QED BY InitLinks, SerialSingle, <1>1, PTL DEF SerialSpec, KeepsLinks, Resets!Spec

\* A link is used after those used before it.
LEMMA OrderStep ==
    ASSUME Inv, SingleInv, Resets!UsedInOrder, [Next /\ ~raced']_accountsVars
    PROVE  Resets!UsedInOrder'
<1>1. CASE UNCHANGED resets
  BY <1>1 DEF Resets!UsedInOrder
<1>2. ASSUME NEW r \in Requests, ResetWrite(r), ~raced' PROVE Resets!UsedInOrder'
  <2> DEFINE i == req[r].link
             m == Len(links["reset"])
  <2>1. ~raced /\ req[r].live = Live("reset") /\ resets' = Append(resets, i)
    BY <1>2 DEF ResetWrite, Inv, Types
  <2>2. i \in Live("reset") /\ i \in Nat \ {0} /\ m \in Nat
    BY <1>2, <2>1, LiveLinks DEF ResetWrite, Inv, ReadsPassed, Passed, Kind
  <2>3. i = m
    BY <2>1, <2>2 DEF SingleInv, OnlyNewestLive, Kind
  <2>4. \A j \in DOMAIN resets : resets[j] \in 1 .. m /\ resets[j] # i
    BY <2>1, <2>2 DEF SingleInv, RedeemedAreSpent
  <2> HIDE DEF i, m
  <2>5. \A j \in DOMAIN resets : resets[j] < i
    BY <2>2, <2>3, <2>4, SMT
  <2>6. resets \in Seq(Nat \ {0})
    BY DEF Inv, Types
  <2>7. /\ DOMAIN resets = 1 .. Len(resets) /\ Len(resets) \in Nat
        /\ \A j \in 1 .. Len(resets) : Append(resets, i)[j] = resets[j]
        /\ Append(resets, i)[Len(resets) + 1] = i
        /\ DOMAIN Append(resets, i) = 1 .. Len(resets) + 1
    <3>1. Append(resets, i) \in Seq(Nat \ {0}) /\ Len(Append(resets, i)) = Len(resets) + 1
      BY <2>2, <2>6, AppendProperties
    <3> QED BY <2>2, <2>6, <3>1, AppendProperties, LenProperties
  <2>8. ASSUME NEW a \in DOMAIN resets', NEW b \in DOMAIN resets', a < b
        PROVE  resets'[a] < resets'[b]
    <3>1. a \in 1 .. Len(resets) /\ (b \in 1 .. Len(resets) \/ b = Len(resets) + 1)
      BY <2>1, <2>7, <2>8, SMT
    <3>2. CASE b \in 1 .. Len(resets)
      BY <2>1, <2>7, <2>8, <3>1, <3>2 DEF Resets!UsedInOrder
    <3>3. CASE b = Len(resets) + 1
      BY <2>1, <2>5, <2>7, <3>1, <3>3
    <3> QED BY <3>1, <3>2, <3>3
  <2> QED BY <2>8 DEF Resets!UsedInOrder
<1>3. ASSUME NEW r \in Requests, Step(r), ~ResetWrite(r) PROVE UNCHANGED resets
  <2>1. CASE Apart
    BY <2>1 DEF Apart
  <2>2. CASE \/ Register(r) \/ SignWrite(r) \/ RoleWrite(r) \/ ResendWrite(r) \/ VerifyWrite(r)
             \/ ForgotWrite(r)
    BY <2>2 DEF Register, SignWrite, RoleWrite, ResendWrite, VerifyWrite, ForgotWrite
  <2> QED BY <1>3, <2>1, <2>2, StepCases
<1>4. CASE UNCHANGED accountsVars \/ Clock \/ Mailing \/ Crash
  BY <1>1, <1>4 DEF accountsVars, accountVars, Clock, Mailing, Deliver, SendFails, Crash
<1> QED BY <1>1, <1>2, <1>3, <1>4 DEF Next

\* What the contract comes to for an owner who has asked twice: once the newer
\* of two links has changed the password, the older never does (tokens.py).
THEOREM ResetsInOrder == SerialSpec => []Resets!UsedInOrder
<1>1. Init => Resets!UsedInOrder
  BY EmptySeq DEF Init, Resets!UsedInOrder
<1>2. Inv /\ SingleInv /\ Resets!UsedInOrder /\ [Next /\ ~raced']_accountsVars
          => Resets!UsedInOrder'
  BY OrderStep
<1> QED BY <1>1, <1>2, SerialSingle, PTL DEF SerialSpec

----------------------------------------------------------------------------
(* What no request takes back. *)

Stands ==
    user # NoUser =>
        /\ \A role \in Role : user[role] => user'[role]
        /\ ~raced' => /\ user.nda # 0 => user'.nda = user.nda
                      /\ user.confirmed # 0 => user'.confirmed = user.confirmed

LEMMA StandsStep ==
    ASSUME Inv, [Next]_accountsVars
    PROVE  Stands
<1>1. CASE UNCHANGED user
  BY <1>1 DEF Stands
<1>2. ASSUME user \in User, user' \in User,
             user.buyer => user'.buyer, user.seller => user'.seller,
             ~raced' => /\ user.nda # 0 => user'.nda = user.nda
                        /\ user.confirmed # 0 => user'.confirmed = user.confirmed
      PROVE  Stands
  BY <1>2 DEF Stands, Role
<1>3. now \in Time
  BY DEF Inv, Types
<1>4. ASSUME NEW r \in Requests, SignWrite(r) PROVE Stands
  <2> DEFINE new == [req[r].user EXCEPT !.nda = now]
  <2>1. /\ user \in User /\ req[r].user \in User /\ req[r].user.nda = 0
        /\ user' = FlushedUser(req[r].user, new)
        /\ ~raced' => req[r].user = user
    BY <1>4 DEF SignWrite, Inv, ReadsPassed, Passed, OnAccount
  <2>2. /\ new \in User /\ new.buyer = req[r].user.buyer /\ new.seller = req[r].user.seller
        /\ new.confirmed = req[r].user.confirmed
    BY <1>3, <2>1, SignedRow
  <2> HIDE DEF new
  <2> QED BY <1>2, <2>1, <2>2, FlushedRow
<1>5. ASSUME NEW r \in Requests, RoleWrite(r) PROVE Stands
  <2> DEFINE new == Granted(req[r].user, req[r].op)
  <2>1. /\ user \in User /\ req[r].user \in User /\ req[r].op \in Role
        /\ user' = FlushedUser(req[r].user, new)
    BY <1>5 DEF RoleWrite, Inv, ReadsPassed, Passed, OnAccount
  <2>2. /\ new \in User /\ new.nda = req[r].user.nda /\ new.confirmed = req[r].user.confirmed
        /\ new.buyer = req[r].user.buyer \/ new.buyer = TRUE
        /\ new.seller = req[r].user.seller \/ new.seller = TRUE
    BY <2>1, GrantedRow
  <2> HIDE DEF new
  <2>3. (user.buyer => user'.buyer) /\ (user.seller => user'.seller)
    BY <2>1, <2>2, FlushedRow
  <2> QED BY <1>2, <2>1, <2>2, <2>3, FlushedRow
<1>6. ASSUME NEW r \in Requests, VerifyWrite(r) PROVE Stands
  <2> DEFINE new == ConfirmedRow(req[r].user)
  <2>1. /\ user \in User /\ req[r].user \in User
        /\ user' = FlushedUser(req[r].user, new)
        /\ ~raced' => req[r].user = user
    BY <1>6 DEF VerifyWrite, Inv, ReadsPassed, Passed, OnAccount, ConfirmedRow, Stale
  <2>2. /\ new \in User /\ new.nda = req[r].user.nda
        /\ new.buyer = req[r].user.buyer /\ new.seller = req[r].user.seller
        /\ req[r].user.confirmed # 0 => new.confirmed = req[r].user.confirmed
    BY <1>3, <2>1, ConfirmedRowIs
  <2> HIDE DEF new
  <2> QED BY <1>2, <2>1, <2>2, FlushedRow
<1>7. ASSUME NEW r \in Requests, Register(r) PROVE Stands
  BY <1>7 DEF Register, Stands, Inv, ReadsPassed, Passed
<1>8. CASE UNCHANGED accountsVars \/ Clock \/ Mailing \/ Crash
  BY <1>1, <1>8 DEF accountsVars, accountVars, Clock, Mailing, Deliver, SendFails, Crash
<1>9. ASSUME NEW r \in Requests, Step(r) PROVE Stands
  <2>1. CASE Apart \/ ResendWrite(r) \/ ForgotWrite(r) \/ ResetWrite(r)
    BY <1>1, <2>1 DEF Apart, ResendWrite, ForgotWrite, ResetWrite
  <2> QED BY <1>4, <1>5, <1>6, <1>7, <1>9, <2>1, StepCases
<1> QED BY <1>8, <1>9 DEF Next

\* No request takes a role away; from current reads none moves the first
\* signature or confirmation.
THEOREM RecordsAreKept == Spec => RecordsStand
<1>1. Inv /\ [Next]_accountsVars => [Stands]_accountsVars
  BY StandsStep
<1>2. [Stands]_accountsVars =>
          [user # NoUser =>
              /\ \A role \in Role : user[role] => user'[role]
              /\ ~raced' => /\ user.nda # 0 => user'.nda = user.nda
                            /\ user.confirmed # 0 => user'.confirmed = user.confirmed]_accountsVars
  BY DEF Stands
<1> QED BY InvHolds, <1>1, <1>2, PTL DEF Spec, RecordsStand

----------------------------------------------------------------------------
(* The window.  A key's stamps are in order, so that those inside the        *)
(* window are its last ones.                                                 *)

InOrder(stamps) == \A i, j \in DOMAIN stamps : i <= j => stamps[i] <= stamps[j]

LEMMA TimeIsNat == Time \subseteq Nat /\ Window \in Nat \ {0}
BY RateLimitAssumption DEF Time

\* What InWindow computes, stamp by stamp.
LEMMA KeptAdds ==
    ASSUME NEW stamps, stamps \in Seq(Time), NEW t \in Time
    PROVE  LET kept == KeptOfFirst(stamps, t)
           IN  /\ kept \in [0 .. Len(stamps) -> Seq(Time)]
               /\ kept[0] = <<>>
               /\ \A n \in 1 .. Len(stamps) :
                    kept[n] = IF t - stamps[n] < Window THEN Append(kept[n - 1], stamps[n])
                              ELSE kept[n - 1]
<1> DEFINE N == Len(stamps)
           grown(v, n) == IF t - stamps[n] < Window THEN Append(v, stamps[n]) ELSE v
           step == [n \in 1 .. N |-> [v \in Seq(Time) |-> grown(v, n)]]
           kept == KeptOfFirst(stamps, t)
<1>1. N \in Nat
  BY LenProperties
<1>2. ASSUME NEW n \in 1 .. N, NEW v \in Seq(Time) PROVE grown(v, n) \in Seq(Time)
  BY ElementOfSeq, AppendProperties
<1>3. step \in [1 .. N -> [Seq(Time) -> Seq(Time)]]
  <2> HIDE DEF grown
  <2> QED BY <1>2
<1>4. PICK g \in [0 .. N -> Seq(Time)] :
        g[0] = <<>> /\ \A n \in 1 .. N : g[n] = step[n][g[n - 1]]
  <2>1. PICK none : none = <<>>
    OBVIOUS
  <2>2. PICK V : V = Seq(Time)
    OBVIOUS
  <2>3. none \in V /\ step \in [1 .. N -> [V -> V]]
    <3>1. <<>> \in Seq(Time)
      BY EmptySeq
    <3> HIDE DEF step, N
    <3> QED BY <1>3, <2>1, <2>2, <3>1
  <2>4. \E g \in [0 .. N -> V] : g[0] = none /\ \A n \in 1 .. N : g[n] = step[n][g[n - 1]]
    <3>1. PICK s : s = step
      OBVIOUS
    <3>2. PICK m : m = N
      OBVIOUS
    <3>3. m \in Nat /\ none \in V /\ s \in [1 .. m -> [V -> V]]
      <4> HIDE DEF step, N
      <4> QED BY <1>1, <2>3, <3>1, <3>2
    <3>4. \E g \in [0 .. m -> V] : g[0] = none /\ \A n \in 1 .. m : g[n] = s[n][g[n - 1]]
      BY ONLY <3>3, IterationExists
    <3> HIDE DEF step, N
    <3> QED BY <3>1, <3>2, <3>4
  <2> HIDE DEF step, N
  <2> QED BY <2>1, <2>2, <2>4
<1>5. \A n \in 1 .. N : g[n] = grown(g[n - 1], n)
  <2> SUFFICES ASSUME NEW n \in 1 .. N PROVE g[n] = grown(g[n - 1], n)
    OBVIOUS
  <2>1. n - 1 \in 0 .. N
    BY <1>1
  <2>2. step[n][g[n - 1]] = grown(g[n - 1], n)
    <3> HIDE DEF grown, N
    <3> QED BY <2>1
  <2> HIDE DEF grown, step, N
  <2> QED BY <1>4, <2>2
<1>6. g = [n \in 0 .. N |-> IF n = 0 THEN <<>> ELSE grown(g[n - 1], n)]
  <2>1. \A n \in 0 .. N : g[n] = IF n = 0 THEN <<>> ELSE grown(g[n - 1], n)
    <3> HIDE DEF grown, N
    <3> QED BY <1>1, <1>4, <1>5
  <2>2. g = [n \in 0 .. N |-> g[n]]
    OBVIOUS
  <2> HIDE DEF grown, N
  <2> QED BY <2>1, <2>2
<1>7. kept = [n \in 0 .. N |-> IF n = 0 THEN <<>> ELSE grown(kept[n - 1], n)]
  BY <1>6 DEF KeptOfFirst
<1>8. kept[0] = <<>> /\ \A n \in 1 .. N : kept[n] = grown(kept[n - 1], n)
  <2> HIDE DEF kept, grown, N
  <2> QED BY <1>1, <1>7
<1>9. kept \in [0 .. N -> Seq(Time)]
  <2> DEFINE T == {n \in 0 .. N : kept[n] \in Seq(Time)}
  <2>1. 0 .. N \subseteq T
    <3>1. 0 \in T
      <4>1. 0 \in 0 .. N
        BY <1>1
      <4>2. <<>> \in Seq(Time)
        BY EmptySeq
      <4> HIDE DEF kept, N
      <4> QED BY <1>8, <4>1, <4>2
    <3>2. ASSUME NEW n \in 1 .. N, n - 1 \in T PROVE n \in T
      <4>1. n \in 0 .. N /\ kept[n - 1] \in Seq(Time)
        BY <1>1, <3>2
      <4> HIDE DEF kept, grown, N
      <4> QED BY <1>2, <1>8, <4>1
    <3> HIDE DEF T, N
    <3> QED BY <1>1, <3>1, <3>2, IntervalInduction
  <2> HIDE DEF kept, grown, N
  <2> QED BY <1>7, <2>1
<1> QED
  BY <1>8, <1>9

\* The first n stamps are split at m: those up to m are outside the window, those
\* after it are inside and are what is kept of the n.
Split(stamps, t, n, m) ==
    LET kept == KeptOfFirst(stamps, t)[n]
    IN  /\ Len(kept) = n - m
        /\ \A i \in 1 .. n - m : kept[i] = stamps[m + i]
        /\ \A i \in 1 .. m : t - stamps[i] >= Window
        /\ \A i \in m + 1 .. n : t - stamps[i] < Window

\* One more stamp keeps them split: when it is outside, all before it are.
LEMMA SplitStep ==
    ASSUME NEW stamps, stamps \in Seq(Time), InOrder(stamps), NEW t \in Time,
           NEW n \in 1 .. Len(stamps), NEW m \in 0 .. n - 1, Split(stamps, t, n - 1, m)
    PROVE  Split(stamps, t, n, m) \/ Split(stamps, t, n, n)
<1> DEFINE old == KeptOfFirst(stamps, t)[n - 1]
           new == KeptOfFirst(stamps, t)[n]
<1>1. /\ Len(stamps) \in Nat /\ n \in Nat /\ m \in Nat /\ t \in Nat /\ Window \in Nat \ {0}
      /\ \A i \in 1 .. Len(stamps) : stamps[i] \in Nat
      /\ n - 1 \in 0 .. Len(stamps)
  <2>1. \A i \in 1 .. Len(stamps) : stamps[i] \in Time
    BY ElementOfSeq
  <2>2. Len(stamps) \in Nat
    BY LenProperties
  <2>3. t \in Nat /\ Window \in Nat \ {0} /\ \A i \in 1 .. Len(stamps) : stamps[i] \in Nat
    BY <2>1, TimeIsNat
  <2> QED BY <2>2, <2>3
<1>2. old \in Seq(Time) /\ stamps[n] \in Time
  BY <1>1, KeptAdds, ElementOfSeq
<1>3. new = IF t - stamps[n] < Window THEN Append(old, stamps[n]) ELSE old
  BY KeptAdds
<1>4. /\ Len(old) = (n - 1) - m
      /\ \A i \in 1 .. (n - 1) - m : old[i] = stamps[m + i]
      /\ \A i \in 1 .. m : t - stamps[i] >= Window
      /\ \A i \in m + 1 .. n - 1 : t - stamps[i] < Window
  BY DEF Split
<1>5. CASE t - stamps[n] < Window
  <2>1. /\ Len(new) = Len(old) + 1
        /\ \A i \in 1 .. Len(old) : new[i] = old[i]
        /\ new[Len(old) + 1] = stamps[n]
    <3> HIDE DEF old, new
    <3> QED BY <1>2, <1>3, <1>5, AppendProperties
  <2> HIDE DEF old, new
  <2>2. Len(new) = n - m
    BY <1>1, <1>4, <2>1
  <2>3. \A i \in 1 .. n - m : new[i] = stamps[m + i]
    <3> SUFFICES ASSUME NEW i \in 1 .. n - m PROVE new[i] = stamps[m + i]
      OBVIOUS
    <3>1. CASE i = n - m
      <4>1. i = Len(old) + 1 /\ m + i = n
        BY <1>1, <1>4, <3>1
      <4> QED BY <2>1, <4>1
    <3>2. CASE i \in 1 .. (n - 1) - m
      <4>1. i \in 1 .. Len(old)
        BY <1>4, <3>2
      <4> QED BY <1>4, <2>1, <3>2, <4>1
    <3> QED BY <1>1, <3>1, <3>2
  <2>4. \A i \in m + 1 .. n : t - stamps[i] < Window
    BY <1>1, <1>4, <1>5
  <2> QED BY <1>4, <2>2, <2>3, <2>4 DEF Split, new
<1>6. CASE ~(t - stamps[n] < Window)
  <2>1. \A i \in 1 .. n : t - stamps[i] >= Window
    <3> SUFFICES ASSUME NEW i \in 1 .. n PROVE t - stamps[i] >= Window
      OBVIOUS
    <3>1. DOMAIN stamps = 1 .. Len(stamps)
      BY LenProperties
    <3>2. i \in 1 .. Len(stamps) /\ n \in 1 .. Len(stamps) /\ i <= n
      BY <1>1
    <3>3. stamps[i] <= stamps[n]
      BY <3>1, <3>2 DEF InOrder
    <3>4. stamps[i] \in Nat /\ stamps[n] \in Nat
      BY <1>1, <3>2
    <3> QED BY ONLY <1>1, <1>6, <3>3, <3>4
  <2>2. m = n - 1
    <3> SUFFICES ASSUME m # n - 1 PROVE FALSE
      OBVIOUS
    <3>1. n - 1 \in m + 1 .. n - 1 /\ n - 1 \in 1 .. n /\ n - 1 \in 1 .. Len(stamps)
      BY <1>1
    <3>2. t - stamps[n - 1] < Window /\ t - stamps[n - 1] >= Window /\ stamps[n - 1] \in Nat
      BY <1>1, <1>4, <2>1, <3>1
    <3> QED BY <1>1, <3>2
  <2>3. Len(new) = 0 /\ new = old
    <3> HIDE DEF old, new
    <3> QED BY <1>1, <1>3, <1>4, <1>6, <2>2
  <2>4. n - n = 0 /\ 1 .. 0 = {} /\ n + 1 .. n = {}
    BY <1>1
  <2> QED BY <2>1, <2>3, <2>4 DEF Split, new
<1> QED BY <1>5, <1>6

\* What is in the window at t are the last stamps, those after some m.
LEMMA WindowIsLast ==
    ASSUME NEW stamps, stamps \in Seq(Time), InOrder(stamps), NEW t \in Time
    PROVE  /\ InWindow(stamps, t) \in Seq(Time)
           /\ \E m \in 0 .. Len(stamps) :
                /\ Len(InWindow(stamps, t)) = Len(stamps) - m
                /\ \A i \in 1 .. Len(stamps) - m : InWindow(stamps, t)[i] = stamps[m + i]
                /\ \A i \in 1 .. m : t - stamps[i] >= Window
                /\ \A i \in m + 1 .. Len(stamps) : t - stamps[i] < Window
<1> DEFINE N == Len(stamps)
           T == {n \in 0 .. N : \E m \in 0 .. n : Split(stamps, t, n, m)}
<1>1. N \in Nat
  BY LenProperties
<1>2. 0 \in T
  <2>1. KeptOfFirst(stamps, t)[0] = <<>>
    BY KeptAdds
  <2>2. Len(<<>>) = 0 /\ 0 - 0 = 0 /\ 1 .. 0 = {} /\ 0 + 1 .. 0 = {}
    BY EmptySeq
  <2>3. Split(stamps, t, 0, 0)
    BY <2>1, <2>2 DEF Split
  <2>4. 0 \in 0 .. N /\ 0 \in 0 .. 0
    BY <1>1
  <2> QED BY <2>3, <2>4
<1>3. ASSUME NEW n \in 1 .. N, n - 1 \in T PROVE n \in T
  <2>1. PICK m \in 0 .. n - 1 : Split(stamps, t, n - 1, m)
    BY <1>3
  <2>2. Split(stamps, t, n, m) \/ Split(stamps, t, n, n)
    BY <2>1, SplitStep
  <2>3. n \in 0 .. N /\ m \in 0 .. n /\ n \in 0 .. n
    BY <1>1
  <2> QED BY <2>2, <2>3
<1>4. 0 .. N \subseteq T
  <2> HIDE DEF T, N
  <2> QED BY <1>1, <1>2, <1>3, IntervalInduction
<1>5. PICK m \in 0 .. N : Split(stamps, t, N, m)
  <2>1. N \in 0 .. N
    BY <1>1
  <2> QED BY <1>4, <2>1
<1>6. InWindow(stamps, t) \in Seq(Time)
  <2>1. N \in 0 .. N
    BY <1>1
  <2> QED BY <2>1, KeptAdds DEF InWindow
<1> QED
  BY <1>5, <1>6 DEF Split, InWindow

\* Whatever the stamps, those in the window are some.
LEMMA WindowIsStamps ==
    ASSUME NEW stamps, stamps \in Seq(Time), NEW t \in Time
    PROVE  InWindow(stamps, t) \in Seq(Time)
<1>1. Len(stamps) \in 0 .. Len(stamps)
  BY LenProperties
<1> QED BY <1>1, KeptAdds DEF InWindow

\* Stamps in order, none later than t.
UpTo(stamps, t) ==
    /\ InOrder(stamps)
    /\ \A i \in DOMAIN stamps : stamps[i] <= t

LEMMA NothingUpTo == ASSUME NEW t PROVE <<>> \in Seq(Time) /\ UpTo(<<>>, t)
<1>1. <<>> \in Seq(Time) /\ DOMAIN <<>> = {}
  <2>1. <<>> \in Seq(Time) /\ Len(<<>>) = 0
    BY EmptySeq
  <2> QED BY <2>1, LenProperties
<1> QED BY <1>1 DEF UpTo, InOrder

\* What is in the window of stamps in order is in order.
LEMMA WindowInOrder ==
    ASSUME NEW stamps, stamps \in Seq(Time), NEW t \in Time, InOrder(stamps)
    PROVE  InWindow(stamps, t) \in Seq(Time) /\ InOrder(InWindow(stamps, t))
<1> DEFINE kept == InWindow(stamps, t)
<1>1. kept \in Seq(Time)
  BY WindowIsLast
<1>2. PICK m \in 0 .. Len(stamps) :
        /\ Len(kept) = Len(stamps) - m
        /\ \A i \in 1 .. Len(stamps) - m : kept[i] = stamps[m + i]
  BY WindowIsLast
<1>3. /\ DOMAIN kept = 1 .. Len(kept) /\ DOMAIN stamps = 1 .. Len(stamps)
      /\ Len(stamps) \in Nat
  BY <1>1, LenProperties
<1> HIDE DEF kept
<1>4. \A i \in DOMAIN kept : kept[i] = stamps[m + i] /\ m + i \in DOMAIN stamps /\ i \in Nat
  BY <1>2, <1>3
<1>5. \A i, j \in DOMAIN kept : i <= j => kept[i] <= kept[j]
  <2> SUFFICES ASSUME NEW i \in DOMAIN kept, NEW j \in DOMAIN kept, i <= j
               PROVE  kept[i] <= kept[j]
    OBVIOUS
  <2>1. m + i <= m + j
    BY <1>2, <1>4
  <2> QED BY <1>4, <2>1 DEF InOrder
<1> QED BY <1>1, <1>5 DEF InOrder, kept

LEMMA CountedUpTo ==
    ASSUME NEW stamps, stamps \in Seq(Time), NEW t \in Time, UpTo(stamps, t)
    PROVE  Append(stamps, t) \in Seq(Time) /\ UpTo(Append(stamps, t), t)
<1>1. /\ Append(stamps, t) \in Seq(Time)
      /\ Len(Append(stamps, t)) = Len(stamps) + 1
      /\ \A i \in 1 .. Len(stamps) : Append(stamps, t)[i] = stamps[i]
      /\ Append(stamps, t)[Len(stamps) + 1] = t
      /\ Len(stamps) \in Nat /\ DOMAIN stamps = 1 .. Len(stamps)
      /\ DOMAIN Append(stamps, t) = 1 .. Len(Append(stamps, t))
  BY AppendProperties, LenProperties
<1>2. /\ \A i \in 1 .. Len(stamps) : stamps[i] <= t
      /\ \A i, j \in 1 .. Len(stamps) : i <= j => stamps[i] <= stamps[j]
  BY <1>1 DEF UpTo, InOrder
<1>3. t <= t /\ t \in Nat
  BY TimeIsNat
<1> QED BY ONLY <1>1, <1>2, <1>3 DEF UpTo, InOrder

----------------------------------------------------------------------------
(* The limiter, in any schedule, and while no hit is overtaken. *)

\* No hit is ahead of the clock.
Behind == \A r \in Requests : hit[r] # NoHit => hit[r].at <= now

Limiter == RateTypeOK /\ Behind /\ spent \in Seq(Time)

\* The stamps of a key are in order, and no sweep under way is ahead of the last
\* one that was listed.
Orderly ==
    /\ \A k \in Keys : UpTo(hits[k], now)
    /\ \A r \in Requests :
        hit[r] # NoHit /\ hit[r].doomed # {} => hit[r].at <= lastSweep

OrderInv == ~raced => Orderly

LEMMA NoHitIsNone == NoHit \notin Hit /\ NoHit.step = "none"
<1>1. \A h \in Hit : h.step # "none"
  BY DEF Hit
<1> QED BY <1>1 DEF NoHit

\* A hit under way.
LEMMA HittingIs ==
    ASSUME RateTypeOK, NEW r \in Requests, NEW step, Hitting(r, step), step # "none"
    PROVE  hit[r] \in Hit
BY NoHitIsNone DEF RateTypeOK, Hitting

LEMMA LaterUpTo ==
    ASSUME NEW stamps, stamps \in Seq(Time), NEW t \in Time, NEW u \in Time, t <= u,
           UpTo(stamps, t)
    PROVE  UpTo(stamps, u)
<1>1. \A i \in DOMAIN stamps : stamps[i] \in Nat /\ stamps[i] <= t
  <2>1. \A i \in DOMAIN stamps : stamps[i] \in Time
    BY LenProperties, ElementOfSeq
  <2> QED BY <2>1, TimeIsNat DEF UpTo
<1>2. t \in Nat /\ u \in Nat
  BY TimeIsNat
<1>3. \A i \in DOMAIN stamps : stamps[i] <= u
  BY <1>1, <1>2
<1> QED BY <1>3 DEF UpTo

\* What a hit does before it writes, and what is known of the keys it deletes.
Sweeps(r) ==
    \/ \E k \in Keys : HitStart(r, k)
    \/ SweepCheck(r)
    \/ SweepList(r) /\ raced' = (raced \/ ~SweepDue(hit[r].at))
    \/ \E k \in Keys : SweepKey(r, k) /\ raced' = (raced \/ ~Elapsed(hits[k], hit[r].at))
    \/ SweepBreaks(r) /\ raced'
    \/ HitRead(r)

Deleted(r, k) ==
    /\ hit[r] # NoHit /\ hit[r].doomed # {}
    /\ hits'[k] = <<>>
    /\ ~raced' => Elapsed(hits[k], hit[r].at)

\* The hit that moves.
LEMMA HitMoved ==
    ASSUME RateTypeOK, NEW r \in Requests, NEW h \in Hit \cup {NoHit},
           hit' = [hit EXCEPT ![r] = h]
    PROVE  /\ hit' \in [Requests -> Hit \cup {NoHit}] /\ hit'[r] = h
           /\ \A q \in Requests \ {r} : hit'[q] = hit[q]
BY DEF RateTypeOK

\* Before a hit writes it deletes keys at most; the doomed ones are judged at its
\* clock, which the last sweep has then reached.
SweepsDone(r) ==
    /\ UNCHANGED now
    /\ RateTypeOK' /\ Behind'
    /\ \A q \in Requests \ {r} : hit'[q] = hit[q]
    /\ \/ hit'[r] = NoHit \/ hit'[r].doomed = {} \/ hit'[r].at = lastSweep'
       \/ hit[r] # NoHit /\ hit[r].doomed # {} /\ hit'[r].at = hit[r].at
    /\ ~raced' => lastSweep <= lastSweep'
    /\ \A k \in Keys : hits'[k] = hits[k] \/ Deleted(r, k)

LEMMA SweepsEffect ==
    ASSUME RateTypeOK, Behind, NEW r \in Requests, Sweeps(r)
    PROVE  SweepsDone(r)
<1>1. /\ now \in Time /\ now \in Nat /\ lastSweep \in 0 .. now
      /\ hits \in [Keys -> Seq(Time)]
      /\ hit \in [Requests -> Hit \cup {NoHit}]
  BY TimeIsNat DEF RateTypeOK
<1>2. now' = now
  BY Zenon DEF Sweeps, HitStart, SweepCheck, SweepList, SweepKey, SweepBreaks, HitRead
\* It is enough to say what becomes of the hit.
<1>3. ASSUME NEW h \in Hit \cup {NoHit}, hit' = [hit EXCEPT ![r] = h],
             h # NoHit => h.at <= now,
             hits' \in [Keys -> Seq(Time)], lastSweep' \in 0 .. now
      PROVE  /\ RateTypeOK' /\ Behind' /\ hit'[r] = h
             /\ \A q \in Requests \ {r} : hit'[q] = hit[q]
  <2>1. /\ hit' \in [Requests -> Hit \cup {NoHit}] /\ hit'[r] = h
        /\ \A q \in Requests \ {r} : hit'[q] = hit[q]
    BY <1>3, HitMoved
  <2> QED BY <1>1, <1>2, <1>3, <2>1 DEF RateTypeOK, Behind
<1>4. lastSweep <= lastSweep
  BY <1>1
<1>5. ASSUME NEW k \in Keys, HitStart(r, k) PROVE SweepsDone(r)
  <2> DEFINE h == [step |-> "clocked", key |-> k, at |-> now, doomed |-> {}, recent |-> <<>>]
  <2>1. h \in Hit /\ h.at <= now /\ h.doomed = {}
    BY <1>1, NothingUpTo DEF Hit
  <2>2. hit' = [hit EXCEPT ![r] = h] /\ UNCHANGED <<now, hits, lastSweep>>
    BY <1>5 DEF HitStart
  <2> HIDE DEF h
  <2> QED BY <1>1, <1>2, <1>3, <1>4, <2>1, <2>2 DEF SweepsDone
<1>6. CASE SweepCheck(r)
  <2> DEFINE h == [hit[r] EXCEPT !.step = IF SweepDue(hit[r].at) THEN "due" ELSE "swept"]
  <2>1. hit[r] \in Hit /\ hit[r] # NoHit /\ hit[r].at \in Nat /\ hit[r].at <= now
    <3>1. hit[r] \in Hit
      BY <1>6, HittingIs DEF SweepCheck
    <3> QED BY <3>1, NoHitIsNone, TimeIsNat DEF Hit, Behind
  <2>2. h \in Hit /\ h.at = hit[r].at /\ h.doomed = hit[r].doomed
    BY <2>1 DEF Hit
  <2>3. hit' = [hit EXCEPT ![r] = h] /\ UNCHANGED <<now, hits>>
    BY <1>6 DEF SweepCheck
  <2>4. lastSweep' \in 0 .. now /\ lastSweep <= lastSweep'
    BY <1>1, <1>6, <2>1 DEF SweepCheck
  <2> HIDE DEF h
  <2> QED BY <1>1, <1>2, <1>3, <2>1, <2>2, <2>3, <2>4 DEF SweepsDone
<1>7. CASE SweepList(r) /\ raced' = (raced \/ ~SweepDue(hit[r].at))
  <2> DEFINE d == {k \in Keys : Elapsed(hits[k], hit[r].at)}
             h == [hit[r] EXCEPT !.step = "swept", !.doomed = d]
  <2>1. hit[r] \in Hit /\ hit[r] # NoHit /\ hit[r].at \in Nat /\ hit[r].at <= now
    <3>1. hit[r] \in Hit
      BY <1>7, HittingIs DEF SweepList
    <3> QED BY <3>1, NoHitIsNone, TimeIsNat DEF Hit, Behind
  <2>2. h \in Hit /\ h.at = hit[r].at
    <3>1. d \in SUBSET Keys
      OBVIOUS
    <3> HIDE DEF d
    <3> QED BY <2>1, <3>1 DEF Hit
  <2>3. hit' = [hit EXCEPT ![r] = h] /\ UNCHANGED <<now, hits>>
    BY <1>7 DEF SweepList
  <2>4. lastSweep' = hit[r].at /\ lastSweep' \in 0 .. now
    BY <1>1, <1>7, <2>1 DEF SweepList
  <2>5. ~raced' => lastSweep <= lastSweep'
    <3>1. ~raced' => SweepDue(hit[r].at)
      BY <1>7
    <3>2. PICK at : at = hit[r].at
      OBVIOUS
    <3>3. SweepDue(at) => lastSweep <= at
      BY <1>1, <2>1, <3>2, RateLimitAssumption DEF SweepDue
    <3> QED BY <2>4, <3>1, <3>2, <3>3
  <2> HIDE DEF h
  <2> QED BY <1>1, <1>2, <1>3, <2>1, <2>2, <2>3, <2>4, <2>5 DEF SweepsDone
<1>8. ASSUME NEW k \in Keys, SweepKey(r, k), raced' = (raced \/ ~Elapsed(hits[k], hit[r].at))
      PROVE  SweepsDone(r)
  <2> DEFINE h == [hit[r] EXCEPT !.doomed = @ \ {k}]
  <2>1. hit[r] \in Hit /\ hit[r] # NoHit /\ hit[r].at \in Nat /\ hit[r].at <= now
        /\ hit[r].doomed # {}
    <3>1. hit[r] \in Hit
      BY <1>8, HittingIs DEF SweepKey
    <3> QED BY <1>8, <3>1, NoHitIsNone, TimeIsNat DEF Hit, Behind, SweepKey
  <2>2. h \in Hit /\ h.at = hit[r].at
    BY <2>1 DEF Hit
  <2>3. hit' = [hit EXCEPT ![r] = h] /\ UNCHANGED <<now, lastSweep>>
    BY <1>8 DEF SweepKey
  <2>4. /\ hits' \in [Keys -> Seq(Time)] /\ hits'[k] = <<>>
        /\ \A q \in Keys \ {k} : hits'[q] = hits[q]
    BY <1>1, <1>8, NothingUpTo DEF SweepKey
  <2>5. Deleted(r, k)
    BY <1>8, <2>1, <2>4 DEF Deleted
  <2> HIDE DEF h
  <2> QED BY <1>1, <1>2, <1>3, <1>4, <2>1, <2>2, <2>3, <2>4, <2>5 DEF SweepsDone
<1>9. CASE SweepBreaks(r) /\ raced'
  <2>1. hit' = [hit EXCEPT ![r] = NoHit] /\ UNCHANGED <<now, hits, lastSweep>>
    BY <1>9 DEF SweepBreaks
  <2> QED BY <1>1, <1>2, <1>3, <1>4, <2>1 DEF SweepsDone
<1>10. CASE HitRead(r)
  <2> DEFINE w == InWindow(hits[hit[r].key], hit[r].at)
             h == [hit[r] EXCEPT !.step = "read", !.recent = w]
  <2>1. hit[r] \in Hit /\ hit[r] # NoHit /\ hit[r].at <= now /\ hit[r].doomed = {}
    <3>1. hit[r] \in Hit
      BY <1>10, HittingIs DEF HitRead
    <3> QED BY <1>10, <3>1, NoHitIsNone DEF HitRead, Behind
  <2>2. w \in Seq(Time)
    <3>1. hit[r].at \in Time /\ hits[hit[r].key] \in Seq(Time)
      BY <1>1, <2>1 DEF Hit
    <3> QED BY <3>1, WindowIsStamps
  <2>3. h \in Hit /\ h.at = hit[r].at /\ h.doomed = {}
    <3> HIDE DEF w
    <3> QED BY <2>1, <2>2 DEF Hit
  <2>4. hit' = [hit EXCEPT ![r] = h] /\ UNCHANGED <<now, hits, lastSweep>>
    BY <1>10 DEF HitRead
  <2> HIDE DEF h
  <2> QED BY <1>1, <1>2, <1>3, <1>4, <2>1, <2>3, <2>4 DEF SweepsDone
<1> QED BY <1>5, <1>6, <1>7, <1>8, <1>9, <1>10 DEF Sweeps, SweepsDone

\* A write puts back what was read, with the attempt itself.
LEMMA LimiterWrite ==
    ASSUME RateTypeOK, Behind, NEW r \in Requests, HitWrite(r)
    PROVE  /\ RateTypeOK' /\ Behind'
           /\ hit[r] \in Hit /\ hit'[r] = NoHit
           /\ \A q \in Requests \ {r} : hit'[q] = hit[q]
           /\ hits'[hit[r].key] = Append(hit[r].recent, hit[r].at)
           /\ \A k \in Keys \ {hit[r].key} : hits'[k] = hits[k]
           /\ UNCHANGED <<now, lastSweep>>
<1>1. /\ now \in Time /\ now' = now /\ lastSweep' = lastSweep
      /\ hits \in [Keys -> Seq(Time)]
      /\ hit' = [hit EXCEPT ![r] = NoHit]
  BY DEF RateTypeOK, HitWrite
<1>2. hit[r] \in Hit
  BY HittingIs DEF HitWrite
<1>3. PICK k, at, recent : k = hit[r].key /\ at = hit[r].at /\ recent = hit[r].recent
  OBVIOUS
<1>4. k \in Keys /\ at \in Time /\ recent \in Seq(Time)
  BY <1>2, <1>3 DEF Hit
<1>5. Append(recent, at) \in Seq(Time)
  BY <1>4, AppendProperties
<1>6. hits' = [hits EXCEPT ![k] = Append(recent, at)]
  BY <1>3 DEF HitWrite, Counted
<1>7. /\ hits' \in [Keys -> Seq(Time)]
      /\ hits'[k] = Append(recent, at)
      /\ \A q \in Keys \ {k} : hits'[q] = hits[q]
  BY <1>1, <1>4, <1>5, <1>6
<1>8. /\ hit' \in [Requests -> Hit \cup {NoHit}]
      /\ hit'[r] = NoHit
      /\ \A q \in Requests \ {r} : hit'[q] = hit[q]
  BY <1>1, HitMoved
<1>9. RateTypeOK' /\ Behind'
  BY <1>1, <1>7, <1>8 DEF RateTypeOK, Behind
<1> QED BY <1>1, <1>2, <1>3, <1>7, <1>8, <1>9

\* From a current read it puts back stamps in order, none later than its own.
LEMMA WriteInOrder ==
    ASSUME RateTypeOK, Orderly, NEW r \in Requests, hit[r] \in Hit, ~Overtaken(r)
    PROVE  /\ UpTo(hit[r].recent, hit[r].at)
           /\ UpTo(Append(hit[r].recent, hit[r].at), hit[r].at)
<1>1. PICK at, recent, stamps :
        at = hit[r].at /\ recent = hit[r].recent /\ stamps = hits[hit[r].key]
  OBVIOUS
<1>2. /\ at \in Time /\ recent \in Seq(Time) /\ stamps \in Seq(Time) /\ InOrder(stamps)
      /\ recent = InWindow(stamps, at)
  BY <1>1 DEF Hit, RateTypeOK, Orderly, UpTo, Overtaken
<1>3. InOrder(recent)
  BY <1>2, WindowInOrder
<1>4. \A i \in DOMAIN recent : recent[i] \in Nat
  <2>1. \A i \in DOMAIN recent : recent[i] \in Time
    BY <1>2, LenProperties, ElementOfSeq
  <2> QED BY <2>1, TimeIsNat
<1>5. \A i \in DOMAIN recent : recent[i] <= at
  <2>1. \A i \in DOMAIN recent : ~(recent[i] > at)
    BY <1>1 DEF Overtaken
  <2> QED BY <1>2, <1>4, <2>1, TimeIsNat
<1>6. UpTo(recent, at)
  BY <1>3, <1>5 DEF UpTo
<1> QED BY <1>1, <1>2, <1>6, CountedUpTo

LEMMA LimiterTick ==
    ASSUME RateTypeOK, Behind, Tick
    PROVE  RateTypeOK' /\ Behind' /\ (Orderly => Orderly')
<1>1. /\ now \in Time /\ now' \in Time /\ now <= now' /\ 0 .. now \subseteq 0 .. now'
      /\ UNCHANGED <<hits, lastSweep, hit>>
  BY RateLimitAssumption DEF Tick, RateTypeOK, Time
<1>2. RateTypeOK'
  BY <1>1 DEF RateTypeOK
<1>3. Orderly => \A k \in Keys : UpTo(hits[k], now')
  BY <1>1, LaterUpTo DEF RateTypeOK, Orderly
<1>4. ASSUME NEW r \in Requests, hit[r] # NoHit PROVE hit[r].at <= now'
  <2>1. hit[r] \in Hit
    BY <1>4 DEF RateTypeOK
  <2>2. hit[r].at \in Nat /\ now \in Nat /\ now' \in Nat
    BY <1>1, <2>1, TimeIsNat DEF Hit
  <2> QED BY <1>1, <1>4, <2>2 DEF Behind
<1> QED BY <1>1, <1>2, <1>3, <1>4 DEF Behind, Orderly

LEMMA LimiterRestart ==
    ASSUME now \in Time, RateRestart
    PROVE  RateTypeOK' /\ Behind' /\ Orderly'
<1>1. /\ now' = now /\ lastSweep' = 0
      /\ hits' = [k \in Keys |-> <<>>] /\ hit' = [r \in Requests |-> NoHit]
  BY DEF RateRestart
<1>2. RateTypeOK'
  BY <1>1, NothingUpTo, TimeIsNat DEF RateTypeOK
<1> QED BY <1>1, <1>2, NothingUpTo DEF Behind, Orderly

LEMMA LimiterInit == Init => Limiter /\ OrderInv
<1> SUFFICES ASSUME Init PROVE Limiter /\ OrderInv
  OBVIOUS
<1>1. /\ now = 1 /\ lastSweep = 0 /\ spent = <<>>
      /\ hits = [k \in Keys |-> <<>>] /\ hit = [r \in Requests |-> NoHit]
  BY DEF Init, RateInit
<1>2. now \in Time
  BY <1>1, RateLimitAssumption DEF Time
<1>3. RateTypeOK
  BY <1>1, <1>2, NothingUpTo, TimeIsNat DEF RateTypeOK
<1>4. Behind /\ Orderly
  BY <1>1, NothingUpTo DEF Behind, Orderly
<1> QED BY <1>1, <1>3, <1>4, NothingUpTo DEF Limiter, OrderInv

\* What a step does to the limiter and to what it let through.
LEMMA LimiterMoves ==
    ASSUME [Next]_accountsVars
    PROVE  \/ UNCHANGED <<rateVars, spent>>
           \/ Tick /\ UNCHANGED spent
           \/ RateRestart /\ UNCHANGED spent /\ restarts' = restarts + 1
           \/ \E r \in Requests : Sweeps(r) /\ UNCHANGED <<spent, restarts>>
           \/ \E r \in Requests : ForgotRead(r)
<1>1. CASE UNCHANGED accountsVars
  BY <1>1 DEF accountsVars, accountVars
<1>2. CASE Clock \/ Crash
  BY <1>2 DEF Clock, accountVars, Crash
<1>3. CASE Mailing
  BY <1>3 DEF Mailing, Deliver, SendFails
<1>4. ASSUME NEW r \in Requests, Step(r)
      PROVE  \/ UNCHANGED <<rateVars, spent>>
             \/ Sweeps(r) /\ UNCHANGED <<spent, restarts>>
             \/ ForgotRead(r)
  <2>1. CASE \/ Register(r) \/ SignRead(r) \/ SignWrite(r) \/ RoleWrite(r) \/ ResendRead(r)
             \/ ResendWrite(r) \/ VerifyWrite(r) \/ ForgotWrite(r) \/ ResetWrite(r)
             \/ HandOver(r) \/ WriteFails(r)
    BY <2>1 DEF Register, SignRead, SignWrite, RoleWrite, ResendRead, ResendWrite, VerifyWrite,
       ForgotWrite, ResetWrite, HandOver, WriteFails
  <2>2. ASSUME NEW x, RegisterRead(r, x) \/ RoleRead(r, x) \/ VerifyRead(r, x) \/ ResetRead(r, x)
        PROVE  UNCHANGED <<rateVars, spent>>
    BY <2>2 DEF RegisterRead, RoleRead, VerifyRead, ResetRead
  <2>3. ASSUME NEW k \in Keys, ForgotCount(r, k)
        PROVE  Sweeps(r) /\ UNCHANGED <<spent, restarts>>
    BY <2>3 DEF ForgotCount, Sweeps
  <2>4. ASSUME Counting(r) \/ CountBreaks(r) PROVE Sweeps(r) /\ UNCHANGED <<spent, restarts>>
    BY <2>4, Zenon DEF Counting, CountBreaks, accountVars, Sweeps
  <2> QED BY <1>4, <2>1, <2>2, <2>3, <2>4 DEF Step, Confirming, Resetting
<1> QED BY <1>1, <1>2, <1>3, <1>4 DEF Next

\* No step forgets a race or a restart.
LEMMA StepsCount ==
    ASSUME restarts \in Nat, raced \in BOOLEAN, [Next]_accountsVars
    PROVE  (raced => raced') /\ restarts <= restarts'
<1>1. CASE UNCHANGED <<raced, restarts>>
  BY <1>1
<1>2. CASE Crash
  BY <1>2 DEF Crash
<1>3. CASE UNCHANGED accountsVars \/ Clock \/ Mailing
  BY <1>1, <1>3 DEF accountsVars, Clock, Mailing, Deliver, SendFails
<1>4. ASSUME NEW r \in Requests, Step(r) PROVE (raced => raced') /\ restarts' = restarts
  <2>1. CASE \/ Register(r) \/ SignRead(r) \/ SignWrite(r) \/ RoleWrite(r) \/ ResendRead(r)
             \/ ResendWrite(r) \/ VerifyWrite(r) \/ ForgotRead(r) \/ ForgotWrite(r)
             \/ ResetWrite(r) \/ CountBreaks(r) \/ HandOver(r) \/ WriteFails(r)
    BY <2>1 DEF Register, SignRead, SignWrite, RoleWrite, ResendRead, ResendWrite, VerifyWrite,
       ForgotRead, ForgotWrite, ResetWrite, CountBreaks, HandOver, WriteFails
  <2>2. CASE Counting(r)
    BY <2>2, Zenon DEF Counting
  <2>3. ASSUME NEW x, \/ RegisterRead(r, x) \/ RoleRead(r, x) \/ VerifyRead(r, x)
                      \/ ResetRead(r, x) \/ ForgotCount(r, x)
        PROVE  UNCHANGED <<raced, restarts>>
    BY <2>3 DEF RegisterRead, RoleRead, VerifyRead, ResetRead, ForgotCount
  <2> QED BY <1>4, <2>1, <2>2, <2>3 DEF Step, Confirming, Resetting
<1>5. ASSUME restarts' = restarts PROVE restarts <= restarts'
  BY <1>5
<1> QED BY <1>1, <1>2, <1>3, <1>4, <1>5 DEF Next

\* A verdict lets the attempt through, or does not.
LEMMA Verdict ==
    ASSUME NEW r \in Requests, ForgotRead(r)
    PROVE  /\ HitWrite(r)
           /\ raced' = (raced \/ Overtaken(r))
           /\ restarts' = restarts
           /\ \/ UNCHANGED spent
              \/ /\ spent' = Append(spent, hit[r].at)
                 /\ hit[r].key = Address
                 /\ Allowed(r)
BY DEF ForgotRead, HasBudget

LEMMA LimiterStep ==
    ASSUME Limiter, [Next]_accountsVars
    PROVE  Limiter'
<1> USE DEF Limiter
<1>1. CASE UNCHANGED <<rateVars, spent>>
  BY <1>1 DEF rateVars, RateTypeOK, Behind
<1>2. CASE Tick /\ UNCHANGED spent
  BY <1>2, LimiterTick
<1>3. CASE RateRestart /\ UNCHANGED spent
  BY <1>3, LimiterRestart DEF RateTypeOK
<1>4. ASSUME NEW r \in Requests, Sweeps(r), UNCHANGED spent
      PROVE  Limiter'
  BY <1>4, SweepsEffect DEF SweepsDone
<1>5. ASSUME NEW r \in Requests, ForgotRead(r) PROVE Limiter'
  <2>1. RateTypeOK' /\ Behind' /\ hit[r] \in Hit
    BY <1>5, Verdict, LimiterWrite
  <2>2. hit[r].at \in Time
    BY <2>1 DEF Hit
  <2>3. Append(spent, hit[r].at) \in Seq(Time)
    BY <2>2, AppendProperties
  <2> QED BY <1>5, <2>1, <2>3, Verdict
<1> QED BY <1>1, <1>2, <1>3, <1>4, <1>5, LimiterMoves

\* As long as no hit is overtaken, the stamps of a key stay in order.
LEMMA OrderlyStep ==
    ASSUME Limiter, restarts \in Nat, raced \in BOOLEAN, OrderInv, [Next]_accountsVars
    PROVE  OrderInv'
<1> SUFFICES ASSUME ~raced' PROVE Orderly'
  BY DEF OrderInv
<1> USE DEF Limiter
<1>1. ~raced /\ Orderly
  BY StepsCount DEF OrderInv
<1>2. CASE UNCHANGED <<rateVars, spent>>
  BY <1>1, <1>2 DEF rateVars, Orderly
<1>3. CASE Tick /\ UNCHANGED spent
  BY <1>1, <1>3, LimiterTick
<1>4. CASE RateRestart
  BY <1>4, LimiterRestart DEF RateTypeOK
<1>5. ASSUME NEW r \in Requests, Sweeps(r) PROVE Orderly'
  <2>1. SweepsDone(r) /\ RateTypeOK'
    BY <1>5, SweepsEffect DEF SweepsDone
  <2>2. ASSUME NEW k \in Keys PROVE UpTo(hits'[k], now')
    <3>1. hits'[k] = hits[k] \/ hits'[k] = <<>>
      BY <2>1 DEF SweepsDone, Deleted
    <3> QED BY <1>1, <2>1, <3>1, NothingUpTo DEF Orderly, SweepsDone
  <2>3. lastSweep <= lastSweep' /\ lastSweep \in Nat /\ lastSweep' \in Nat
    BY <2>1, TimeIsNat DEF SweepsDone, RateTypeOK
  <2>4. ASSUME NEW q \in Requests, hit'[q] # NoHit, hit'[q].doomed # {}
        PROVE  hit'[q].at <= lastSweep'
    <3>1. hit'[q].at \in Nat
      BY <2>1, <2>4, TimeIsNat DEF RateTypeOK, Hit
    <3>2. \/ hit'[q].at = lastSweep'
          \/ hit[q] # NoHit /\ hit[q].doomed # {} /\ hit'[q].at = hit[q].at
      BY <2>1, <2>4 DEF SweepsDone
    <3> QED BY <1>1, <2>3, <3>1, <3>2 DEF Orderly
  <2> QED BY <2>2, <2>4 DEF Orderly
<1>6. ASSUME NEW r \in Requests, ForgotRead(r) PROVE Orderly'
  <2>1. HitWrite(r) /\ ~Overtaken(r)
    BY <1>6, Verdict
  <2>2. /\ hit[r] \in Hit /\ hit'[r] = NoHit
        /\ \A q \in Requests \ {r} : hit'[q] = hit[q]
        /\ hits'[hit[r].key] = Append(hit[r].recent, hit[r].at)
        /\ \A k \in Keys \ {hit[r].key} : hits'[k] = hits[k]
        /\ UNCHANGED <<now, lastSweep>>
    BY <2>1, LimiterWrite
  <2>3. UpTo(Append(hit[r].recent, hit[r].at), now)
    <3>1. /\ UpTo(Append(hit[r].recent, hit[r].at), hit[r].at)
          /\ hit[r].at \in Time /\ hit[r].recent \in Seq(Time) /\ hit[r].at <= now
      BY <1>1, <2>1, <2>2, WriteInOrder, NoHitIsNone DEF Hit, Behind
    <3>2. Append(hit[r].recent, hit[r].at) \in Seq(Time)
      BY <3>1, AppendProperties
    <3> QED BY <3>1, <3>2, LaterUpTo DEF RateTypeOK
  <2> QED BY <1>1, <2>2, <2>3 DEF Orderly
<1> QED BY <1>2, <1>3, <1>4, <1>5, <1>6, LimiterMoves

----------------------------------------------------------------------------
(* The budget, while no write is made from a stale read and the server runs. *)

\* What the address's budget let through is still counted: with none of its
\* stamps left every attempt is a window before the last sweep; else the last
\* attempts let through lie no later than the last stamps, one by one, as far
\* back as the window of the last stamp goes.
SpentCounted ==
    LET counted == hits[Address]
        last    == counted[Len(counted)]
    IN  \A i \in DOMAIN spent :
            IF counted = <<>> THEN spent[i] + Window <= lastSweep
            ELSE /\ spent[i] <= last
                 /\ spent[i] + Window > last =>
                        LET j == Len(counted) - (Len(spent) - i)
                        IN  j >= 1 /\ spent[i] <= counted[j]

Budget == \A i, j \in DOMAIN spent : j = i + MaxAttempts => spent[j] - spent[i] >= Window

BudgetInv == ~raced /\ restarts = 0 => SpentCounted /\ Budget

LEMMA SpentIsNat ==
    ASSUME Limiter
    PROVE  /\ DOMAIN spent = 1 .. Len(spent) /\ Len(spent) \in Nat
           /\ \A i \in DOMAIN spent : spent[i] \in Nat
           /\ now \in Nat /\ lastSweep \in Nat /\ lastSweep <= now
           /\ Window \in Nat \ {0} /\ MaxAttempts \in Nat \ {0}
<1>1. spent \in Seq(Time)
  BY DEF Limiter
<1>2. DOMAIN spent = 1 .. Len(spent) /\ Len(spent) \in Nat
      /\ \A i \in 1 .. Len(spent) : spent[i] \in Time
  BY <1>1, LenProperties, ElementOfSeq
<1>3. /\ now \in Nat /\ lastSweep \in Nat /\ lastSweep <= now
  BY TimeIsNat DEF Limiter, RateTypeOK
<1> QED BY <1>2, <1>3, TimeIsNat, RateLimitAssumption

\* The stamps of the address.
LEMMA CountedIs ==
    ASSUME Limiter, Orderly
    PROVE  LET counted == hits[Address]
           IN  /\ counted \in Seq(Time) /\ UpTo(counted, now)
               /\ Len(counted) \in Nat /\ DOMAIN counted = 1 .. Len(counted)
               /\ \A i \in DOMAIN counted : counted[i] \in Nat
               /\ counted # <<>> => Len(counted) \in DOMAIN counted
<1> DEFINE counted == hits[Address]
<1>1. counted \in Seq(Time) /\ UpTo(counted, now)
  BY AccountsAssumption DEF Limiter, RateTypeOK, Orderly
<1> HIDE DEF counted
<1>2. /\ Len(counted) \in Nat /\ DOMAIN counted = 1 .. Len(counted)
      /\ \A i \in 1 .. Len(counted) : counted[i] \in Time
  BY <1>1, LenProperties, ElementOfSeq
<1>3. counted # <<>> => Len(counted) # 0
  BY <1>1, EmptySeq
<1>4. \A i \in DOMAIN counted : counted[i] \in Nat
  BY <1>2, TimeIsNat
<1>5. counted # <<>> => Len(counted) \in DOMAIN counted
  BY <1>2, <1>3
<1> QED BY <1>1, <1>2, <1>4, <1>5 DEF counted

\* An attempt that was not overtaken finds every attempt let through in the
\* window among the stamps it has read.
LEMMA StillCounted ==
    ASSUME Limiter, Orderly, SpentCounted, NEW r \in Requests, hit[r] \in Hit,
           hit[r].key = Address, ~Overtaken(r)
    PROVE  \A i \in DOMAIN spent :
              /\ spent[i] <= hit[r].at
              /\ spent[i] + Window > hit[r].at =>
                    LET j == Len(hit[r].recent) - (Len(spent) - i)
                    IN  j >= 1 /\ spent[i] <= hit[r].recent[j]
<1>1. PICK counted, at, recent :
        counted = hits[Address] /\ at = hit[r].at /\ recent = hit[r].recent
  OBVIOUS
<1>2. /\ at \in Time /\ at \in Nat /\ lastSweep <= at /\ recent = InWindow(counted, at)
      /\ UpTo(recent, at)
  <2>1. at \in Time /\ at \in Nat
    BY <1>1, TimeIsNat DEF Hit
  <2>2. ~(lastSweep > at)
    BY <1>1 DEF Overtaken
  <2>3. UpTo(recent, at)
    BY <1>1, WriteInOrder DEF Limiter
  <2> QED BY <1>1, <2>1, <2>2, <2>3, SpentIsNat DEF Overtaken
<1>3. /\ counted \in Seq(Time) /\ UpTo(counted, now)
      /\ Len(counted) \in Nat /\ DOMAIN counted = 1 .. Len(counted)
      /\ \A i \in DOMAIN counted : counted[i] \in Nat
      /\ counted # <<>> => Len(counted) \in DOMAIN counted
  BY <1>1, CountedIs
<1>4. PICK m \in 0 .. Len(counted) :
        /\ Len(recent) = Len(counted) - m
        /\ \A i \in 1 .. Len(counted) - m : recent[i] = counted[m + i]
        /\ \A i \in 1 .. m : at - counted[i] >= Window
        /\ \A i \in m + 1 .. Len(counted) : at - counted[i] < Window
  BY <1>2, <1>3, WindowIsLast DEF UpTo
<1>5. \A i \in DOMAIN counted : counted[i] <= at
  <2> SUFFICES ASSUME NEW i \in DOMAIN counted PROVE counted[i] <= at
    OBVIOUS
  <2>1. CASE i \in 1 .. m
    BY <1>2, <1>3, <1>4, <2>1, SpentIsNat
  <2>2. CASE ~(i \in 1 .. m)
    <3>1. i - m \in 1 .. Len(counted) - m /\ m + (i - m) = i
      BY <1>3, <2>2
    <3>2. recent[i - m] = counted[i]
      BY <1>4, <3>1
    <3>3. recent \in Seq(Time)
      BY <1>1 DEF Hit
    <3>4. i - m \in DOMAIN recent
      BY <1>4, <3>1, <3>3, LenProperties
    <3> QED BY <1>2, <3>2, <3>4 DEF UpTo
  <2> QED BY <2>1, <2>2
<1> SUFFICES ASSUME NEW i \in DOMAIN spent
             PROVE  /\ spent[i] <= at
                    /\ spent[i] + Window > at =>
                          LET j == Len(recent) - (Len(spent) - i)
                          IN  j >= 1 /\ spent[i] <= recent[j]
  BY <1>1
<1>6. CASE counted = <<>>
  <2>1. spent[i] + Window <= lastSweep
    BY <1>1, <1>6 DEF SpentCounted
  <2> QED BY <1>2, <2>1, SpentIsNat
<1>7. CASE counted # <<>>
  <2>1. PICK last : last = counted[Len(counted)]
    OBVIOUS
  <2>2. PICK j : j = Len(counted) - (Len(spent) - i)
    OBVIOUS
  <2>3. /\ spent[i] <= last
        /\ spent[i] + Window > last => j >= 1 /\ spent[i] <= counted[j]
    BY <1>1, <1>7, <2>1, <2>2 DEF SpentCounted
  <2>4. last \in Nat /\ last <= at
    BY <1>3, <1>5, <1>7, <2>1
  <2>5. spent[i] \in Nat /\ i \in 1 .. Len(spent) /\ Len(spent) \in Nat /\ Window \in Nat \ {0}
    BY SpentIsNat
  <2>6. spent[i] <= at
    BY <1>2, <2>3, <2>4, <2>5
  <2>7. ASSUME spent[i] + Window > at
        PROVE  Len(recent) - (Len(spent) - i) >= 1
               /\ spent[i] <= recent[Len(recent) - (Len(spent) - i)]
    <3>1. j >= 1 /\ spent[i] <= counted[j]
      BY <1>2, <2>3, <2>4, <2>5, <2>7
    <3>2. j \in 1 .. Len(counted) /\ counted[j] \in Nat
      BY <1>3, <2>2, <2>5, <3>1
    <3>3. ~(at - counted[j] >= Window)
      BY <1>2, <2>5, <2>7, <3>1, <3>2
    <3>4. j > m
      BY <1>4, <3>2, <3>3
    <3>5. j - m \in 1 .. Len(counted) - m /\ m + (j - m) = j
      BY <1>3, <3>2, <3>4
    <3>6. recent[j - m] = counted[j]
      BY <1>4, <3>5
    <3>7. Len(recent) - (Len(spent) - i) = j - m
      BY <1>3, <1>4, <2>2, <2>5
    <3> QED BY <3>1, <3>5, <3>6, <3>7
  <2> QED BY <2>6, <2>7
<1> QED BY <1>6, <1>7

LEMMA InitBudget == Init => BudgetInv
<1> SUFFICES ASSUME Init PROVE BudgetInv
  OBVIOUS
<1>1. spent = <<>> /\ DOMAIN <<>> = {}
  <2>1. <<>> \in Seq(Time) /\ Len(<<>>) = 0
    BY EmptySeq
  <2> QED BY <2>1, LenProperties DEF Init
<1> QED BY <1>1 DEF BudgetInv, SpentCounted, Budget

\* A hit deletes the stamps of the address only when the last of them, and so
\* every attempt let through, is a window behind the last sweep.
LEMMA SpentSwept ==
    ASSUME Limiter, Orderly, SpentCounted, NEW r \in Requests, Sweeps(r), ~raced',
           UNCHANGED spent
    PROVE  SpentCounted'
<1>1. PICK counted : counted = hits[Address]
  OBVIOUS
<1>2. SweepsDone(r)
  BY SweepsEffect DEF Limiter
<1>3. hits'[Address] = counted \/ Deleted(r, Address)
  BY <1>1, <1>2, AccountsAssumption DEF SweepsDone
<1>4. lastSweep' \in Nat /\ lastSweep <= lastSweep'
  BY <1>2, TimeIsNat DEF SweepsDone, RateTypeOK
<1>5. CASE hits'[Address] = counted /\ counted # <<>>
  BY <1>1, <1>5 DEF SpentCounted
<1>6. CASE hits'[Address] = counted /\ counted = <<>>
  <2>1. \A i \in DOMAIN spent : spent[i] + Window <= lastSweep'
    <3>1. \A i \in DOMAIN spent : spent[i] + Window <= lastSweep
      BY <1>1, <1>6 DEF SpentCounted
    <3> QED BY <1>4, <3>1, SpentIsNat
  <2> QED BY <1>6, <2>1 DEF SpentCounted
<1>7. CASE Deleted(r, Address)
  <2>1. PICK last, at : last = counted[Len(counted)] /\ at = hit[r].at
    OBVIOUS
  <2>2. counted # <<>> /\ at - last >= Window /\ at <= lastSweep /\ hits'[Address] = <<>>
    BY <1>1, <1>7, <2>1 DEF Elapsed, Deleted, Orderly
  <2>3. last \in Nat /\ at \in Nat
    <3>1. hit[r] \in Hit
      BY <1>7 DEF Deleted, Limiter, RateTypeOK
    <3> QED BY <1>1, <2>1, <2>2, <3>1, CountedIs, TimeIsNat DEF Hit
  <2>4. \A i \in DOMAIN spent : spent[i] <= last
    BY <1>1, <2>1, <2>2 DEF SpentCounted
  <2>5. \A i \in DOMAIN spent : spent[i] + Window <= lastSweep'
    BY <1>4, <2>2, <2>3, <2>4, SpentIsNat
  <2> QED BY <2>2, <2>5 DEF SpentCounted
<1> QED BY <1>3, <1>5, <1>6, <1>7

\* A write from a current read counts what was let through, and lets another
\* attempt through only when MaxAttempts - 1 are in the window.
LEMMA SpentWrite ==
    ASSUME Limiter, Orderly, SpentCounted, Budget, NEW r \in Requests, ForgotRead(r),
           ~Overtaken(r)
    PROVE  SpentCounted' /\ Budget'
<1>1. /\ HitWrite(r) /\ hit[r] \in Hit
      /\ hits'[hit[r].key] = Append(hit[r].recent, hit[r].at)
      /\ \A k \in Keys \ {hit[r].key} : hits'[k] = hits[k]
      /\ lastSweep' = lastSweep
  BY Verdict, LimiterWrite DEF Limiter
<1>2. CASE hit[r].key # Address
  <2>1. UNCHANGED spent /\ hits'[Address] = hits[Address]
    BY <1>1, <1>2, Verdict, AccountsAssumption
  <2> QED BY <1>1, <2>1 DEF SpentCounted, Budget
<1>3. CASE hit[r].key = Address
  <2>1. PICK at, recent, n : at = hit[r].at /\ recent = hit[r].recent /\ n = Len(recent)
    OBVIOUS
  <2>2. /\ at \in Time /\ at \in Nat /\ recent \in Seq(Time) /\ UpTo(recent, at)
        /\ n \in Nat /\ DOMAIN recent = 1 .. n
        /\ \A i \in 1 .. n : recent[i] \in Nat
    <3>1. at \in Time /\ recent \in Seq(Time)
      BY <1>1, <2>1 DEF Hit
    <3>2. UpTo(recent, at)
      BY <1>1, <2>1, WriteInOrder DEF Limiter
    <3>3. n \in Nat /\ DOMAIN recent = 1 .. n /\ \A i \in 1 .. n : recent[i] \in Time
      BY <2>1, <3>1, LenProperties, ElementOfSeq
    <3> QED BY <3>1, <3>2, <3>3, TimeIsNat
  <2>3. PICK counted : counted = Append(recent, at)
    OBVIOUS
  <2>4. /\ hits'[Address] = counted
        /\ Len(counted) = n + 1 /\ counted[n + 1] = at
        /\ \A i \in 1 .. n : counted[i] = recent[i]
        /\ counted \in Seq(Time) /\ UpTo(counted, at)
        /\ counted # <<>>
    <3>1. counted \in Seq(Time) /\ UpTo(counted, at)
      BY <2>2, <2>3, CountedUpTo
    <3>2. /\ Len(counted) = n + 1 /\ counted[n + 1] = at
          /\ \A i \in 1 .. n : counted[i] = recent[i]
      BY <2>1, <2>2, <2>3, AppendProperties
    <3>3. counted # <<>>
      BY <2>2, <3>1, <3>2, EmptySeq
    <3> QED BY <1>1, <1>3, <2>1, <2>3, <3>1, <3>2, <3>3
  <2>5. \A i \in DOMAIN spent :
           /\ spent[i] <= at
           /\ spent[i] + Window > at =>
                  n - (Len(spent) - i) >= 1 /\ spent[i] <= recent[n - (Len(spent) - i)]
    BY <1>1, <1>3, <2>1, StillCounted
  <2>6. CASE UNCHANGED spent
    <3>1. ASSUME NEW i \in DOMAIN spent, spent[i] + Window > at
          PROVE  (n + 1) - (Len(spent) - i) >= 1
                 /\ spent[i] <= counted[(n + 1) - (Len(spent) - i)]
      <4>1. PICK j : j = n - (Len(spent) - i)
        OBVIOUS
      <4>2. j >= 1 /\ spent[i] <= recent[j]
        BY <2>5, <3>1, <4>1
      <4>3. i \in 1 .. Len(spent) /\ Len(spent) \in Nat /\ spent[i] \in Nat
        BY SpentIsNat
      <4>4. j \in 1 .. n /\ (n + 1) - (Len(spent) - i) = j + 1
        BY <2>2, <4>1, <4>2, <4>3
      <4>5. counted[j] = recent[j] /\ recent[j] \in Nat
        BY <2>2, <2>4, <4>4
      <4>6. j \in DOMAIN counted /\ j + 1 \in DOMAIN counted /\ j <= j + 1
        BY <2>2, <2>4, <4>4, LenProperties
      <4>7. counted[j] <= counted[j + 1] /\ counted[j + 1] \in Nat
        <5>1. counted[j + 1] \in Time
          BY <2>4, <4>6, LenProperties, ElementOfSeq
        <5> QED BY <2>4, <4>6, <5>1, TimeIsNat DEF UpTo, InOrder
      <4>8. spent[i] <= counted[j + 1]
        BY <4>2, <4>3, <4>5, <4>7
      <4> QED BY <4>2, <4>4, <4>8
    <3>2. SpentCounted'
      BY <2>4, <2>5, <2>6, <3>1 DEF SpentCounted
    <3> QED BY <2>6, <3>2 DEF Budget
  <2>7. CASE spent' = Append(spent, at) /\ Allowed(r)
    <3>1. PICK m : m = Len(spent)
      OBVIOUS
    <3>2. /\ m \in Nat /\ DOMAIN spent = 1 .. m
          /\ Len(spent') = m + 1 /\ DOMAIN spent' = 1 .. m + 1
          /\ spent'[m + 1] = at
          /\ \A i \in 1 .. m : spent'[i] = spent[i] /\ spent[i] \in Nat
      <4>1. spent \in Seq(Time)
        BY DEF Limiter
      <4>2. /\ spent' \in Seq(Time) /\ Len(spent') = m + 1 /\ spent'[m + 1] = at
            /\ \A i \in 1 .. m : spent'[i] = spent[i]
        BY <2>2, <2>7, <3>1, <4>1, AppendProperties
      <4>3. DOMAIN spent' = 1 .. m + 1
        BY <4>2, LenProperties
      <4> QED BY <3>1, <4>2, <4>3, SpentIsNat
    <3>3. ASSUME NEW i \in DOMAIN spent', spent'[i] + Window > at
          PROVE  (n + 1) - ((m + 1) - i) >= 1
                 /\ spent'[i] <= counted[(n + 1) - ((m + 1) - i)]
      <4>1. CASE i = m + 1
        BY <2>2, <2>4, <3>2, <4>1
      <4>2. CASE i \in 1 .. m
        <5>1. n - (m - i) >= 1 /\ spent[i] <= recent[n - (m - i)]
          BY <2>5, <3>1, <3>2, <3>3, <4>2
        <5>2. n - (m - i) \in 1 .. n /\ (n + 1) - ((m + 1) - i) = n - (m - i)
          <6>1. n \in Nat /\ m \in Nat /\ i \in Nat /\ i <= m
            BY <2>2, <3>2, <4>2
          <6>2. n - (m - i) >= 1
            BY <5>1
          <6> HIDE <5>1
          <6> QED BY ONLY <6>1, <6>2
        <5>3. counted[n - (m - i)] = recent[n - (m - i)]
          BY <2>4, <5>2
        <5> QED BY <3>2, <4>2, <5>1, <5>2, <5>3
      <4> QED BY <3>2, <4>1, <4>2
    <3>4. \A i \in DOMAIN spent' : spent'[i] <= at
      <4>1. at <= at
        BY <2>2
      <4>2. \A i \in 1 .. m : spent[i] <= at
        BY <2>5, <3>2
      <4> QED BY <3>2, <4>1, <4>2
    <3>5. SpentCounted'
      BY <2>4, <3>2, <3>3, <3>4 DEF SpentCounted
    <3>6. n + 1 <= MaxAttempts
      BY <2>1, <2>3, <2>4, <2>7 DEF Allowed, Counted
    <3>7. ASSUME NEW i \in DOMAIN spent', NEW j \in DOMAIN spent', j = i + MaxAttempts
          PROVE  spent'[j] - spent'[i] >= Window
      <4>1. MaxAttempts \in Nat \ {0} /\ Window \in Nat \ {0}
        BY RateLimitAssumption
      <4>2. i \in 1 .. m
        BY <3>2, <3>7, <4>1
      <4>3. CASE j \in 1 .. m
        <5>1. spent[j] - spent[i] >= Window
          BY <3>2, <3>7, <4>2, <4>3 DEF Budget
        <5> QED BY <3>2, <4>2, <4>3, <5>1
      <4>4. CASE j = m + 1
        <5>1. n - (m - i) < 1
          BY <2>2, <3>2, <3>6, <3>7, <4>1, <4>2, <4>4
        <5>2. ~(spent[i] + Window > at)
          BY <2>2, <2>5, <3>1, <3>2, <4>2, <5>1
        <5> QED BY <2>2, <3>2, <4>1, <4>2, <4>4, <5>2
      <4> QED BY <3>2, <4>3, <4>4
    <3>8. Budget'
      BY <3>7 DEF Budget
    <3> QED BY <3>5, <3>8
  <2> QED BY <2>1, <2>6, <2>7, Verdict
<1> QED BY <1>2, <1>3

LEMMA BudgetStep ==
    ASSUME Limiter, OrderInv, restarts \in Nat, raced \in BOOLEAN, BudgetInv,
           [Next]_accountsVars
    PROVE  BudgetInv'
<1> SUFFICES ASSUME ~raced', restarts' = 0 PROVE SpentCounted' /\ Budget'
  BY DEF BudgetInv
<1>1. (raced => raced') /\ restarts <= restarts'
  BY StepsCount
<1>2. ~raced /\ restarts = 0 /\ SpentCounted /\ Budget /\ Orderly
  BY <1>1 DEF BudgetInv, OrderInv
<1>3. CASE UNCHANGED <<rateVars, spent>>
  BY <1>2, <1>3 DEF rateVars, SpentCounted, Budget
<1>4. CASE Tick /\ UNCHANGED spent
  BY <1>2, <1>4 DEF Tick, SpentCounted, Budget
<1>5. CASE restarts' = restarts + 1
  BY <1>2, <1>5
<1>6. ASSUME NEW r \in Requests, Sweeps(r), UNCHANGED spent
      PROVE  SpentCounted' /\ Budget'
  BY <1>2, <1>6, SpentSwept DEF Budget
<1>7. ASSUME NEW r \in Requests, ForgotRead(r) PROVE SpentCounted' /\ Budget'
  BY <1>2, <1>7, SpentWrite, Verdict
<1> QED BY <1>3, <1>4, <1>5, <1>6, <1>7, LimiterMoves

----------------------------------------------------------------------------
(* The counters, and every type. *)

Counters ==
    /\ begun \in 0 .. MaxRequests
    /\ failures \in Nat /\ restarts \in Nat
    /\ failures + restarts <= MaxFailures

LEMMA InitCounters == Init => Counters
BY AccountsAssumption DEF Init, Counters

LEMMA CountersStep ==
    ASSUME Counters, [Next]_accountsVars
    PROVE  Counters'
<1> USE AccountsAssumption DEF Counters
<1>1. CASE UNCHANGED <<begun, failures, restarts>>
  BY <1>1
<1>2. ASSUME Fails, UNCHANGED begun,
             \/ failures' = failures + 1 /\ UNCHANGED restarts
             \/ restarts' = restarts + 1 /\ UNCHANGED failures
      PROVE  Counters'
  BY <1>2 DEF Fails
<1>3. ASSUME begun < MaxRequests, begun' = begun + 1, UNCHANGED <<failures, restarts>>
      PROVE  Counters'
  BY <1>3
<1> HIDE AccountsAssumption DEF Counters
<1>4. CASE UNCHANGED accountsVars \/ Clock
  BY <1>1, <1>4 DEF accountsVars, accountVars, Clock
<1>5. CASE Crash
  BY <1>2, <1>5 DEF Crash
<1>6. CASE Mailing
  <2>1. PICK t : Deliver(t) \/ SendFails(t)
    BY <1>6 DEF Mailing
  <2>2. ASSUME Deliver(t) PROVE Counters'
    BY <1>1, <2>2 DEF Deliver
  <2>3. ASSUME SendFails(t) PROVE Counters'
    BY <1>2, <2>3 DEF SendFails
  <2> QED BY <2>1, <2>2, <2>3
<1>7. ASSUME NEW r \in Requests, Step(r) PROVE Counters'
  <2>1. CASE \/ Register(r) \/ SignWrite(r) \/ RoleWrite(r) \/ ResendWrite(r) \/ VerifyWrite(r)
             \/ ForgotRead(r) \/ ForgotWrite(r) \/ ResetWrite(r) \/ HandOver(r)
    BY <1>1, <2>1 DEF Register, SignWrite, RoleWrite, ResendWrite, VerifyWrite, ForgotRead,
       ForgotWrite, ResetWrite, HandOver
  <2>2. CASE Counting(r) \/ CountBreaks(r)
    BY <1>1, <2>2 DEF Counting, CountBreaks, accountVars
  <2>3. CASE SignRead(r) \/ ResendRead(r)
    BY <1>3, <2>3 DEF SignRead, ResendRead, Reads, Admitted
  <2>4. ASSUME NEW x,
               RoleRead(r, x) \/ VerifyRead(r, x) \/ ResetRead(r, x) \/ ForgotCount(r, x)
        PROVE  Counters'
    BY <1>3, <2>4 DEF RoleRead, VerifyRead, ResetRead, ForgotCount, Reads, Admitted
  <2>5. ASSUME NEW x, RegisterRead(r, x) PROVE Counters'
    BY <1>1, <2>5 DEF RegisterRead
  <2>6. CASE WriteFails(r)
    BY <1>2, <2>6 DEF WriteFails
  <2> QED BY <1>7, <2>1, <2>2, <2>3, <2>4, <2>5, <2>6 DEF Step, Confirming, Resetting
<1> QED BY <1>4, <1>5, <1>6, <1>7 DEF Next

LEMMA LimiterHolds == Spec => [](Limiter /\ OrderInv /\ Counters)
<1>1. Inv /\ Limiter /\ OrderInv /\ Counters /\ [Next]_accountsVars
          => (Limiter /\ OrderInv /\ Counters)'
  BY LimiterStep, OrderlyStep, CountersStep DEF Inv, Types
<1> QED BY LimiterInit, InitCounters, InvHolds, <1>1, PTL DEF Spec

\* Every column, link, mail, stamp and request keeps its type, whatever races,
\* fails or restarts.
THEOREM TypeCorrect == Spec => []TypeOK
<1>1. Inv /\ Limiter /\ Counters => TypeOK
  <2> SUFFICES ASSUME Inv, Limiter, Counters PROVE TypeOK
    OBVIOUS
  <2>1. {failures, restarts} \subseteq 0 .. MaxFailures
    BY AccountsAssumption DEF Counters
  <2> QED BY <2>1 DEF Inv, Types, Limiter, Counters, TypeOK
<1> QED BY InvHolds, LimiterHolds, <1>1, PTL

\* As long as no write is made from a stale read and the server runs, the budget
\* of an address lets at most MaxAttempts through in any window, whatever the
\* limiter sweeps meanwhile (ratelimit.py, _address_mail_budget_remains).
THEOREM BudgetHolds == Spec => []MailBudget
<1>1. /\ Inv /\ Limiter /\ OrderInv
      /\ BudgetInv /\ [Next]_accountsVars
      => BudgetInv'
  BY BudgetStep DEF Inv, Types
<1>2. BudgetInv => MailBudget
  BY DEF BudgetInv, Budget, MailBudget
<1> QED BY InitBudget, InvHolds, LimiterHolds, <1>1, <1>2, PTL DEF Spec

----------------------------------------------------------------------------
(* Eviction. *)

\* What a sweep may drop would not have been counted: with the last stamp a
\* window old, every stamp is.
LEMMA ElapsedCountsNothing ==
    ASSUME NEW stamps, stamps \in Seq(Time), NEW t \in Time, InOrder(stamps),
           stamps # <<>>, t - stamps[Len(stamps)] >= Window
    PROVE  InWindow(stamps, t) = <<>>
<1>1. PICK m \in 0 .. Len(stamps) :
        /\ Len(InWindow(stamps, t)) = Len(stamps) - m
        /\ \A i \in m + 1 .. Len(stamps) : t - stamps[i] < Window
  BY WindowIsLast
<1>2. InWindow(stamps, t) \in Seq(Time)
  BY WindowIsLast
<1>3. Len(stamps) \in Nat
  BY LenProperties
<1>4. t - stamps[Len(stamps)] \in Int /\ Window \in Int
  <2>1. Len(stamps) \in 1 .. Len(stamps)
    BY <1>3, EmptySeq
  <2>2. PICK last : last = stamps[Len(stamps)]
    OBVIOUS
  <2>3. last \in Nat
    BY <2>1, <2>2, ElementOfSeq, TimeIsNat
  <2>4. t \in Nat /\ Window \in Nat
    BY TimeIsNat, RateLimitAssumption
  <2> QED BY ONLY <2>2, <2>3, <2>4
<1>5. m = Len(stamps)
  <2>1. CASE m < Len(stamps)
    <3>1. Len(stamps) \in m + 1 .. Len(stamps)
      BY <1>3, <2>1
    <3> QED BY <1>1, <1>4, <3>1
  <2> QED BY <1>3, <2>1
<1>6. Len(InWindow(stamps, t)) = 0
  BY <1>1, <1>3, <1>5
<1> QED BY <1>2, <1>6, EmptySeq

\* "Eviction changes no counter's value" (ratelimit.py:60): as long as no step
\* acts on what another thread has changed since, a key is dropped only with
\* stamps that no clock will count, from the last sweep on.
EvictionIsSilent ==
    [][~raced' /\ UNCHANGED restarts =>
        \A k \in Keys :
            hits[k] # <<>> /\ hits'[k] = <<>> =>
                \A t \in Time : lastSweep <= t => InWindow(hits[k], t) = <<>>]_accountsVars

EvictsSilently ==
    ~raced' /\ UNCHANGED restarts =>
        \A k \in Keys :
            hits[k] # <<>> /\ hits'[k] = <<>> =>
                \A t \in Time : lastSweep <= t => InWindow(hits[k], t) = <<>>

LEMMA EvictionStep ==
    ASSUME Limiter, OrderInv, restarts \in Nat, raced \in BOOLEAN, [Next]_accountsVars
    PROVE  EvictsSilently
<1> SUFFICES ASSUME ~raced', UNCHANGED restarts, NEW k \in Keys, hits[k] # <<>>,
                    hits'[k] = <<>>, NEW t \in Time, lastSweep <= t
             PROVE  InWindow(hits[k], t) = <<>>
  BY DEF EvictsSilently
<1>1. Orderly
  BY StepsCount DEF OrderInv
<1>2. ASSUME NEW r \in Requests, ForgotRead(r) PROVE FALSE
  <2>1. /\ hit[r] \in Hit
        /\ hits'[hit[r].key] = Append(hit[r].recent, hit[r].at)
        /\ \A q \in Keys \ {hit[r].key} : hits'[q] = hits[q]
    BY <1>2, Verdict, LimiterWrite DEF Limiter
  <2>2. PICK recent, at : recent = hit[r].recent /\ at = hit[r].at
    OBVIOUS
  <2>3. recent \in Seq(Time) /\ at \in Time
    BY <2>1, <2>2 DEF Hit
  <2>4. Append(recent, at) # <<>>
    BY <2>3, AppendProperties
  <2> QED BY <2>1, <2>2, <2>4
<1>3. ASSUME RateRestart, restarts' = restarts + 1 PROVE FALSE
  BY <1>3
<1>4. PICK r \in Requests : Sweeps(r)
  BY <1>2, <1>3, LimiterMoves DEF rateVars, Tick
<1>5. Deleted(r, k)
  BY <1>4, SweepsEffect DEF Limiter, SweepsDone
<1>6. PICK stamps, last, at :
        stamps = hits[k] /\ last = stamps[Len(stamps)] /\ at = hit[r].at
  OBVIOUS
<1>7. stamps \in Seq(Time) /\ InOrder(stamps) /\ stamps # <<>>
  BY <1>1, <1>6 DEF Limiter, RateTypeOK, Orderly, UpTo
<1>8. at - last >= Window /\ at <= lastSweep
  BY <1>1, <1>5, <1>6 DEF Deleted, Elapsed, Orderly
<1>9. t - last >= Window
  <2>1. last \in Nat
    <3>1. Len(stamps) \in 1 .. Len(stamps)
      BY <1>7, EmptySeq, LenProperties
    <3> QED BY <1>6, <1>7, <3>1, ElementOfSeq, TimeIsNat
  <2>2. at \in Nat
    BY <1>5, <1>6, TimeIsNat DEF Deleted, Limiter, RateTypeOK, Hit
  <2>3. t \in Nat /\ lastSweep \in Nat /\ Window \in Nat
    BY SpentIsNat, TimeIsNat
  <2> QED BY ONLY <1>8, <2>1, <2>2, <2>3, lastSweep <= t
<1> QED BY <1>6, <1>7, <1>9, ElapsedCountsNothing

\* A sweep is housekeeping, for every window, limit and interval between sweeps,
\* as long as no step acts on what another thread has changed (D9).
THEOREM EvictionChangesNothing == Spec => EvictionIsSilent
<1>1. Inv /\ Limiter /\ OrderInv /\ [Next]_accountsVars => [EvictsSilently]_accountsVars
  BY EvictionStep DEF Inv, Types
<1>2. [EvictsSilently]_accountsVars =>
          [~raced' /\ UNCHANGED restarts =>
              \A k \in Keys :
                  hits[k] # <<>> /\ hits'[k] = <<>> =>
                      \A t \in Time : lastSweep <= t => InWindow(hits[k], t) = <<>>]_accountsVars
  BY DEF EvictsSilently
<1> QED BY InvHolds, LimiterHolds, <1>1, <1>2, PTL DEF Spec, EvictionIsSilent
=============================================================================
