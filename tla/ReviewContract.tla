--------------------------- MODULE ReviewContract ---------------------------
(***************************************************************************)
(* What "verified buyer" promises a seller: where the buyer stands, and how *)
(* many documents no decision has looked at.  A decision looks at all of    *)
(* them; an approval follows on documents, a rejection on documents or on   *)
(* an approval; and new documents are what takes a rejected buyer back.     *)
(***************************************************************************)
EXTENDS Naturals

VARIABLES
    standing,   \* "unverified", "pending", "verified" or "rejected"
    unseen      \* the documents handed in since the last decision

vars == <<standing, unseen>>

Init == standing = "unverified" /\ unseen = 0

Submit ==
    /\ standing # "verified"
    /\ standing' = "pending"
    /\ unseen' = unseen + 1

Approve ==
    /\ standing = "pending"
    /\ unseen > 0
    /\ standing' = "verified"
    /\ unseen' = 0

Reject ==
    /\ standing = "pending" /\ unseen > 0
    /\ standing' = "rejected"
    /\ unseen' = 0

Revoke ==
    /\ standing = "verified" /\ unseen = 0
    /\ standing' = "rejected"
    /\ UNCHANGED unseen

Next == Submit \/ Approve \/ Reject \/ Revoke

Spec == Init /\ [][Next]_vars

\* Whoever is verified has been seen whole.
SeenWhole == standing = "verified" => unseen = 0
=============================================================================
