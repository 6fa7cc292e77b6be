---------------------------- MODULE LinkContract ----------------------------
(***************************************************************************)
(* What the owner of an account is promised of the links that reset its     *)
(* password: the newest one only is good, asking for another puts an end to *)
(* it, and using it does too.                                               *)
(***************************************************************************)
EXTENDS Naturals, Sequences

VARIABLES
    issued,     \* how many links there have been
    good,       \* the link that works, 0 when none does
    uses        \* the links that changed the password, in order

vars == <<issued, good, uses>>

Init == issued = 0 /\ good = 0 /\ uses = <<>>

Ask ==
    /\ issued' = issued + 1
    /\ good' = issued'
    /\ UNCHANGED uses

Use ==
    /\ good # 0
    /\ uses' = Append(uses, good)
    /\ good' = 0
    /\ UNCHANGED issued

Next == Ask \/ Use

Spec == Init /\ [][Next]_vars

\* A link works once, and never after a newer one has.
UsedInOrder == \A i, j \in DOMAIN uses : i < j => uses[i] < uses[j]
=============================================================================
