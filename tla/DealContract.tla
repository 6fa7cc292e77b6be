---------------------------- MODULE DealContract ----------------------------
(***************************************************************************)
(* What a listing promises its parties, seen from outside: whether it is on *)
(* the market, the one deal it is committed to, and the price it sold at.  *)
(***************************************************************************)
EXTENDS Naturals

CONSTANTS Buyers, Prices

VARIABLES
    phase,   \* "off" the market, "on" it, "held" by a deal, "sold" or "gone"
    deals,   \* the deals it is committed to, a buyer and a price each
    sale     \* the price it sold at, 0 before

vars == <<phase, deals, sale>>

Init == phase = "off" /\ deals = {} /\ sale = 0

\* The seller and the admin move a listing on and off the market, and may
\* retire it for good, while no deal holds it.
Offer  == phase = "off" /\ phase' = "on" /\ UNCHANGED <<deals, sale>>
Remove == phase = "on" /\ phase' = "off" /\ UNCHANGED <<deals, sale>>
Retire == phase \in {"on", "off"} /\ phase' = "gone" /\ UNCHANGED <<deals, sale>>

\* One buyer and the seller agree on a price.
Agree ==
    /\ phase = "on"
    /\ phase' = "held"
    /\ \E b \in Buyers, p \in Prices : deals' = {<<b, p>>}
    /\ UNCHANGED sale

FallThrough ==
    /\ phase = "held"
    /\ phase' = "on"
    /\ deals' = {}
    /\ UNCHANGED sale

\* It sells at the price agreed, to the buyer it was agreed with.
Complete ==
    /\ phase = "held"
    /\ phase' = "sold"
    /\ \E d \in deals : sale' = d[2]
    /\ UNCHANGED deals

Next == Offer \/ Remove \/ Retire \/ Agree \/ FallThrough \/ Complete

Spec == Init /\ [][Next]_vars
=============================================================================
