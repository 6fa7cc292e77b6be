---------------------------- MODULE RoomContract ----------------------------
(***************************************************************************)
(* What a seller is promised of the room where listings are discussed: who  *)
(* stands where with the seller, and which of the buyer's connections are   *)
(* in the room.  Nobody comes in who is not approved at that moment, and    *)
(* the step that revokes the approval is the step that empties the room.    *)
(***************************************************************************)
CONSTANT Connections

VARIABLES
    standing,   \* "none", "requested", "approved", "denied" or "revoked"
    room        \* the connections in it

vars == <<standing, room>>

Init == standing = "none" /\ room = {}

Moves(from, to) == standing = from /\ standing' = to

Ask    == Moves("none", "requested") /\ UNCHANGED room
Admit  == Moves("requested", "approved") /\ UNCHANGED room
Refuse == Moves("requested", "denied") /\ UNCHANGED room

\* For good, and at once.
Expel == Moves("approved", "revoked") /\ room' = {}

Enter ==
    /\ standing = "approved"
    /\ \E c \in Connections : room' = room \cup {c}
    /\ UNCHANGED standing

Leave == room' \subseteq room /\ UNCHANGED standing

Next == Ask \/ Admit \/ Refuse \/ Expel \/ Enter \/ Leave

Spec == Init /\ [][Next]_vars

\* Whoever is in the room is there by an approval that stands.
ApprovedInside == room # {} => standing = "approved"
=============================================================================
