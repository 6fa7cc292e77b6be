------------------------------ MODULE MCDeals ------------------------------
(* Deals for TLC. *)
EXTENDS Deals, TLC

\* Requests are interchangeable, and so are buyers when all or none of them
\* have a matching saved search.
Symmetry == Permutations(Requests) \cup Permutations(Buyers)
=============================================================================
