----------------------------- MODULE MCAccounts -----------------------------
EXTENDS Accounts, TLC

\* The requests are interchangeable.
Symmetry == Permutations(Requests)
=============================================================================
