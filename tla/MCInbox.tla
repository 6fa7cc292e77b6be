------------------------------ MODULE MCInbox ------------------------------
EXTENDS Inbox, TLC

\* An ASCII letter in both cases, one with an accent in both, a sharp s and a
\* newline.
MCLetters == {"s", "S", "e'", "E'", "ss", "nl"}

MCCasefold == [c \in MCLetters |->
    CASE c \in {"s", "S"}   -> <<"s">>
      [] c \in {"e'", "E'"} -> <<"e'">>
      [] c = "ss"           -> <<"s", "s">>
      [] c = "nl"           -> <<"nl">>]

MCSqlLower == [c \in MCLetters |-> IF c = "S" THEN "s" ELSE c]

\* A search with a listing at all its limits, and one by a word only: two plain
\* letters and an accented one.
MCFilters == {[type |-> {"saas"}, min_price |-> {2}, max_price |-> {2}, min_profit |-> {-1},
               q |-> {<<"s">>}],
              [type |-> {}, min_price |-> {}, max_price |-> {}, min_profit |-> {},
               q |-> {<<"s", "s", "e'">>}]}

\* A listing at every limit of the first search, and one beyond them all that
\* the second matches by a sharp s and a capital.
MCFacts == {[type |-> "saas", asking_price |-> 2, ttm_profit |-> -1,
             headline |-> <<"e'">>, description |-> <<"e'", "S">>],
            [type |-> "shop", asking_price |-> 3, ttm_profit |-> -2,
             headline |-> <<"s", "ss", "E'">>, description |-> <<"nl">>]}

Symmetry == Permutations(Requests)
=============================================================================
