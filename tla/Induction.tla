------------------------------ MODULE Induction ------------------------------
(***************************************************************************)
(* Induction over the naturals, stated about sets and functions instead of  *)
(* predicates, so that a proof can cite it: what a recursive function of an *)
(* index computes is proved from it.  The totals a quota compares           *)
(* (uploads.py) and the stamps a window keeps (ratelimit.py) are such       *)
(* functions.                                                               *)
(***************************************************************************)
EXTENDS WellFoundedInduction, TLAPS

\* A set of naturals that is not empty has a least element.
LEMMA LeastNatural ==
    ASSUME NEW T \in SUBSET Nat, T # {}
    PROVE  \E x \in T : \A y \in T : x <= y
<1> DEFINE R == OpToRel(<, Nat)
<1>1. IsWellFoundedOn(R, Nat)
  BY NatLessThanWellFounded
<1>2. \A x, y \in Nat : x < y => <<x, y>> \in R
  BY DEF OpToRel
<1> HIDE DEF R
<1>3. PICK x \in T : \A y \in T : ~ (<<y, x>> \in R)
  BY <1>1, WFMin
<1>4. ASSUME NEW y \in T PROVE x <= y
  <2>1. x \in Nat /\ y \in Nat
    OBVIOUS
  <2>2. ~ (y < x)
    BY <1>2, <1>3, <2>1
  <2> QED
    BY <2>1, <2>2
<1> QED
  BY <1>4

\* A set that holds zero, and the successor of each natural it holds, holds
\* every natural.
LEMMA SetInduction ==
    ASSUME NEW T, 0 \in T, \A n \in Nat : n \in T => n + 1 \in T
    PROVE  Nat \subseteq T
<1> SUFFICES ASSUME Nat \ T # {} PROVE FALSE
  OBVIOUS
<1>1. PICK x \in Nat \ T : \A y \in Nat \ T : x <= y
  BY LeastNatural
<1>2. x # 0 /\ x - 1 \in Nat
  BY <1>1
<1>3. x - 1 \in T
  BY <1>1, <1>2
<1> QED
  BY <1>2, <1>3

\* The same up to a bound.
LEMMA IntervalInduction ==
    ASSUME NEW N \in Nat, NEW T, 0 \in T,
           \A n \in 1 .. N : n - 1 \in T => n \in T
    PROVE  0 .. N \subseteq T
<1> DEFINE U == T \cup {n \in Nat : n > N}
<1>1. 0 \in U
  OBVIOUS
<1>2. ASSUME NEW n \in Nat, n \in U PROVE n + 1 \in U
  <2>1. CASE n + 1 <= N
    <3>1. n + 1 \in 1 .. N /\ (n + 1) - 1 = n /\ n \in T
      BY <1>2, <2>1
    <3> QED BY <3>1
  <2>2. CASE ~(n + 1 <= N)
    BY <2>2
  <2> QED BY <2>1, <2>2
<1>3. Nat \subseteq U
  <2> HIDE DEF U
  <2> QED BY <1>1, <1>2, SetInduction
<1> QED
  BY <1>3

\* A value that is stepped once for each index passes through a sequence of
\* values, one for each number of steps taken.
LEMMA IterationExists ==
    ASSUME NEW V, NEW first \in V, NEW N \in Nat, NEW step \in [1 .. N -> [V -> V]]
    PROVE  \E g \in [0 .. N -> V] :
               /\ g[0] = first
               /\ \A n \in 1 .. N : g[n] = step[n][g[n - 1]]
<1> DEFINE Upto(g, m) ==
             /\ g[0] = first
             /\ \A n \in 1 .. m : g[n] = step[n][g[n - 1]]
<1> DEFINE T == {m \in 0 .. N : \E g \in [0 .. N -> V] : Upto(g, m)}
<1>1. 0 \in T
  <2>1. PICK g : g = [n \in 0 .. N |-> first]
    OBVIOUS
  <2>2. g \in [0 .. N -> V] /\ g[0] = first
    BY <2>1
  <2>3. 1 .. 0 = {}
    OBVIOUS
  <2> QED BY <2>2, <2>3
<1>2. ASSUME NEW m \in 1 .. N, m - 1 \in T PROVE m \in T
  <2>1. PICK g \in [0 .. N -> V] : Upto(g, m - 1)
    BY <1>2
  <2>2. m - 1 \in 0 .. N /\ m \in 0 .. N
    OBVIOUS
  <2>3. g[m - 1] \in V
    BY <2>2
  <2>4. step[m][g[m - 1]] \in V
    BY <2>3
  <2>5. PICK h : h = [g EXCEPT ![m] = step[m][g[m - 1]]]
    OBVIOUS
  <2>6. h \in [0 .. N -> V]
    BY <2>2, <2>4, <2>5
  <2>7. h[0] = first
    BY <2>1, <2>5
  <2>8. ASSUME NEW n \in 1 .. m PROVE h[n] = step[n][h[n - 1]]
    <3>1. n \in 0 .. N /\ n - 1 \in 0 .. N /\ n - 1 # m
      OBVIOUS
    <3>2. h[n - 1] = g[n - 1]
      BY <2>5, <3>1
    <3>3. CASE n = m
      BY <2>2, <2>5, <3>2, <3>3
    <3>4. CASE n # m
      <4>1. n \in 1 .. (m - 1)
        BY <3>4
      <4>2. g[n] = step[n][g[n - 1]]
        BY <2>1, <4>1
      <4>3. h[n] = g[n]
        BY <2>5, <3>1, <3>4
      <4> QED BY <3>2, <4>2, <4>3
    <3> QED BY <3>3, <3>4
  <2> QED BY <2>2, <2>6, <2>7, <2>8
<1>3. N \in T
  <2>1. 0 .. N \subseteq T
    <3> HIDE DEF T
    <3> QED BY <1>1, <1>2, IntervalInduction
  <2> QED BY <2>1
<1> QED
  BY <1>3
=============================================================================
