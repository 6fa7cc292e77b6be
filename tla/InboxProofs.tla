---------------------------- MODULE InboxProofs ----------------------------
(***************************************************************************)
(* What holds of saved searches, alerts, read receipts, the badge and the   *)
(* heart for any users, filters, listings, texts and caps, and any number of *)
(* requests in flight, of answers and of fan-outs lost.                     *)
(***************************************************************************)
EXTENDS Inbox, Induction, FiniteSetTheorems, SequenceTheorems, TLAPS

----------------------------------------------------------------------------
(* Texts. *)

Text == Seq(Letters)

\* A text is folded letter by letter, what the letters become put together.
LEMMA FoldedUpTo ==
    ASSUME NEW text \in Text
    PROVE  \E g \in [0 .. Len(text) -> Text] :
               /\ g[0] = <<>>
               /\ \A n \in 1 .. Len(text) : g[n] = g[n - 1] \o Casefold[text[n]]
               /\ Casefolded(text) = g[Len(text)]
<1> DEFINE N == Len(text)
           step == [n \in 1 .. N |-> [v \in Text |-> v \o Casefold[text[n]]]]
           s == [i \in DOMAIN text |-> Casefold[text[i]]]
<1>1. N \in Nat /\ DOMAIN text = 1 .. N
  BY LenProperties DEF Text
<1>2. \A n \in 1 .. N : Casefold[text[n]] \in Text
  <2>1. \A n \in 1 .. N : text[n] \in Letters
    BY ElementOfSeq DEF Text
  <2> QED BY <2>1, LettersAssumption DEF Text
<1>3. step \in [1 .. N -> [Text -> Text]] /\ <<>> \in Text
  <2>1. \A n \in 1 .. N, v \in Text : v \o Casefold[text[n]] \in Text
    BY <1>2, ConcatProperties DEF Text
  <2> QED BY <2>1, EmptySeq DEF Text
<1>4. PICK g \in [0 .. N -> Text] : g[0] = <<>> /\ \A n \in 1 .. N : g[n] = step[n][g[n - 1]]
  <2>1. PICK first : first = <<>>
    OBVIOUS
  <2>2. PICK V : V = Text
    OBVIOUS
  <2>3. first \in V /\ N \in Nat /\ step \in [1 .. N -> [V -> V]]
    BY <1>1, <1>3, <2>1, <2>2
  <2>4. \E g \in [0 .. N -> V] : g[0] = first /\ \A n \in 1 .. N : g[n] = step[n][g[n - 1]]
    <3> HIDE DEF step, N
    <3> QED BY ONLY <2>3, IterationExists
  <2> QED BY <2>1, <2>2, <2>4
<1>5. \A n \in 1 .. N : g[n] = g[n - 1] \o Casefold[text[n]]
  <2>1. ASSUME NEW n \in 1 .. N PROVE g[n] = g[n - 1] \o Casefold[text[n]]
    <3>1. n - 1 \in 0 .. N
      BY <1>1
    <3> QED BY <1>4, <3>1
  <2> QED BY <2>1
<1>6. DOMAIN s = 1 .. N /\ \A n \in 1 .. N : s[n] = Casefold[text[n]]
  BY <1>1
<1>7. Len(s) = N
  <2>1. s \in Seq(Text)
    BY <1>1, <1>2, <1>6, SeqDef
  <2> HIDE DEF s, N
  <2> QED BY <1>1, <1>6, <2>1, LenProperties
<1>8. CASE N = 0
  <2>1. s = <<>>
    BY <1>1, <1>6, <1>8
  <2>2. Casefolded(text) = s
    BY <1>7, <1>8 DEF Casefolded, Seqs!FlattenSeq
  <2> QED BY <1>4, <1>5, <1>8, <2>1, <2>2
<1>9. CASE N # 0
  <2> DEFINE whole == CHOOSE f : f = [i \in 1 .. Len(s) |-> IF i = 1 THEN s[i] ELSE f[i - 1] \o s[i]]
             h == [i \in 1 .. N |-> g[i]]
  <2>1. h = [i \in 1 .. Len(s) |-> IF i = 1 THEN s[i] ELSE h[i - 1] \o s[i]]
    <3>1. ASSUME NEW i \in 1 .. N PROVE h[i] = IF i = 1 THEN s[i] ELSE h[i - 1] \o s[i]
      <4>1. CASE i = 1
        <5>0. 1 \in 1 .. N /\ 1 - 1 = 0
          BY <4>1
        <5>1. g[1] = <<>> \o Casefold[text[1]] /\ Casefold[text[1]] \in Text
          <6> HIDE DEF N
          <6> QED BY <1>2, <1>4, <1>5, <5>0
        <5>2. g[1] = Casefold[text[1]]
          BY <5>1, ConcatEmptySeq DEF Text
        <5> QED BY <1>6, <4>1, <5>2
      <4>2. CASE i # 1
        <5>1. i - 1 \in 1 .. N
          BY <1>1, <4>2
        <5> QED BY <1>5, <1>6, <4>2, <5>1
      <4> QED BY <4>1, <4>2
    <3>2. h = [i \in 1 .. N |-> h[i]]
      OBVIOUS
    <3> HIDE DEF h, s, N
    <3> QED BY <1>7, <3>1, <3>2
  <2>2. whole = [i \in 1 .. Len(s) |-> IF i = 1 THEN s[i] ELSE whole[i - 1] \o s[i]]
    <3> HIDE DEF h, s
    <3> QED BY <2>1
  <2>3. Casefolded(text) = whole[N]
    BY <1>7, <1>9 DEF Casefolded, Seqs!FlattenSeq
  <2>4. 0 .. N \subseteq {n \in 0 .. N : n = 0 \/ whole[n] = g[n]}
    <3> DEFINE T == {n \in 0 .. N : n = 0 \/ whole[n] = g[n]}
    <3> HIDE DEF whole, N, s
    <3>1. 0 \in T
      BY <1>1
    <3>2. ASSUME NEW n \in 1 .. N, n - 1 \in T PROVE n \in T
      <4>1. whole[n] = IF n = 1 THEN s[n] ELSE whole[n - 1] \o s[n]
        BY <1>7, <2>2
      <4>2. CASE n = 1
        <5>0. 1 \in 1 .. N /\ 1 - 1 = 0
          BY <4>2
        <5>1. g[1] = <<>> \o Casefold[text[1]] /\ Casefold[text[1]] \in Text
          BY <1>2, <1>4, <1>5, <5>0
        <5>2. g[1] = Casefold[text[1]]
          BY <5>1, ConcatEmptySeq DEF Text
        <5>3. n \in 0 .. N
          BY <1>1
        <5> QED BY <1>6, <4>1, <4>2, <5>2, <5>3
      <4>3. CASE n # 1
        <5>1. n - 1 # 0 /\ n \in 0 .. N
          BY <1>1, <4>3
        <5>2. whole[n - 1] = g[n - 1]
          BY <3>2, <5>1
        <5> QED BY <1>5, <1>6, <4>1, <4>3, <5>1, <5>2
      <4> QED BY <4>2, <4>3
    <3> HIDE DEF T
    <3>3. 0 .. N \subseteq T
      BY <1>1, <3>1, <3>2, IntervalInduction
    <3> QED BY <3>3 DEF T
  <2>5. whole[N] = g[N]
    <3> HIDE DEF whole, N
    <3>1. N \in 0 .. N
      BY <1>1
    <3> QED BY <1>9, <2>4, <3>1
  <2> QED BY <1>4, <1>5, <2>3, <2>5
<1> QED BY <1>8, <1>9

\* The empty text folds to nothing; a letter more adds what it becomes.
LEMMA FoldedAppend ==
    /\ Casefolded(<<>>) = <<>>
    /\ \A text \in Text, c \in Letters :
         /\ Casefolded(text) \in Text
         /\ Casefolded(Append(text, c)) = Casefolded(text) \o Casefold[c]
<1>1. Casefolded(<<>>) = <<>>
  <2>1. <<>> \in Text /\ Len(<<>>) = 0
    BY EmptySeq DEF Text
  <2> QED BY <2>1, FoldedUpTo
<1>2. ASSUME NEW text \in Text, NEW c \in Letters
      PROVE  /\ Casefolded(text) \in Text
             /\ Casefolded(Append(text, c)) = Casefolded(text) \o Casefold[c]
  <2> DEFINE more == Append(text, c)
             N == Len(text)
  <2>1. /\ more \in Text /\ Len(more) = N + 1 /\ N \in Nat
        /\ more[N + 1] = c /\ \A n \in 1 .. N : more[n] = text[n]
    BY AppendProperties, LenProperties DEF Text
  <2>2. PICK g \in [0 .. N -> Text] :
               /\ g[0] = <<>>
               /\ \A n \in 1 .. N : g[n] = g[n - 1] \o Casefold[text[n]]
               /\ Casefolded(text) = g[N]
    BY FoldedUpTo
  <2>3. PICK h \in [0 .. N + 1 -> Text] :
               /\ h[0] = <<>>
               /\ \A n \in 1 .. N + 1 : h[n] = h[n - 1] \o Casefold[more[n]]
               /\ Casefolded(more) = h[N + 1]
    <3> HIDE DEF more
    <3> QED BY <2>1, FoldedUpTo
  <2>4. 0 .. N \subseteq {n \in 0 .. N : h[n] = g[n]}
    <3> DEFINE T == {n \in 0 .. N : h[n] = g[n]}
    <3> HIDE DEF more, N
    <3>1. 0 \in T
      BY <2>1, <2>2, <2>3
    <3>2. ASSUME NEW n \in 1 .. N, n - 1 \in T PROVE n \in T
      <4>1. n \in 1 .. N + 1 /\ n \in 0 .. N
        BY <2>1
      <4>2. h[n - 1] = g[n - 1] /\ more[n] = text[n]
        BY <2>1, <3>2
      <4> QED BY <2>2, <2>3, <4>1, <4>2
    <3> HIDE DEF T
    <3>3. 0 .. N \subseteq T
      BY <2>1, <3>1, <3>2, IntervalInduction
    <3> QED BY <3>3 DEF T
  <2> HIDE DEF more, N
  <2>5. N \in 0 .. N /\ N + 1 \in 1 .. N + 1 /\ (N + 1) - 1 = N
    BY <2>1
  <2>6. h[N + 1] = h[N] \o Casefold[c]
    BY <2>1, <2>3, <2>5
  <2>7. h[N] = g[N] /\ g[N] \in Text
    BY <2>2, <2>4, <2>5
  <2> QED BY <2>2, <2>3, <2>6, <2>7 DEF more
<1> QED BY <1>1, <1>2

\* What holds of the empty text, and of a text and a letter whenever it holds of
\* the text, holds of every text: induction over a set of texts.
LEMMA TextInduction ==
    ASSUME NEW T, <<>> \in T, \A text \in Text, c \in Letters : text \in T => Append(text, c) \in T
    PROVE  Text \subseteq T
<1> DEFINE U == {n \in Nat : \A text \in Text : Len(text) = n => text \in T}
<1>1. 0 \in U
  BY EmptySeq DEF Text
<1>2. ASSUME NEW n \in Nat, n \in U PROVE n + 1 \in U
  <2>1. ASSUME NEW text \in Text, Len(text) = n + 1 PROVE text \in T
    <3>1. text # <<>>
      BY <1>2, <2>1, EmptySeq
    <3>2. PICK front \in Text, c \in Letters : text = Append(front, c)
      BY <3>1, SequenceEmptyOrAppend DEF Text
    <3>3. Len(front) \in Nat /\ Len(text) = Len(front) + 1
      BY <3>2, AppendProperties, LenProperties DEF Text
    <3>4. Len(front) = n
      BY <1>2, <2>1, <3>3
    <3> QED BY <1>2, <3>2, <3>4
  <2> QED BY <2>1
<1>3. Nat \subseteq U
  <2> HIDE DEF U
  <2> QED BY <1>1, <1>2, SetInduction
<1> QED BY <1>3, LenProperties DEF Text

\* Texts fold apart as they fold together.
LEMMA FoldedConcat ==
    ASSUME NEW a \in Text, NEW b \in Text
    PROVE  /\ Casefolded(a) \in Text
           /\ Casefolded(a \o b) = Casefolded(a) \o Casefolded(b)
<1> DEFINE T == {t \in Text : Casefolded(a \o t) = Casefolded(a) \o Casefolded(t)}
<1>1. \A t \in Text : Casefolded(t) \in Text
  BY LettersAssumption, FoldedAppend
<1>2. <<>> \in T
  <2>1. <<>> \in Text /\ a \o <<>> = a /\ Casefolded(a) \o <<>> = Casefolded(a)
    BY <1>1, EmptySeq, ConcatEmptySeq DEF Text
  <2> QED BY <2>1, FoldedAppend
<1>3. ASSUME NEW t \in Text, NEW c \in Letters, t \in T PROVE Append(t, c) \in T
  <2>1. Append(t, c) \in Text /\ a \o t \in Text /\ <<c>> \in Text /\ Casefold[c] \in Text
    <3>1. Casefold[c] \in Text /\ a \o t \in Text /\ Append(t, c) \in Text
      BY LettersAssumption, AppendProperties, ConcatProperties DEF Text
    <3>2. <<>> \in Text /\ Append(<<>>, c) = <<c>>
      BY EmptySeq DEF Text
    <3> QED BY <3>1, <3>2, AppendProperties DEF Text
  <2>2. a \o Append(t, c) = Append(a \o t, c)
    <3>1. a \o (t \o <<c>>) = (a \o t) \o <<c>>
      BY <2>1, ConcatAssociative DEF Text
    <3>2. Append(t, c) = t \o <<c>> /\ Append(a \o t, c) = (a \o t) \o <<c>>
      BY <2>1, AppendIsConcat DEF Text
    <3> QED BY <3>1, <3>2
  <2>3. Casefolded(Append(a \o t, c)) = Casefolded(a \o t) \o Casefold[c]
    BY <2>1, FoldedAppend
  <2>4. (Casefolded(a) \o Casefolded(t)) \o Casefold[c] = Casefolded(a) \o (Casefolded(t) \o Casefold[c])
    <3>1. Casefolded(a) \in Text /\ Casefolded(t) \in Text
      BY <1>1
    <3>2. PICK x, y, z : x = Casefolded(a) /\ y = Casefolded(t) /\ z = Casefold[c]
      OBVIOUS
    <3>3. x \in Text /\ y \in Text /\ z \in Text
      BY <2>1, <3>1, <3>2
    <3>4. (x \o y) \o z = x \o (y \o z)
      BY <3>3, ConcatAssociative DEF Text
    <3> QED BY <3>2, <3>4
  <2>5. Casefolded(Append(t, c)) = Casefolded(t) \o Casefold[c]
    BY FoldedAppend
  <2> QED BY <1>3, <2>1, <2>2, <2>3, <2>4, <2>5
<1>4. Text \subseteq T
  <2> HIDE DEF T
  <2> QED BY <1>2, <1>3, TextInduction
<1> QED BY <1>1, <1>4

LEMMA LoweredIs ==
    ASSUME NEW text \in Text
    PROVE  /\ Lowered(text) \in Text
           /\ Len(Lowered(text)) = Len(text)
           /\ \A i \in 1 .. Len(text) : Lowered(text)[i] = SqlLower[text[i]]
<1>1. DOMAIN text = 1 .. Len(text) /\ Len(text) \in Nat
  BY LenProperties DEF Text
<1>2. \A i \in 1 .. Len(text) : SqlLower[text[i]] \in Letters
  BY LettersAssumption, ElementOfSeq DEF Text
<1>3. Lowered(text) \in [1 .. Len(text) -> Letters]
  BY <1>1, <1>2 DEF Lowered
<1>4. Lowered(text) \in Text
  BY <1>1, <1>3, SeqDef DEF Text
<1>5. Len(Lowered(text)) = Len(text)
  <2>1. DOMAIN Lowered(text) = 1 .. Len(text)
    BY <1>3
  <2>2. DOMAIN Lowered(text) = 1 .. Len(Lowered(text)) /\ Len(Lowered(text)) \in Nat
    BY <1>4, LenProperties DEF Text
  <2> QED BY <1>1, <2>1, <2>2
<1> QED BY <1>1, <1>4, <1>5 DEF Lowered

\* What SQLite lowers, casefold folds to the same.
LEMMA LoweredFoldsAlike ==
    ASSUME NEW text \in Text
    PROVE  Casefolded(Lowered(text)) = Casefolded(text)
<1>1. \A i \in DOMAIN text : text[i] \in Letters
  BY LenProperties, ElementOfSeq DEF Text
<1>2. DOMAIN Lowered(text) = DOMAIN text
  BY DEF Lowered
<1>3. \A i \in DOMAIN text : Casefold[Lowered(text)[i]] = Casefold[text[i]]
  BY <1>1, LettersAssumption DEF Lowered
<1>4. [i \in DOMAIN Lowered(text) |-> Casefold[Lowered(text)[i]]]
      = [i \in DOMAIN text |-> Casefold[text[i]]]
  BY <1>2, <1>3
<1> QED BY <1>4 DEF Casefolded

\* A text holds a term when it is the term with something before and behind.
LEMMA HoldsIs ==
    ASSUME NEW text \in Text, NEW term \in Text
    PROVE  Holds(text, term) <=> \E a \in Text, b \in Text : text = (a \o term) \o b
<1> DEFINE N == Len(text)
           m == Len(term)
<1>1. N \in Nat /\ m \in Nat
  BY LenProperties DEF Text
<1>2. ASSUME Holds(text, term)
      PROVE  \E a \in Text, b \in Text : text = (a \o term) \o b
  <2>1. PICK i \in 0 .. N - m : \A j \in 1 .. m : text[i + j] = term[j]
    BY <1>2 DEF Holds
  <2>2. i \in Nat /\ i + m <= N
    BY <1>1, <2>1
  <2> DEFINE a == SubSeq(text, 1, i)
             b == SubSeq(text, i + m + 1, N)
  <2>3. /\ a \in Text /\ Len(a) = i
        /\ \A k \in 1 .. i : a[k] = text[k]
    <3>1. \A k \in 1 .. i : text[k] \in Letters
      <4>1. 1 .. i \subseteq 1 .. N
        BY <1>1, <2>2
      <4> QED BY <4>1, ElementOfSeq DEF Text
    <3>2. /\ a \in Seq(Letters) /\ Len(a) = IF 1 <= i THEN i - 1 + 1 ELSE 0
          /\ \A k \in 1 .. i - 1 + 1 : a[k] = text[1 + k - 1]
      BY <2>2, <3>1, SubSeqProperties
    <3> HIDE DEF a
    <3>3. i - 1 + 1 = i /\ (1 <= i => i - 1 + 1 = i) /\ (~(1 <= i) => i = 0)
      BY <2>2
    <3>4. ASSUME NEW k \in 1 .. i PROVE a[k] = text[k]
      <4>1. 1 + k - 1 = k
        BY <2>2
      <4>2. a[k] = text[1 + k - 1]
        BY <3>2, <3>3
      <4> QED BY <4>1, <4>2
    <3>5. Len(a) = i
      BY <3>2, <3>3
    <3> QED BY <3>2, <3>4, <3>5 DEF Text
  <2>4. /\ b \in Text /\ Len(b) = N - (i + m)
        /\ \A k \in 1 .. N - (i + m) : b[k] = text[i + m + k]
    <3>1. \A k \in i + m + 1 .. N : text[k] \in Letters
      <4>1. i + m + 1 .. N \subseteq 1 .. N
        BY <1>1, <2>2
      <4> QED BY <4>1, ElementOfSeq DEF Text
    <3>2. i + m + 1 \in Int /\ N \in Int
      BY <1>1, <2>2
    <3>3. /\ b \in Seq(Letters)
          /\ Len(b) = IF i + m + 1 <= N THEN N - (i + m + 1) + 1 ELSE 0
          /\ \A k \in 1 .. N - (i + m + 1) + 1 : b[k] = text[i + m + 1 + k - 1]
      BY <3>1, <3>2, SubSeqProperties
    <3> HIDE DEF b, N, m
    <3>4. N - (i + m + 1) + 1 = N - (i + m)
      BY <1>1, <2>2
    <3>5. \A k \in 1 .. N - (i + m) : i + m + 1 + k - 1 = i + m + k
      BY <1>1, <2>2
    <3>6. Len(b) = N - (i + m)
      BY <1>1, <2>2, <3>3
    <3> QED BY <3>3, <3>4, <3>5, <3>6 DEF Text
  <2> HIDE DEF a, b
  <2>5. /\ a \o term \in Text /\ Len(a \o term) = i + m
        /\ \A k \in 1 .. i + m : (a \o term)[k] = IF k <= i THEN a[k] ELSE term[k - i]
    BY <2>3, ConcatProperties DEF Text
  <2>6. /\ (a \o term) \o b \in Text /\ Len((a \o term) \o b) = (i + m) + (N - (i + m))
        /\ \A k \in 1 .. (i + m) + (N - (i + m)) :
             ((a \o term) \o b)[k] = IF k <= i + m THEN (a \o term)[k] ELSE b[k - (i + m)]
    <3>1. PICK x : x = a \o term
      OBVIOUS
    <3>2. x \in Text /\ Len(x) = i + m
      BY <2>5, <3>1
    <3> HIDE DEF N, m
    <3>3. /\ x \o b \in Text /\ Len(x \o b) = Len(x) + Len(b)
          /\ \A k \in 1 .. Len(x) + Len(b) :
               (x \o b)[k] = IF k <= Len(x) THEN x[k] ELSE b[k - Len(x)]
      <4>1. x \in Seq(Letters) /\ b \in Seq(Letters)
        BY <2>4, <3>2 DEF Text
      <4> QED BY <4>1, ConcatProperties DEF Text
    <3> QED BY <2>4, <3>1, <3>2, <3>3
  <2>7. (i + m) + (N - (i + m)) = N
    BY <1>1, <2>2
  <2>8. ASSUME NEW k \in 1 .. N PROVE text[k] = ((a \o term) \o b)[k]
    <3>1. CASE k <= i
      <4>1. k \in 1 .. i /\ k \in 1 .. i + m /\ k <= i + m
        BY <1>1, <2>2, <3>1
      <4>2. (a \o term)[k] = a[k] /\ a[k] = text[k]
        BY <2>3, <2>5, <3>1, <4>1
      <4> QED BY <2>6, <2>7, <4>1, <4>2
    <3>2. CASE k > i /\ k <= i + m
      <4>1. k \in 1 .. i + m /\ k - i \in 1 .. m /\ i + (k - i) = k /\ ~(k <= i)
        BY <1>1, <2>2, <3>2
      <4>2. (a \o term)[k] = term[k - i] /\ term[k - i] = text[k]
        BY <2>1, <2>5, <4>1
      <4> QED BY <2>6, <2>7, <3>2, <4>2
    <3>3. CASE k > i + m
      <4>1. k - (i + m) \in 1 .. N - (i + m) /\ i + m + (k - (i + m)) = k /\ ~(k <= i + m)
        BY <1>1, <2>2, <3>3
      <4>2. b[k - (i + m)] = text[k]
        BY <2>4, <4>1
      <4> QED BY <2>6, <2>7, <4>1, <4>2
    <3>4. k <= i \/ (k > i /\ k <= i + m) \/ k > i + m
      <4> HIDE DEF N, m
      <4> QED BY <1>1, <2>2
    <3> QED BY <3>1, <3>2, <3>3, <3>4
  <2>9. text = (a \o term) \o b
    <3>1. Len(text) = Len((a \o term) \o b)
      BY <2>6, <2>7
    <3> QED BY <2>6, <2>8, <3>1, SeqEqual DEF Text
  <2> QED BY <2>3, <2>4, <2>9
<1>3. ASSUME NEW a \in Text, NEW b \in Text, text = (a \o term) \o b
      PROVE  Holds(text, term)
  <2>1. /\ Len(a) \in Nat /\ Len(b) \in Nat
    BY LenProperties DEF Text
  <2>2. /\ a \o term \in Text /\ Len(a \o term) = Len(a) + m
        /\ \A k \in 1 .. Len(a) + m :
             (a \o term)[k] = IF k <= Len(a) THEN a[k] ELSE term[k - Len(a)]
    BY ConcatProperties DEF Text
  <2>3. /\ N = (Len(a) + m) + Len(b)
        /\ \A k \in 1 .. (Len(a) + m) + Len(b) :
             text[k] = IF k <= Len(a) + m THEN (a \o term)[k] ELSE b[k - (Len(a) + m)]
    BY <1>3, <2>2, ConcatProperties DEF Text
  <2>4. ASSUME NEW j \in 1 .. m PROVE text[Len(a) + j] = term[j]
    <3>1. /\ Len(a) + j \in 1 .. (Len(a) + m) + Len(b) /\ Len(a) + j <= Len(a) + m
          /\ Len(a) + j \in 1 .. Len(a) + m /\ ~(Len(a) + j <= Len(a))
          /\ (Len(a) + j) - Len(a) = j
      BY <1>1, <2>1
    <3>2. text[Len(a) + j] = (a \o term)[Len(a) + j]
      BY <2>3, <3>1
    <3>3. (a \o term)[Len(a) + j] = term[(Len(a) + j) - Len(a)]
      BY <2>2, <3>1
    <3> QED BY <3>1, <3>2, <3>3
  <2>5. Len(a) \in 0 .. N - m
    BY <1>1, <2>1, <2>3
  <2> QED BY <2>4, <2>5 DEF Holds
<1> QED BY <1>2, <1>3

----------------------------------------------------------------------------
(* The matcher and the search.  saved_search_matching.py says that it mirrors *)
(* the conditions of browse, so that an alert leads to a search that finds  *)
(* the listing.                                                             *)

\* A limit is on the same side in Python and in SQL.
LEMMA LimitsAgree ==
    ASSUME NEW l \in Fact, NEW f \in Filter
    PROVE  /\ \A low \in f.min_price : (l.asking_price < low) <=> ~(l.asking_price >= low)
           /\ \A high \in f.max_price : (l.asking_price > high) <=> ~(l.asking_price <= high)
           /\ \A low \in f.min_profit : (l.ttm_profit < low) <=> ~(l.ttm_profit >= low)
<1>1. /\ l.asking_price \in Nat
      /\ l.ttm_profit \in Int
  BY DEF Fact
<1>2. /\ f.min_price \subseteq Nat
      /\ f.max_price \subseteq Nat
      /\ f.min_profit \subseteq Int
  BY DEF Filter
<1>3. \A low \in f.min_price : (l.asking_price < low) <=> ~(l.asking_price >= low)
  BY <1>1, <1>2, SMT
<1>4. \A high \in f.max_price : (l.asking_price > high) <=> ~(l.asking_price <= high)
  BY <1>1, <1>2, SMT
<1>5. \A low \in f.min_profit : (l.ttm_profit < low) <=> ~(l.ttm_profit >= low)
  BY <1>1, <1>2, SMT
<1> QED
  BY <1>3, <1>4, <1>5

\* Both test the other filters alike.
LEMMA TermsDecide ==
    ASSUME NEW l \in Fact, NEW f \in Filter
    PROVE  /\ (\A term \in f.q : (ILike(l.headline, term) \/ ILike(l.description, term))
                                 => Holds(Casefolded(Haystack(l)), Casefolded(term)))
              => (Found(l, f) => Matches(l, f))
           /\ (\A term \in f.q : Holds(Casefolded(Haystack(l)), Casefolded(term))
                                 => (ILike(l.headline, term) \/ ILike(l.description, term)))
              => (Matches(l, f) => Found(l, f))
<1>1. (\E low \in f.min_price : l.asking_price < low)
      <=> ~(\A low \in f.min_price : l.asking_price >= low)
  BY LimitsAgree
<1>2. (\E high \in f.max_price : l.asking_price > high)
      <=> ~(\A high \in f.max_price : l.asking_price <= high)
  BY LimitsAgree
<1>3. (\E low \in f.min_profit : l.ttm_profit < low)
      <=> ~(\A low \in f.min_profit : l.ttm_profit >= low)
  BY LimitsAgree
<1>4. (\E type \in f.type : l.type # type) <=> ~(\A type \in f.type : l.type = type)
  OBVIOUS
<1> QED
  BY <1>1, <1>2, <1>3, <1>4 DEF Matches, Found

LEMMA TextsOf ==
    ASSUME NEW l \in Fact, NEW f \in Filter
    PROVE  /\ l.headline \in Text /\ l.description \in Text
           /\ <<Newline>> \in Text
           /\ f.q \subseteq Text
           /\ Casefolded(<<Newline>>) = <<Newline>>
           /\ Casefolded(Haystack(l))
              = (Casefolded(l.headline) \o <<Newline>>) \o Casefolded(l.description)
<1>1. l.headline \in Text /\ l.description \in Text /\ f.q \subseteq Text
  BY DEF Fact, Filter, Text
<1>2. <<Newline>> \in Text /\ Casefolded(<<Newline>>) = <<Newline>>
  <2>1. <<>> \in Text /\ Append(<<>>, Newline) = <<Newline>> /\ Newline \in Letters
    BY EmptySeq, LettersAssumption DEF Text
  <2>2. <<Newline>> \in Text
    BY <2>1, AppendProperties DEF Text
  <2>3. Casefolded(<<Newline>>) = <<>> \o <<Newline>>
    BY <2>1, FoldedAppend, LettersAssumption
  <2> QED BY <2>2, <2>3, ConcatEmptySeq DEF Text
<1>3. Casefolded(Haystack(l)) = (Casefolded(l.headline) \o <<Newline>>) \o Casefolded(l.description)
  <2>1. PICK h, n, d : h = l.headline /\ n = <<Newline>> /\ d = l.description
    OBVIOUS
  <2>2. h \in Text /\ n \in Text /\ d \in Text /\ h \o n \in Text
    BY <1>1, <1>2, <2>1, ConcatProperties DEF Text
  <2>3. Casefolded((h \o n) \o d) = Casefolded(h \o n) \o Casefolded(d)
    BY <2>2, FoldedConcat
  <2>4. Casefolded(h \o n) = Casefolded(h) \o Casefolded(n)
    BY <2>2, FoldedConcat
  <2>5. Haystack(l) = (h \o n) \o d
    <3>1. (h \o n) \o d = h \o (n \o d)
      BY <2>2, ConcatAssociative DEF Text
    <3> QED BY <2>1, <3>1 DEF Haystack
  <2> QED BY <1>2, <2>1, <2>3, <2>4, <2>5
<1> QED BY <1>1, <1>2, <1>3

LEMMA TextsJoin ==
    ASSUME NEW a \in Text, NEW b \in Text
    PROVE  a \o b \in Text
BY ConcatProperties DEF Text

LEMMA TextsRegroup ==
    ASSUME NEW a \in Text, NEW b \in Text, NEW c \in Text
    PROVE  (a \o b) \o c = a \o (b \o c)
BY ConcatAssociative DEF Text

\* A column SQLite finds a term in holds it when both are casefolded.
LEMMA LikeIsHeld ==
    ASSUME NEW column \in Text, NEW term \in Text, ILike(column, term)
    PROVE  Holds(Casefolded(column), Casefolded(term))
<1>1. Lowered(column) \in Text /\ Lowered(term) \in Text
  BY LoweredIs
<1>2. PICK a \in Text, b \in Text : Lowered(column) = (a \o Lowered(term)) \o b
  BY <1>1, HoldsIs DEF ILike
<1>3. PICK low : low = Lowered(term)
  OBVIOUS
<1>4. low \in Text /\ a \o low \in Text
  BY <1>1, <1>3, ConcatProperties DEF Text
<1>5. Casefolded((a \o low) \o b) = Casefolded(a \o low) \o Casefolded(b)
  BY <1>4, FoldedConcat
<1>6. Casefolded(a \o low) = Casefolded(a) \o Casefolded(low)
  BY <1>4, FoldedConcat
<1>7. Casefolded(low) = Casefolded(term) /\ Casefolded(Lowered(column)) = Casefolded(column)
  BY <1>3, LoweredFoldsAlike
<1>8. Casefolded(column) = (Casefolded(a) \o Casefolded(term)) \o Casefolded(b)
  BY <1>2, <1>3, <1>5, <1>6, <1>7
<1>9. /\ Casefolded(a) \in Text /\ Casefolded(b) \in Text
      /\ Casefolded(term) \in Text /\ Casefolded(column) \in Text
  BY FoldedConcat
<1> QED BY <1>8, <1>9, HoldsIs

\* What a text holds, it holds with more in front or behind.
LEMMA HeldInMore ==
    ASSUME NEW text \in Text, NEW term \in Text, NEW more \in Text, Holds(text, term)
    PROVE  Holds(text \o more, term) /\ Holds(more \o text, term)
<1>1. PICK a \in Text, b \in Text : text = (a \o term) \o b
  BY HoldsIs
<1>2. a \o term \in Text
  BY TextsJoin
<1>3. text \o more = (a \o term) \o (b \o more) /\ b \o more \in Text
  <2>1. PICK x : x = a \o term
    OBVIOUS
  <2>2. (x \o b) \o more = x \o (b \o more)
    BY <1>2, <2>1, TextsRegroup
  <2> QED BY <1>1, <2>1, <2>2, TextsJoin
<1>4. more \o text = ((more \o a) \o term) \o b /\ more \o a \in Text
  <2>1. PICK x : x = a \o term
    OBVIOUS
  <2>2. (more \o x) \o b = more \o (x \o b)
    BY <1>2, <2>1, TextsRegroup
  <2>3. (more \o a) \o term = more \o (a \o term)
    BY TextsRegroup
  <2> QED BY <1>1, <2>1, <2>2, <2>3, TextsJoin
<1>5. text \o more \in Text /\ more \o text \in Text
  BY TextsJoin
<1> QED BY <1>3, <1>4, <1>5, HoldsIs

\* Every live listing a search finds (listings.py:140-184), a saved search with
\* the same filters matches (saved_search_matching.py:29-62), whatever letters its
\* term is made of: the two disagree only by an alert whose search finds nothing.
THEOREM FoundIsMatched ==
    \A l \in Fact, f \in Filter : Found(l, f) => Matches(l, f)
<1> SUFFICES ASSUME NEW l \in Fact, NEW f \in Filter
             PROVE  Found(l, f) => Matches(l, f)
  OBVIOUS
<1>1. ASSUME NEW term \in f.q, ILike(l.headline, term) \/ ILike(l.description, term)
      PROVE  Holds(Casefolded(Haystack(l)), Casefolded(term))
  <2>1. PICK h, d, n, t : /\ h = Casefolded(l.headline) /\ d = Casefolded(l.description)
                          /\ n = <<Newline>> /\ t = Casefolded(term)
    OBVIOUS
  <2>2. term \in Text /\ l.headline \in Text /\ l.description \in Text
    BY TextsOf
  <2>3. h \in Text /\ d \in Text /\ n \in Text /\ t \in Text /\ h \o n \in Text /\ n \o d \in Text
    <3>1. h \in Text /\ d \in Text /\ n \in Text /\ t \in Text
      BY <2>1, <2>2, TextsOf, FoldedConcat
    <3> QED BY <3>1, TextsJoin
  <2>4. Casefolded(Haystack(l)) = (h \o n) \o d
    BY <2>1, TextsOf
  <2>5. CASE ILike(l.headline, term)
    <3>1. Holds(h, t)
      BY <2>1, <2>2, <2>5, LikeIsHeld
    <3>2. Holds(h \o n, t)
      BY <2>3, <3>1, HeldInMore
    <3> QED BY <2>1, <2>3, <2>4, <3>2, HeldInMore
  <2>6. CASE ILike(l.description, term)
    <3>1. Holds(d, t)
      BY <2>1, <2>2, <2>6, LikeIsHeld
    <3> QED BY <2>1, <2>3, <2>4, <3>1, HeldInMore
  <2> QED BY <1>1, <2>5, <2>6
<1> QED BY <1>1, TermsDecide

\* No letter of the text means one thing to casefold and another to SQLite.
FoldsAlike(text) == \A i \in 1 .. Len(text) : Casefold[text[i]] = <<SqlLower[text[i]]>>

\* Such a text is casefolded as SQLite lowers it.
LEMMA FoldedIsLowered ==
    ASSUME NEW text \in Text, FoldsAlike(text)
    PROVE  Casefolded(text) = Lowered(text)
<1> DEFINE T == {t \in Text : FoldsAlike(t) => Casefolded(t) = Lowered(t)}
<1>1. <<>> \in T
  <2>1. <<>> \in Text /\ Len(<<>>) = 0
    BY EmptySeq DEF Text
  <2>2. Lowered(<<>>) = <<>>
    BY <2>1, LoweredIs, EmptySeq DEF Text
  <2> QED BY <2>1, <2>2, FoldedAppend
<1>2. ASSUME NEW t \in Text, NEW c \in Letters, t \in T PROVE Append(t, c) \in T
  <2> DEFINE more == Append(t, c)
             N == Len(t)
  <2>1. /\ more \in Text /\ Len(more) = N + 1 /\ N \in Nat
        /\ more[N + 1] = c /\ \A n \in 1 .. N : more[n] = t[n]
    BY AppendProperties, LenProperties DEF Text
  <2> HIDE DEF more
  <2>2. SUFFICES ASSUME FoldsAlike(more) PROVE Casefolded(more) = Lowered(more)
    BY <2>1 DEF more
  <2>3. FoldsAlike(t) /\ Casefold[c] = <<SqlLower[c]>>
    <3>1. \A n \in 1 .. N : n \in 1 .. N + 1
      BY <2>1
    <3>2. N + 1 \in 1 .. N + 1
      BY <2>1
    <3>3. \A n \in 1 .. N + 1 : Casefold[more[n]] = <<SqlLower[more[n]]>>
      BY <2>1, <2>2 DEF FoldsAlike
    <3>4. \A n \in 1 .. N : Casefold[t[n]] = <<SqlLower[t[n]]>>
      BY <2>1, <3>1, <3>3
    <3>5. Casefold[c] = <<SqlLower[c]>>
      BY <2>1, <3>2, <3>3
    <3> QED BY <3>4, <3>5 DEF FoldsAlike
  <2>4. Casefolded(more) = Lowered(t) \o <<SqlLower[c]>>
    BY <1>2, <2>3, FoldedAppend DEF more
  <2>5. /\ Lowered(t) \in Text /\ Len(Lowered(t)) = N
        /\ \A n \in 1 .. N : Lowered(t)[n] = SqlLower[t[n]]
    BY LoweredIs
  <2>6. /\ Lowered(more) \in Text /\ Len(Lowered(more)) = N + 1
        /\ \A n \in 1 .. N + 1 : Lowered(more)[n] = SqlLower[more[n]]
    BY <2>1, LoweredIs
  <2>7. SqlLower[c] \in Letters
    BY LettersAssumption
  <2>8. Lowered(t) \o <<SqlLower[c]>> = Append(Lowered(t), SqlLower[c])
    BY <2>5, <2>7, AppendIsConcat DEF Text
  <2>9. /\ Append(Lowered(t), SqlLower[c]) \in Text
        /\ Len(Append(Lowered(t), SqlLower[c])) = N + 1
        /\ \A n \in 1 .. N : Append(Lowered(t), SqlLower[c])[n] = Lowered(t)[n]
        /\ Append(Lowered(t), SqlLower[c])[N + 1] = SqlLower[c]
    BY <2>5, <2>7, AppendProperties DEF Text
  <2>10. ASSUME NEW n \in 1 .. N + 1
         PROVE  Lowered(more)[n] = Append(Lowered(t), SqlLower[c])[n]
    <3>1. CASE n = N + 1
      <4>1. Lowered(more)[n] = SqlLower[c]
        BY <2>1, <2>6, <3>1
      <4> QED BY <2>9, <3>1, <4>1
    <3>2. CASE n # N + 1
      <4>1. n \in 1 .. N
        BY <2>1, <3>2
      <4>2. Lowered(more)[n] = SqlLower[t[n]]
        BY <2>1, <2>6, <4>1
      <4> QED BY <2>5, <2>9, <4>1, <4>2
    <3> QED BY <3>1, <3>2
  <2>11. Lowered(more) = Append(Lowered(t), SqlLower[c])
    BY <2>6, <2>9, <2>10, SeqEqual DEF Text
  <2> QED BY <2>4, <2>8, <2>11
<1>3. Text \subseteq T
  <2> HIDE DEF T
  <2> QED BY <1>1, <1>2, TextInduction
<1> QED BY <1>3

\* A term without the letter between two texts is held by one of them if at all.
LEMMA HeldOnOneSide ==
    ASSUME NEW h \in Text, NEW c \in Letters, NEW d \in Text, NEW term \in Text,
           \A j \in 1 .. Len(term) : term[j] # c,
           Holds((h \o <<c>>) \o d, term)
    PROVE  Holds(h, term) \/ Holds(d, term)
<1> DEFINE H == Len(h)
           D == Len(d)
           m == Len(term)
           whole == (h \o <<c>>) \o d
<1>1. H \in Nat /\ D \in Nat /\ m \in Nat
  BY LenProperties DEF Text
<1>2. PICK hc : hc = Append(h, c)
  OBVIOUS
<1>3. /\ hc \in Text /\ hc = h \o <<c>> /\ Len(hc) = H + 1
      /\ \A k \in 1 .. H : hc[k] = h[k]
      /\ hc[H + 1] = c
  BY <1>2, AppendProperties, AppendIsConcat DEF Text
<1>4. /\ Len(whole) = (H + 1) + D
      /\ \A k \in 1 .. (H + 1) + D :
           whole[k] = IF k <= H + 1 THEN hc[k] ELSE d[k - (H + 1)]
  <2>1. /\ Len(hc \o d) = Len(hc) + Len(d)
        /\ \A k \in 1 .. Len(hc) + Len(d) :
             (hc \o d)[k] = IF k <= Len(hc) THEN hc[k] ELSE d[k - Len(hc)]
    <3>1. hc \in Seq(Letters) /\ d \in Seq(Letters)
      BY <1>3 DEF Text
    <3> QED BY <3>1, ConcatProperties
  <2>2. whole = hc \o d
    BY <1>3
  <2> HIDE DEF whole, H, D
  <2>3. Len(hc) = H + 1 /\ Len(d) = D
    BY <1>3 DEF H, D
  <2> QED BY <2>1, <2>2, <2>3
<1>5. PICK i \in 0 .. Len(whole) - m : \A j \in 1 .. m : whole[i + j] = term[j]
  BY DEF Holds
<1> HIDE DEF whole, H, D, m
<1>6. i \in Nat /\ i + m <= (H + 1) + D
  BY <1>1, <1>4, <1>5
<1>7. CASE i + m <= H
  <2>1. ASSUME NEW j \in 1 .. m PROVE h[i + j] = term[j]
    <3>1. i + j \in 1 .. H /\ i + j \in 1 .. (H + 1) + D /\ i + j <= H + 1
      BY <1>1, <1>6, <1>7
    <3>2. whole[i + j] = hc[i + j] /\ hc[i + j] = h[i + j]
      BY <1>3, <1>4, <3>1
    <3> QED BY <1>5, <3>2
  <2>2. i \in 0 .. H - m
    BY <1>1, <1>6, <1>7
  <2> QED BY <2>1, <2>2 DEF Holds, H, m
<1>8. CASE i >= H + 1
  <2>1. ASSUME NEW j \in 1 .. m PROVE d[(i - (H + 1)) + j] = term[j]
    <3>1. /\ i + j \in 1 .. (H + 1) + D /\ ~(i + j <= H + 1)
          /\ (i + j) - (H + 1) = (i - (H + 1)) + j
      BY <1>1, <1>6, <1>8
    <3>2. whole[i + j] = d[(i + j) - (H + 1)]
      BY <1>4, <3>1
    <3> QED BY <1>5, <3>1, <3>2
  <2>2. i - (H + 1) \in 0 .. D - m
    BY <1>1, <1>6, <1>8
  <2> QED BY <2>1, <2>2 DEF Holds, D, m
<1>9. CASE ~(i + m <= H) /\ ~(i >= H + 1)
  <2>1. (H + 1) - i \in 1 .. m /\ i + ((H + 1) - i) = H + 1
    BY <1>1, <1>6, <1>9
  <2>2. H + 1 \in 1 .. (H + 1) + D /\ H + 1 <= H + 1
    BY <1>1
  <2>3. whole[H + 1] = c
    BY <1>3, <1>4, <2>2
  <2>4. whole[H + 1] = term[(H + 1) - i]
    BY <1>5, <2>1
  <2> QED BY <2>1, <2>3, <2>4 DEF m
<1> QED BY <1>7, <1>8, <1>9

\* The converse holds where casefold and SQLite's lower agree on every letter of
\* the listing and of the term, and no term spans the newline listing_matches puts
\* between headline and description: outside these three, an accented capital, a
\* letter that casefolds to several and a term over two lines, the saved search and
\* the search it leads to are one.
THEOREM MirrorInStep ==
    \A l \in Fact, f \in Filter :
        /\ FoldsAlike(l.headline) /\ FoldsAlike(l.description)
        /\ \A term \in f.q : FoldsAlike(term) /\ \A j \in 1 .. Len(term) : term[j] # Newline
        => (Matches(l, f) <=> Found(l, f))
<1> SUFFICES ASSUME NEW l \in Fact, NEW f \in Filter,
                    FoldsAlike(l.headline), FoldsAlike(l.description),
                    \A term \in f.q : FoldsAlike(term)
                                      /\ \A j \in 1 .. Len(term) : term[j] # Newline
             PROVE  Matches(l, f) <=> Found(l, f)
  OBVIOUS
<1>1. ASSUME NEW term \in f.q, Holds(Casefolded(Haystack(l)), Casefolded(term))
      PROVE  ILike(l.headline, term) \/ ILike(l.description, term)
  <2>1. term \in Text /\ l.headline \in Text /\ l.description \in Text
    BY TextsOf
  <2>2. PICK h, d, t : /\ h = Lowered(l.headline) /\ d = Lowered(l.description)
                       /\ t = Lowered(term)
    OBVIOUS
  <2>3. h \in Text /\ d \in Text /\ t \in Text
    BY <2>1, <2>2, LoweredIs
  <2>4. h = Casefolded(l.headline) /\ d = Casefolded(l.description) /\ t = Casefolded(term)
    BY <2>1, <2>2, FoldedIsLowered
  <2>5. Holds((h \o <<Newline>>) \o d, t)
    BY <1>1, <2>4, TextsOf
  <2>6. \A j \in 1 .. Len(t) : t[j] # Newline
    <3>1. /\ Len(t) = Len(term)
          /\ \A j \in 1 .. Len(term) : t[j] = SqlLower[term[j]]
      BY <2>1, <2>2, LoweredIs
    <3>2. \A j \in 1 .. Len(term) : term[j] \in Letters /\ term[j] # Newline
      BY <2>1, ElementOfSeq DEF Text
    <3> QED BY <3>1, <3>2, LettersAssumption
  <2>7. Holds(h, t) \/ Holds(d, t)
    BY <2>3, <2>5, <2>6, LettersAssumption, HeldOnOneSide
  <2> QED BY <2>2, <2>7 DEF ILike
<1> QED BY <1>1, TermsDecide, FoundIsMatched

----------------------------------------------------------------------------
(* Rows of the inbox. *)

LEMMA UnreadFinite ==
    ASSUME AlertsTypeOK
    PROVE  /\ Unread(Buyer) \subseteq 1 .. Len(inbox[Buyer])
           /\ IsFiniteSet(Unread(Buyer))
           /\ Cardinality(Unread(Buyer)) \in Nat
           /\ Unread(Buyer) \subseteq Nat
<1>1. inbox[Buyer] \in Seq(Notification)
  BY AlertsAssumption DEF AlertsTypeOK
<1>2. /\ DOMAIN inbox[Buyer] = 1 .. Len(inbox[Buyer])
      /\ Len(inbox[Buyer]) \in Nat
  BY <1>1, LenProperties
<1>3. Unread(Buyer) \subseteq 1 .. Len(inbox[Buyer])
  BY <1>2 DEF Unread
<1>4. IsFiniteSet(1 .. Len(inbox[Buyer]))
  BY <1>2, FS_Interval
<1>5. 1 .. Len(inbox[Buyer]) \subseteq Nat
  OBVIOUS
<1> QED BY <1>3, <1>4, <1>5, FS_Subset, FS_CardinalityType

\* A stamp writes read_at of the rows it is about and nothing else.
LEMMA StampIs ==
    ASSUME AlertsTypeOK, NEW rows, Stamp(Buyer, rows)
    PROVE  /\ inbox' \in [Users -> Seq(Notification)]
           /\ \A u \in Users \ {Buyer} : inbox'[u] = inbox[u]
           /\ Len(inbox'[Buyer]) = Len(inbox[Buyer])
           /\ \A u \in Users : DOMAIN inbox'[u] = DOMAIN inbox[u]
           /\ \A u \in Users : \A i \in DOMAIN inbox[u] : inbox'[u][i].type = inbox[u][i].type
           /\ \A i \in DOMAIN inbox[Buyer] :
                inbox'[Buyer][i].read = IF i \in rows THEN stamps + 1 ELSE inbox[Buyer][i].read
           /\ Unread(Buyer)' = Unread(Buyer) \ rows
<1> DEFINE box == inbox[Buyer]
           new == [i \in DOMAIN box |-> IF i \in rows THEN [box[i] EXCEPT !.read = stamps + 1]
                                                      ELSE box[i]]
<1>1. /\ inbox \in [Users -> Seq(Notification)]
      /\ Buyer \in Users
      /\ stamps + 1 \in Nat \ {0}
  BY AlertsAssumption, SMT DEF AlertsTypeOK
<1>2. inbox' = [inbox EXCEPT ![Buyer] = new]
  BY DEF Stamp
<1>3. inbox'[Buyer] = new /\ \A u \in Users \ {Buyer} : inbox'[u] = inbox[u]
  BY <1>1, <1>2
<1>4. box \in Seq(Notification)
  BY <1>1
<1>5. /\ DOMAIN box = 1 .. Len(box)
      /\ Len(box) \in Nat
      /\ \A i \in DOMAIN box : box[i] \in Notification
  BY <1>4, LenProperties, ElementOfSeq
<1>6. \A i \in DOMAIN box :
        /\ new[i] \in Notification
        /\ new[i].type = box[i].type
        /\ new[i].read = IF i \in rows THEN stamps + 1 ELSE box[i].read
  BY <1>1, <1>5 DEF Notification
<1>7. new \in [1 .. Len(box) -> Notification] /\ DOMAIN new = DOMAIN box
  BY <1>5, <1>6
<1>8. new \in Seq(Notification) /\ Len(new) = Len(box)
  <2>1. new \in Seq(Notification)
    BY <1>5, <1>7, SeqDef
  <2> QED BY <2>1, <1>5, <1>7, LenProperties, SMT
<1> HIDE DEF new
<1>9. inbox' \in [Users -> Seq(Notification)]
  BY <1>1, <1>2, <1>8
<1>10. \A i \in DOMAIN box : box[i].read \in Nat
  BY <1>5 DEF Notification
<1>11. Unread(Buyer)' = Unread(Buyer) \ rows
  BY <1>1, <1>3, <1>6, <1>7, <1>10 DEF Unread
<1> QED BY <1>1, <1>3, <1>6, <1>7, <1>8, <1>9, <1>11

\* An announcement appends an alert to the inboxes it is for and nothing else.
LEMMA FanOutIs ==
    ASSUME AlertsTypeOK, NEW l, inbox' = [u \in Users |-> inbox[u] \o NewAlerts(l, u)]
    PROVE  /\ inbox' \in [Users -> Seq(Notification)]
           /\ \A u \in Users :
                /\ ~(Subscribed(l, u) /\ ~Alerted(u)) => inbox'[u] = inbox[u]
                /\ Subscribed(l, u) /\ ~Alerted(u)
                   => inbox'[u] = Append(inbox[u], Note("listing_matched"))
<1>1. Note("listing_matched") \in Notification
  BY DEF Note, Notification
<1>2. ASSUME NEW u \in Users
      PROVE  /\ inbox'[u] \in Seq(Notification)
             /\ ~(Subscribed(l, u) /\ ~Alerted(u)) => inbox'[u] = inbox[u]
             /\ Subscribed(l, u) /\ ~Alerted(u)
                => inbox'[u] = Append(inbox[u], Note("listing_matched"))
  <2>1. inbox[u] \in Seq(Notification) /\ inbox'[u] = inbox[u] \o NewAlerts(l, u)
    BY DEF AlertsTypeOK
  <2>2. CASE Subscribed(l, u) /\ ~Alerted(u)
    <3>1. NewAlerts(l, u) = <<Note("listing_matched")>>
      BY <2>2 DEF NewAlerts
    <3>2. inbox[u] \o <<Note("listing_matched")>> = Append(inbox[u], Note("listing_matched"))
      BY <1>1, <2>1, AppendIsConcat
    <3> QED BY <1>1, <2>1, <2>2, <3>1, <3>2, AppendProperties
  <2>3. CASE ~(Subscribed(l, u) /\ ~Alerted(u))
    <3>1. NewAlerts(l, u) = <<>>
      BY <2>3 DEF NewAlerts
    <3> QED BY <2>1, <2>3, <3>1, ConcatEmptySeq
  <2> QED BY <2>2, <2>3
<1>3. inbox' \in [Users -> Seq(Notification)]
  BY <1>2
<1> QED BY <1>2, <1>3

\* A notification is appended: no row of the recipient changes.
LEMMA AppendIs ==
    ASSUME NEW box \in Seq(Notification), NEW note \in Notification
    PROVE  /\ Append(box, note) \in Seq(Notification)
           /\ Len(box) \in Nat
           /\ Len(Append(box, note)) = Len(box) + 1
           /\ DOMAIN box = 1 .. Len(box)
           /\ DOMAIN Append(box, note) = DOMAIN box \cup {Len(box) + 1}
           /\ Len(box) + 1 \notin DOMAIN box
           /\ \A i \in DOMAIN box : Append(box, note)[i] = box[i]
           /\ Append(box, note)[Len(box) + 1] = note
<1>1. /\ Append(box, note) \in Seq(Notification)
      /\ Len(Append(box, note)) = Len(box) + 1
      /\ \A i \in 1 .. Len(box) : Append(box, note)[i] = box[i]
      /\ Append(box, note)[Len(box) + 1] = note
  BY AppendProperties
<1>2. /\ Len(box) \in Nat /\ DOMAIN box = 1 .. Len(box)
      /\ DOMAIN Append(box, note) = 1 .. Len(Append(box, note))
  BY <1>1, LenProperties
<1>3. /\ 1 .. (Len(box) + 1) = 1 .. Len(box) \cup {Len(box) + 1}
      /\ Len(box) + 1 \notin 1 .. Len(box)
  BY <1>2, SMT
<1> QED BY <1>1, <1>2, <1>3

----------------------------------------------------------------------------
(* Types. *)

LEMMA IdleType == Idle \in Request
BY AlertsAssumption DEF Idle, Request

\* A request in flight becomes another, and no other request does.
LEMMA BecomesIs ==
    ASSUME AlertsTypeOK, NEW r \in Requests, NEW task, Becomes(r, task)
    PROVE  /\ req'[r] = task
           /\ \A q \in Requests \ {r} : req'[q] = req[q]
           /\ task \in Request => req' \in [Requests -> Request]
BY DEF AlertsTypeOK, Becomes

LEMMA BegunType ==
    ASSUME AlertsTypeOK, NEW r, Begins(r)
    PROVE  begun' \in 0 .. MaxRequests
BY AlertsAssumption, SMT DEF AlertsTypeOK, Begins

\* A user's request begins.
LEMMA BeginsType ==
    ASSUME TypeOK, NEW r \in Requests, NEW task \in Request, UserBegins(r, task),
           UNCHANGED <<status, facts, searches, inbox, stamps>>
    PROVE  AlertsTypeOK'
<1>1. begun' \in 0 .. MaxRequests
  BY BegunType DEF UserBegins, TypeOK
<1>2. req' \in [Requests -> Request]
  BY BecomesIs DEF UserBegins, TypeOK
<1> QED BY <1>1, <1>2 DEF UserBegins, TypeOK, AlertsTypeOK

\* A request ends or goes on, and the tables stay.
LEMMA GoesOnType ==
    ASSUME TypeOK, NEW r \in Requests, NEW task \in Request, Becomes(r, task),
           UNCHANGED <<status, facts, searches, inbox, stamps, begun, overlapped>>
    PROVE  AlertsTypeOK'
<1>1. req' \in [Requests -> Request]
  BY BecomesIs DEF TypeOK
<1> QED BY <1>1 DEF TypeOK, AlertsTypeOK

LEMMA InitType == Init => TypeOK
<1>1. <<>> \in Seq(Notification)
  BY EmptySeq
<1>2. 0 \in 0 .. MaxRequests /\ 0 \in 0 .. MaxFailures /\ 0 \in Nat
  BY InboxAssumption, AlertsAssumption, SMT
<1>3. Init => inbox \in [Users -> Seq(Notification)] /\ req \in [Requests -> Request]
  BY <1>1, IdleType DEF Init, AlertsInit
<1> QED BY <1>2, <1>3 DEF Init, AlertsInit, TypeOK, AlertsTypeOK

LEMMA AlertsStepType ==
    ASSUME TypeOK, NEW r \in Requests, Server(r)
    PROVE  AlertsTypeOK'
<1>1. ASSUME NEW u \in Users, SearchRead(r, u) PROVE AlertsTypeOK'
  <2>1. [Idle EXCEPT !.op = "search", !.user = u, !.n = begun + 1] \in Request
    <3>1. begun + 1 \in Nat
      BY AlertsAssumption, SMT DEF TypeOK, AlertsTypeOK
    <3> QED BY <3>1, IdleType DEF Request, Idle, ServerOp
  <2> QED BY <1>1, <2>1, BeginsType DEF SearchRead
<1>2. ASSUME NEW f \in Filters, SearchWrite(r, f) PROVE AlertsTypeOK'
  <2>1. [id |-> req[r].n, user |-> req[r].user, filter |-> f] \in SavedSearch
    BY DEF SavedSearch, TypeOK, AlertsTypeOK, Request
  <2>2. req' \in [Requests -> Request]
    BY <1>2, IdleType, BecomesIs DEF SearchWrite, Ends, TypeOK
  <2> QED BY <1>2, <2>1, <2>2 DEF SearchWrite, TypeOK, AlertsTypeOK
<1>3. CASE Approve(r)
  <2>1. [Idle EXCEPT !.op = "approved"] \in Request
    BY IdleType DEF Request, Idle, ServerOp
  <2>2. begun' \in 0 .. MaxRequests
    BY <1>3, BegunType DEF Approve, TypeOK
  <2>3. req' \in [Requests -> Request]
    BY <1>3, <2>1, BecomesIs DEF Approve, TypeOK
  <2> QED BY <1>3, <2>2, <2>3 DEF Approve, TypeOK, AlertsTypeOK
<1>4. CASE Refresh(r)
  <2>1. [req[r] EXCEPT !.op = "announce", !.card = {facts}] \in Request
    BY DEF Request, ServerOp, TypeOK, AlertsTypeOK
  <2> QED BY <1>4, <2>1, GoesOnType DEF Refresh
<1>5. CASE FanOut(r)
  <2>1. inbox' \in [Users -> Seq(Notification)]
    BY <1>5, FanOutIs DEF FanOut, TypeOK
  <2>2. req' \in [Requests -> Request]
    BY <1>5, IdleType, BecomesIs DEF FanOut, Ends, TypeOK
  <2> QED BY <1>5, <2>1, <2>2 DEF FanOut, TypeOK, AlertsTypeOK
<1>6. CASE Arrive(r)
  <2>1. Note("other") \in Notification /\ inbox[Buyer] \in Seq(Notification)
    BY AlertsAssumption DEF Note, Notification, TypeOK, AlertsTypeOK
  <2>2. inbox' \in [Users -> Seq(Notification)]
    BY <1>6, <2>1, AppendProperties DEF Arrive, TypeOK, AlertsTypeOK
  <2>3. begun' \in 0 .. MaxRequests
    BY <1>6, BegunType DEF Arrive, TypeOK
  <2> QED BY <1>6, <2>2, <2>3 DEF Arrive, TypeOK, AlertsTypeOK
<1>7. CASE MarkWrite(r)
  <2>1. inbox' \in [Users -> Seq(Notification)]
    BY <1>7, StampIs DEF MarkWrite, StampOnce, TypeOK
  <2>2. [req[r] EXCEPT !.op = "marked"] \in Request
    BY DEF Request, BrowserOp, TypeOK, AlertsTypeOK
  <2>3. req' \in [Requests -> Request]
    BY <1>7, <2>2, BecomesIs DEF MarkWrite, TypeOK
  <2> QED BY <1>7, <2>1, <2>3 DEF MarkWrite, TypeOK, AlertsTypeOK
<1>8. CASE ReadAll(r)
  <2>1. [Idle EXCEPT !.op = "markall", !.user = Buyer, !.rows = Unread(Buyer)] \in Request
    BY UnreadFinite, IdleType, AlertsAssumption DEF Request, Idle, ServerOp, TypeOK
  <2> QED BY <1>8, <2>1, BeginsType DEF ReadAll
<1>9. CASE ReadAllWrite(r)
  <2>1. inbox' \in [Users -> Seq(Notification)]
    BY <1>9, StampIs DEF ReadAllWrite, TypeOK
  <2>2. req' \in [Requests -> Request]
    BY <1>9, IdleType, BecomesIs DEF ReadAllWrite, Ends, TypeOK
  <2> QED BY <1>9, <2>1, <2>2 DEF ReadAllWrite, TypeOK, AlertsTypeOK
<1> QED BY <1>1, <1>2, <1>3, <1>4, <1>5, <1>6, <1>7, <1>8, <1>9 DEF Server

LEMMA BrowserStepType ==
    ASSUME TypeOK, NEW r \in Requests, Browser(r)
    PROVE  TypeOK'
<1>1. AlertsTypeOK
  BY DEF TypeOK
<1>2. req[r] \in Request /\ Idle \in Request /\ Buyer \in Users
  BY <1>1, IdleType, AlertsAssumption DEF AlertsTypeOK
<1>3. Applied(r) => AlertsTypeOK' /\ UNCHANGED <<watched, failures>>
  BY <1>2, GoesOnType DEF Applied, Ends
<1>4. ASSUME NEW task \in Request, Answered(r, task) PROVE AlertsTypeOK'
  BY <1>4, BeginsType DEF Answered
<1>5. CASE Count(r)
  <2>1. [Idle EXCEPT !.op = "counted", !.user = Buyer, !.n = Cardinality(Unread(Buyer))]
            \in Request
    BY <1>1, <1>2, UnreadFinite DEF Request, Idle, BrowserOp
  <2> QED BY <1>4, <1>5, <2>1 DEF Count, TypeOK
<1>6. CASE CountApplied(r)
  BY <1>2, <1>3, <1>6 DEF CountApplied, TypeOK, Request
<1>7. CASE List(r)
  <2>1. [Idle EXCEPT !.op = "listed", !.user = Buyer, !.rows = Unread(Buyer)] \in Request
    BY <1>1, <1>2, UnreadFinite DEF Request, Idle, BrowserOp
  <2> QED BY <1>4, <1>7, <2>1 DEF List, TypeOK, browserVars
<1>8. CASE ListApplied(r)
  BY <1>2, <1>3, <1>8 DEF ListApplied, TypeOK, Request
<1>9. ASSUME NEW i \in 1 .. Len(inbox[Buyer]), Click(r, i) PROVE TypeOK'
  <2>1. i \in Nat
    BY <1>9 DEF Click, TypeOK
  <2>2. [Idle EXCEPT !.op = "mark", !.user = Buyer, !.n = i,
                     !.rows = Unread(Buyer) \cap {i}] \in Request
    BY <1>2, <2>1 DEF Request, Idle, ServerOp
  <2> QED BY <1>9, <2>2, BeginsType DEF Click, ClickAgain, MarkRead, TypeOK, browserVars
<1>10. CASE MarkApplied(r)
  <2>1. Decremented \in Nat
    BY SMT DEF Decremented, TypeOK
  <2> QED BY <1>3, <1>10, <2>1 DEF MarkApplied, TypeOK
<1>11. CASE Watch(r)
  <2>1. [Idle EXCEPT !.op = "watched", !.user = Buyer] \in Request
    BY <1>2 DEF Request, Idle, BrowserOp
  <2> QED BY <1>4, <1>11, <2>1 DEF Watch, TypeOK
<1>12. CASE WatchApplied(r)
  <2>1. [req[r] EXCEPT !.op = "entries", !.flag = Listed] \in Request
    BY <1>2 DEF Request, BrowserOp, Listed, TypeOK
  <2> QED BY <1>12, <2>1, GoesOnType DEF WatchApplied, TypeOK, browserVars
<1>13. CASE Entries(r)
  <2>1. [Idle EXCEPT !.op = "entries", !.user = Buyer, !.flag = Listed] \in Request
    BY <1>2 DEF Request, Idle, BrowserOp, Listed, TypeOK
  <2> QED BY <1>4, <1>13, <2>1 DEF Entries, TypeOK, browserVars
<1>14. CASE EntriesApplied(r)
  BY <1>2, <1>3, <1>14 DEF EntriesApplied, TypeOK, Request
<1>15. CASE Unwatch(r)
  <2>1. [Idle EXCEPT !.op = "unwatched", !.user = Buyer] \in Request
    BY <1>2 DEF Request, Idle, BrowserOp
  <2> QED BY <1>4, <1>15, <2>1 DEF Unwatch, TypeOK
<1>16. CASE UnwatchApplied(r)
  BY <1>3, <1>16 DEF UnwatchApplied, TypeOK
<1>17. CASE AnswerLost(r)
  <2>1. failures' \in 0 .. MaxFailures
    BY <1>17, InboxAssumption, SMT DEF AnswerLost, TypeOK
  <2>2. AlertsTypeOK'
    BY <1>2, <1>17, GoesOnType DEF AnswerLost, Ends
  <2>3. badge' \in Nat
    BY <1>17 DEF AnswerLost, TypeOK
  <2> QED BY <1>17, <2>1, <2>2, <2>3 DEF AnswerLost, TypeOK
<1> QED BY <1>5, <1>6, <1>7, <1>8, <1>9, <1>10, <1>11, <1>12, <1>13, <1>14, <1>15, <1>16, <1>17
        DEF Browser

\* A lost fan-out ends its request, and is one more failure.
LEMMA LossIs ==
    ASSUME TypeOK, NEW r \in Requests, AnnounceFails(r)
    PROVE  /\ req[r].op \in {"approved", "announce"}
           /\ Becomes(r, Idle) /\ req'[r] = Idle
           /\ \A q \in Requests \ {r} : req'[q] = req[q]
           /\ failures' \in 0 .. MaxFailures /\ failures' # 0 /\ failures' # failures
           /\ UNCHANGED <<status, facts, searches, inbox, stamps, begun, overlapped,
                          watched, badge, shown, heart, current>>
<1>1. /\ Becomes(r, Idle) /\ req[r].op \in {"approved", "announce"}
      /\ UNCHANGED <<status, facts, searches, inbox, stamps, begun, overlapped,
                     watched, badge, shown, heart, current>>
  BY DEF AnnounceFails, FanOutLost, Ends
<1>2. req'[r] = Idle /\ \A q \in Requests \ {r} : req'[q] = req[q]
  BY <1>1, BecomesIs DEF TypeOK
<1>3. failures' \in 0 .. MaxFailures /\ failures' # 0 /\ failures' # failures
  BY InboxAssumption, SMT DEF AnnounceFails, TypeOK
<1> QED BY <1>1, <1>2, <1>3

LEMMA TypeStep ==
    ASSUME TypeOK, [Next]_inboxVars
    PROVE  TypeOK'
<1>1. CASE UNCHANGED inboxVars
  BY <1>1 DEF inboxVars, alertsVars, browserVars, TypeOK, AlertsTypeOK
<1>2. CASE Elsewhere
  BY <1>2 DEF Elsewhere, Pause, Resume, Edit, SearchDelete, browserVars, TypeOK, AlertsTypeOK
<1>3. ASSUME NEW r \in Requests, Server(r) PROVE TypeOK'
  BY <1>3, AlertsStepType DEF Server, TypeOK
<1>4. ASSUME NEW r \in Requests, AnnounceFails(r) PROVE TypeOK'
  <2>1. /\ Becomes(r, Idle) /\ failures' \in 0 .. MaxFailures
        /\ UNCHANGED <<status, facts, searches, inbox, stamps, begun, overlapped,
                       watched, badge, shown, heart, current>>
    BY <1>4, LossIs
  <2>2. AlertsTypeOK'
    BY <2>1, IdleType, GoesOnType
  <2> QED BY <2>1, <2>2 DEF TypeOK
<1> QED BY <1>1, <1>2, <1>3, <1>4, BrowserStepType DEF Next

\* Every row, request and store keeps its type.
THEOREM TypeCorrect == Spec => []TypeOK
<1>1. TypeOK /\ [Next]_inboxVars => TypeOK'
  BY TypeStep
<1> QED BY InitType, <1>1, PTL DEF Spec

----------------------------------------------------------------------------
(* The cap on saved searches. *)

\* Requests of u that found the cap free and have not inserted yet.
Pending(u) == {r \in Requests : req[r].op = "search" /\ req[r].user = u}

CapInv ==
    /\ IsFiniteSet(searches)
    /\ \A u \in Users :
        Cardinality(SearchesOf(u)) + Cardinality(Pending(u))
            <= SearchCap + Cardinality(Requests) - 1

LEMMA PendingFinite ==
    ASSUME NEW u
    PROVE  /\ IsFiniteSet(Pending(u))
           /\ Cardinality(Pending(u)) \in Nat
           /\ Cardinality(Requests) \in Nat
           /\ Cardinality(Pending(u)) <= Cardinality(Requests)
BY AlertsAssumption, FS_Subset, FS_CardinalityType DEF Pending

LEMMA SearchesFinite ==
    ASSUME IsFiniteSet(searches), NEW u
    PROVE  IsFiniteSet(SearchesOf(u)) /\ Cardinality(SearchesOf(u)) \in Nat
BY FS_Subset, FS_CardinalityType DEF SearchesOf

LEMMA InitCap == Init => CapInv
<1> SUFFICES ASSUME Init PROVE CapInv
  OBVIOUS
<1>1. searches = {} /\ \A u : SearchesOf(u) = {} /\ Pending(u) = {}
  BY DEF Init, AlertsInit, SearchesOf, Pending, Idle
<1>2. IsFiniteSet({}) /\ Cardinality({}) = 0
  BY FS_EmptySet
<1>3. Cardinality(Requests) \in Nat /\ Cardinality(Requests) # 0 /\ SearchCap \in Nat
  BY AlertsAssumption, FS_CardinalityType, FS_EmptySet
<1>4. 0 + 0 <= SearchCap + Cardinality(Requests) - 1
  BY <1>3, SMT
<1> QED BY <1>1, <1>2, <1>4 DEF CapInv

\* A step that inserts nothing and begins no insertion.
LEMMA CapSame ==
    ASSUME CapInv, searches' \subseteq searches,
           \A r \in Requests : req'[r].op = "search" => req'[r] = req[r]
    PROVE  CapInv'
<1>1. IsFiniteSet(searches')
  BY FS_Subset DEF CapInv
<1>2. ASSUME NEW u \in Users
      PROVE  Cardinality(SearchesOf(u)') + Cardinality(Pending(u)')
                <= SearchCap + Cardinality(Requests) - 1
  <2>1. SearchesOf(u)' \subseteq SearchesOf(u) /\ Pending(u)' \subseteq Pending(u)
    BY DEF SearchesOf, Pending
  <2>2. IsFiniteSet(SearchesOf(u)) /\ IsFiniteSet(Pending(u))
    BY SearchesFinite, PendingFinite DEF CapInv
  <2>3. /\ Cardinality(SearchesOf(u)') <= Cardinality(SearchesOf(u))
        /\ Cardinality(Pending(u)') <= Cardinality(Pending(u))
        /\ {Cardinality(SearchesOf(u)'), Cardinality(Pending(u)'),
            Cardinality(SearchesOf(u)), Cardinality(Pending(u)),
            Cardinality(Requests), SearchCap} \subseteq Nat
    BY <2>1, <2>2, FS_Subset, FS_CardinalityType, AlertsAssumption
  <2>4. Cardinality(SearchesOf(u)) + Cardinality(Pending(u))
            <= SearchCap + Cardinality(Requests) - 1
    BY DEF CapInv
  <2> QED BY <2>3, <2>4, SMT
<1> QED BY <1>1, <1>2 DEF CapInv

LEMMA CapStep ==
    ASSUME TypeOK, CapInv, [Next]_inboxVars
    PROVE  CapInv'
<1>1. CASE UNCHANGED inboxVars
  BY <1>1, CapSame DEF inboxVars, alertsVars
<1>2. CASE Elsewhere
  BY <1>2, CapSame DEF Elsewhere, Pause, Resume, Edit, SearchDelete, browserVars
<1>3. ASSUME NEW r \in Requests, NEW task, Becomes(r, task), task.op # "search",
             UNCHANGED searches
      PROVE  CapInv'
  <2>1. \A q \in Requests : req'[q].op = "search" => req'[q] = req[q]
    BY <1>3, BecomesIs DEF TypeOK
  <2> QED BY <1>3, <2>1, CapSame
<1>4. Idle.op # "search"
  BY DEF Idle
<1>5. ASSUME NEW r \in Requests, NEW u \in Users, SearchRead(r, u) PROVE CapInv'
  <2>1. searches' = searches /\ Cardinality(SearchesOf(u)) < SearchCap
    BY <1>5 DEF SearchRead, UnderCap
  <2>2. /\ req'[r].op = "search" /\ req'[r].user = u
        /\ \A q \in Requests \ {r} : req'[q] = req[q]
    <3> DEFINE task == [Idle EXCEPT !.op = "search", !.user = u, !.n = begun + 1]
    <3>1. task.op = "search" /\ task.user = u
      BY DEF Idle
    <3>2. Becomes(r, task)
      BY <1>5 DEF SearchRead, UserBegins
    <3> HIDE DEF task
    <3> QED BY <3>1, <3>2, BecomesIs DEF TypeOK
  <2>3. ASSUME NEW v \in Users
        PROVE  Cardinality(SearchesOf(v)') + Cardinality(Pending(v)')
                  <= SearchCap + Cardinality(Requests) - 1
    <3>1. SearchesOf(v)' = SearchesOf(v)
      BY <2>1 DEF SearchesOf
    <3>2. Cardinality(SearchesOf(v)) \in Nat /\ SearchCap \in Nat
      BY SearchesFinite, AlertsAssumption DEF CapInv
    <3>3. CASE v = u
      <4>1. IsFiniteSet(Pending(v)') /\ Cardinality(Pending(v)') <= Cardinality(Requests)
        BY AlertsAssumption, FS_Subset DEF Pending
      <4>2. Cardinality(Pending(v)') \in Nat /\ Cardinality(Requests) \in Nat
        BY <4>1, FS_CardinalityType, AlertsAssumption
      <4> QED BY <2>1, <3>1, <3>2, <3>3, <4>1, <4>2, SMT
    <3>4. CASE v # u
      <4>1. Pending(v)' \subseteq Pending(v)
        BY <2>2, <3>4 DEF Pending
      <4>2. /\ IsFiniteSet(Pending(v)') /\ Cardinality(Pending(v)') <= Cardinality(Pending(v))
            /\ Cardinality(Pending(v)) \in Nat /\ Cardinality(Requests) \in Nat
        BY <4>1, PendingFinite, FS_Subset
      <4>3. Cardinality(Pending(v)') \in Nat
        BY <4>2, FS_CardinalityType
      <4>4. Cardinality(SearchesOf(v)) + Cardinality(Pending(v))
                <= SearchCap + Cardinality(Requests) - 1
        BY DEF CapInv
      <4> QED BY <3>1, <3>2, <4>2, <4>3, <4>4, SMT
    <3> QED BY <3>3, <3>4
  <2> QED BY <2>1, <2>3 DEF CapInv
<1>6. ASSUME NEW r \in Requests, NEW f \in Filters, SearchWrite(r, f) PROVE CapInv'
  <2> DEFINE s == [id |-> req[r].n, user |-> req[r].user, filter |-> f]
  <2>1. searches' = searches \cup {s} /\ s.user = req[r].user /\ req[r].op = "search"
    BY <1>6 DEF SearchWrite
  <2>2. req'[r].op = "idle" /\ \A q \in Requests \ {r} : req'[q] = req[q]
    BY <1>6, BecomesIs DEF SearchWrite, Ends, Idle, TypeOK
  <2> HIDE DEF s
  <2>3. IsFiniteSet(searches')
    BY <2>1, FS_AddElement DEF CapInv
  <2>4. ASSUME NEW v \in Users
        PROVE  Cardinality(SearchesOf(v)') + Cardinality(Pending(v)')
                  <= SearchCap + Cardinality(Requests) - 1
    <3>1. /\ IsFiniteSet(SearchesOf(v)) /\ Cardinality(SearchesOf(v)) \in Nat
          /\ IsFiniteSet(Pending(v)) /\ Cardinality(Pending(v)) \in Nat
          /\ Cardinality(Requests) \in Nat /\ SearchCap \in Nat
      BY SearchesFinite, PendingFinite, AlertsAssumption DEF CapInv
    <3>2. Cardinality(SearchesOf(v)) + Cardinality(Pending(v))
              <= SearchCap + Cardinality(Requests) - 1
      BY DEF CapInv
    <3>3. CASE v = req[r].user
      <4>1. SearchesOf(v)' = SearchesOf(v) \cup {s}
        BY <2>1, <3>3 DEF SearchesOf
      <4>2. Pending(v)' = Pending(v) \ {r} /\ r \in Pending(v)
        BY <2>1, <2>2, <3>3 DEF Pending
      <4>3. /\ Cardinality(SearchesOf(v)') <= Cardinality(SearchesOf(v)) + 1
            /\ Cardinality(SearchesOf(v)') \in Nat
        <5>1. IsFiniteSet(SearchesOf(v)')
          BY <3>1, <4>1, FS_AddElement
        <5>2. \/ Cardinality(SearchesOf(v)') = Cardinality(SearchesOf(v))
              \/ Cardinality(SearchesOf(v)') = Cardinality(SearchesOf(v)) + 1
          BY <3>1, <4>1, FS_AddElement
        <5> QED BY <3>1, <5>2, SMT
      <4>4. Cardinality(Pending(v)') = Cardinality(Pending(v)) - 1
        BY <3>1, <4>2, FS_RemoveElement
      <4> QED BY <3>1, <3>2, <4>3, <4>4, SMT
    <3>4. CASE v # req[r].user
      <4>1. SearchesOf(v)' = SearchesOf(v) /\ Pending(v)' = Pending(v)
        BY <2>1, <2>2, <3>4 DEF SearchesOf, Pending
      <4> QED BY <3>2, <4>1
    <3> QED BY <3>3, <3>4
  <2> QED BY <2>3, <2>4 DEF CapInv
<1>7. ASSUME NEW r \in Requests, Server(r) PROVE CapInv'
  <2>1. CASE Approve(r)
    BY <1>3, <2>1 DEF Approve, Idle
  <2>2. CASE Refresh(r)
    <3>1. [req[r] EXCEPT !.op = "announce", !.card = {facts}].op # "search"
      BY DEF TypeOK, AlertsTypeOK, Request
    <3> QED BY <1>3, <2>2, <3>1 DEF Refresh
  <2>3. CASE FanOut(r) \/ ReadAllWrite(r)
    BY <1>3, <1>4, <2>3 DEF FanOut, ReadAllWrite, Ends
  <2>4. CASE Arrive(r)
    BY <2>4, CapSame DEF Arrive
  <2>5. CASE MarkWrite(r)
    <3>1. [req[r] EXCEPT !.op = "marked"].op # "search"
      BY DEF TypeOK, AlertsTypeOK, Request
    <3> QED BY <1>3, <2>5, <3>1 DEF MarkWrite
  <2>6. CASE ReadAll(r)
    BY <1>3, <2>6 DEF ReadAll, UserBegins, Idle
  <2> QED BY <1>5, <1>6, <1>7, <2>1, <2>2, <2>3, <2>4, <2>5, <2>6 DEF Server
<1>8. ASSUME NEW r \in Requests, Browser(r) PROVE CapInv'
  <2>1. CASE Count(r) \/ List(r) \/ Watch(r) \/ Entries(r) \/ Unwatch(r)
    BY <1>3, <2>1 DEF Count, List, Watch, Entries, Unwatch, Answered, UserBegins, Idle
  <2>2. ASSUME NEW i \in 1 .. Len(inbox[Buyer]), Click(r, i) PROVE CapInv'
    BY <1>3, <2>2 DEF Click, ClickAgain, MarkRead, UserBegins, Idle
  <2>3. CASE CountApplied(r) \/ ListApplied(r) \/ MarkApplied(r) \/ EntriesApplied(r)
             \/ UnwatchApplied(r) \/ AnswerLost(r)
    BY <1>3, <1>4, <2>3 DEF CountApplied, ListApplied, MarkApplied, EntriesApplied,
       UnwatchApplied, AnswerLost, Applied, Ends
  <2>4. CASE WatchApplied(r)
    <3>1. [req[r] EXCEPT !.op = "entries", !.flag = Listed].op # "search"
      BY DEF TypeOK, AlertsTypeOK, Request
    <3> QED BY <1>3, <2>4, <3>1 DEF WatchApplied
  <2> QED BY <1>8, <2>1, <2>2, <2>3, <2>4 DEF Browser
<1>9. ASSUME NEW r \in Requests, AnnounceFails(r) PROVE CapInv'
  BY <1>3, <1>4, <1>9, LossIs
<1> QED BY <1>1, <1>2, <1>7, <1>8, <1>9 DEF Next

\* However many requests read the last free place together, the cap is passed
\* by no more of them than lost the race.
THEOREM OvershootIsBounded == Spec => []CapOvershoot
<1>1. TypeOK /\ CapInv /\ [Next]_inboxVars => CapInv'
  BY CapStep
<1>2. CapInv => CapOvershoot
  <2> SUFFICES ASSUME CapInv, NEW u \in Users
               PROVE  Cardinality(SearchesOf(u)) <= SearchCap + Cardinality(Requests) - 1
    BY DEF CapOvershoot
  <2>1. Cardinality(SearchesOf(u)) + Cardinality(Pending(u))
            <= SearchCap + Cardinality(Requests) - 1
    BY DEF CapInv
  <2>2. /\ Cardinality(SearchesOf(u)) \in Nat /\ Cardinality(Pending(u)) \in Nat
        /\ Cardinality(Requests) \in Nat /\ SearchCap \in Nat
    BY SearchesFinite, PendingFinite, AlertsAssumption DEF CapInv
  <2> QED BY <2>1, <2>2, SMT
<1> QED BY InitCap, TypeCorrect, <1>1, <1>2, PTL DEF Spec

----------------------------------------------------------------------------
(* Who is alerted. *)

\* Nobody has two alerts and the owner none; what is announced was loaded.
AlertsInv ==
    /\ \A u \in Users : \A i, j \in AlertsOf(u) : i = j
    /\ AlertsOf(Owner) = {}
    /\ \A r \in Requests : req[r].op = "announce" => \E l : req[r].card = {l}

\* What a step may do to the alerts of u, and who of those announced to has one
\* when the announcement ends and was not lost.
AlertsStep(u) ==
    /\ Cardinality(AlertsOf(u)') <= 1
    /\ u = Owner => AlertsOf(u)' = {}
    /\ \A r \in Requests : req[r].op = "announce" /\ req'[r].op = "idle" /\ failures' = failures =>
           \A l \in req[r].card, s \in SearchesOf(u) :
               u # Owner /\ Matches(l, s.filter) => AlertsOf(u)' # {}

LEMMA OneIsFew ==
    ASSUME NEW S, \A i, j \in S : i = j
    PROVE  Cardinality(S) <= 1
<1>1. CASE S = {}
  <2>1. Cardinality(S) = 0
    BY <1>1, FS_EmptySet
  <2> QED BY <2>1, SMT
<1>2. ASSUME NEW x \in S PROVE Cardinality(S) <= 1
  <2>1. S = {x}
    BY <1>2
  <2>2. Cardinality(S) = 1
    BY <2>1, FS_Singleton
  <2> QED BY <2>2, SMT
<1> QED BY <1>1, <1>2

LEMMA InitAlerts == Init => AlertsInv
<1> SUFFICES ASSUME Init PROVE AlertsInv
  OBVIOUS
<1>1. \A u \in Users : inbox[u] = <<>>
  BY DEF Init, AlertsInit
<1>2. \A u \in Users : AlertsOf(u) = {}
  BY <1>1 DEF AlertsOf
<1> QED BY <1>2, AlertsAssumption DEF Init, AlertsInit, Idle, AlertsInv

\* A step that appends no alert and announces nothing.
LEMMA AlertsSame ==
    ASSUME AlertsInv, \A u \in Users : AlertsOf(u)' = AlertsOf(u),
           \A r \in Requests : /\ req[r].op = "announce" => req'[r] = req[r]
                               /\ req'[r].op = "announce" => \E l : req'[r].card = {l}
    PROVE  AlertsInv' /\ \A u \in Users : AlertsStep(u)
<1>1. AlertsInv'
  BY AlertsAssumption DEF AlertsInv
<1>2. \A u \in Users : Cardinality(AlertsOf(u)') <= 1
  BY OneIsFew DEF AlertsInv
<1> QED BY <1>1, <1>2 DEF AlertsInv, AlertsStep

LEMMA AlertsStepHolds ==
    ASSUME TypeOK, AlertsInv, [Next]_inboxVars
    PROVE  AlertsInv' /\ \A u \in Users : AlertsStep(u)
<1> DEFINE Goal == AlertsInv' /\ \A u \in Users : AlertsStep(u)
<1>1. inbox' = inbox => \A u \in Users : AlertsOf(u)' = AlertsOf(u)
  BY DEF AlertsOf
<1>2. ASSUME NEW r \in Requests, NEW task, Becomes(r, task),
             \A u \in Users : AlertsOf(u)' = AlertsOf(u), req[r].op # "announce",
             task.op = "announce" => \E l : task.card = {l}
      PROVE  Goal
  <2>1. req'[r] = task /\ \A q \in Requests \ {r} : req'[q] = req[q]
    BY <1>2, BecomesIs DEF TypeOK
  <2>2. \A q \in Requests : req'[q].op = "announce" => \E l : req'[q].card = {l}
    BY <1>2, <2>1 DEF AlertsInv
  <2> QED BY <1>2, <2>1, <2>2, AlertsSame
<1>3. CASE UNCHANGED inboxVars
  <2>1. UNCHANGED <<inbox, req>>
    BY <1>3 DEF inboxVars, alertsVars
  <2>2. \A r \in Requests : req'[r].op = "announce" => \E l : req'[r].card = {l}
    BY <2>1 DEF AlertsInv
  <2> QED BY <1>1, <2>1, <2>2, AlertsSame
<1>4. CASE Elsewhere
  <2>1. UNCHANGED <<inbox, req>>
    BY <1>4 DEF Elsewhere, Pause, Resume, Edit, SearchDelete
  <2>2. \A r \in Requests : req'[r].op = "announce" => \E l : req'[r].card = {l}
    BY <2>1 DEF AlertsInv
  <2> QED BY <1>1, <2>1, <2>2, AlertsSame
<1>5. ASSUME NEW r \in Requests, FanOut(r) PROVE Goal
  <2>1. PICK l \in req[r].card : inbox' = [u \in Users |-> inbox[u] \o NewAlerts(l, u)]
    BY <1>5 DEF FanOut
  <2>2. /\ req[r].op = "announce" /\ req'[r].op = "idle"
        /\ \A q \in Requests \ {r} : req'[q] = req[q]
    BY <1>5, BecomesIs DEF FanOut, Ends, Idle, TypeOK
  <2>3. req[r].card = {l}
    BY <2>1, <2>2 DEF AlertsInv
  <2>4. ASSUME NEW u \in Users
        PROVE  /\ \A i, j \in AlertsOf(u)' : i = j
               /\ u = Owner => AlertsOf(u)' = {}
               /\ \A s \in SearchesOf(u) :
                    u # Owner /\ Matches(l, s.filter) => AlertsOf(u)' # {}
    <3>1. inbox[u] \in Seq(Notification)
      BY DEF TypeOK, AlertsTypeOK
    <3>2. CASE Subscribed(l, u) /\ ~Alerted(u)
      <4>1. inbox'[u] = Append(inbox[u], Note("listing_matched"))
        BY <2>1, <3>2, FanOutIs DEF TypeOK
      <4>2. Note("listing_matched") \in Notification /\ Note("listing_matched").type = "listing_matched"
        BY DEF Note, Notification
      <4>3. AlertsOf(u) = {}
        BY <3>2 DEF Alerted, AlertsOf
      <4> DEFINE k == Len(inbox[u]) + 1
      <4>4. /\ DOMAIN inbox'[u] = DOMAIN inbox[u] \cup {k}
            /\ \A i \in DOMAIN inbox[u] : inbox'[u][i] = inbox[u][i]
            /\ inbox'[u][k] = Note("listing_matched")
        BY <3>1, <4>1, <4>2, AppendIs
      <4> HIDE DEF k
      <4>5. AlertsOf(u)' = {k}
        BY <4>2, <4>3, <4>4 DEF AlertsOf
      <4>6. u # Owner
        BY <3>2 DEF Subscribed
      <4> QED BY <4>5, <4>6
    <3>3. CASE ~(Subscribed(l, u) /\ ~Alerted(u))
      <4>1. inbox'[u] = inbox[u]
        BY <2>1, <3>3, FanOutIs DEF TypeOK
      <4>2. AlertsOf(u)' = AlertsOf(u)
        BY <4>1 DEF AlertsOf
      <4>3. \A s \in SearchesOf(u) : u # Owner /\ Matches(l, s.filter) => AlertsOf(u) # {}
        BY <3>3 DEF Subscribed, Alerted, AlertsOf
      <4> QED BY <4>2, <4>3 DEF AlertsInv
    <3> QED BY <3>2, <3>3
  <2>5. \A u \in Users : Cardinality(AlertsOf(u)') <= 1
    BY <2>4, OneIsFew
  <2>6. AlertsInv'
    <3>1. \A q \in Requests : req'[q].op = "announce" => \E x : req'[q].card = {x}
      BY <2>2 DEF AlertsInv
    <3>2. AlertsOf(Owner)' = {}
      BY <2>4, AlertsAssumption
    <3> QED BY <2>4, <3>1, <3>2 DEF AlertsInv
  <2>7. \A u \in Users : AlertsStep(u)
    <3>1. ASSUME NEW u \in Users, NEW q \in Requests, req[q].op = "announce", req'[q].op = "idle"
          PROVE  q = r
      BY <2>2, <3>1
    <3> QED BY <2>3, <2>4, <2>5, <3>1 DEF AlertsStep
  <2> QED BY <2>6, <2>7
<1>6. ASSUME NEW r \in Requests, Arrive(r) PROVE Goal
  <2>1. Note("other") \in Notification /\ Note("other").type = "other"
    BY DEF Note, Notification
  <2>2. /\ inbox[Buyer] \in Seq(Notification) /\ Buyer \in Users
        /\ inbox'[Buyer] = Append(inbox[Buyer], Note("other"))
        /\ \A u \in Users \ {Buyer} : inbox'[u] = inbox[u]
    BY <1>6, AlertsAssumption DEF Arrive, TypeOK, AlertsTypeOK
  <2> DEFINE k == Len(inbox[Buyer]) + 1
  <2>3. /\ DOMAIN inbox'[Buyer] = DOMAIN inbox[Buyer] \cup {k}
        /\ \A i \in DOMAIN inbox[Buyer] : inbox'[Buyer][i] = inbox[Buyer][i]
        /\ inbox'[Buyer][k] = Note("other")
    BY <2>1, <2>2, AppendIs
  <2> HIDE DEF k
  <2>4. AlertsOf(Buyer)' = AlertsOf(Buyer)
    BY <2>1, <2>3 DEF AlertsOf
  <2>5. \A u \in Users : AlertsOf(u)' = AlertsOf(u)
    BY <2>2, <2>4 DEF AlertsOf
  <2>6. UNCHANGED req
    BY <1>6 DEF Arrive
  <2>7. \A q \in Requests : req'[q].op = "announce" => \E x : req'[q].card = {x}
    BY <2>6 DEF AlertsInv
  <2> QED BY <2>5, <2>6, <2>7, AlertsSame
<1>7. ASSUME NEW rows, Stamp(Buyer, rows) PROVE \A u \in Users : AlertsOf(u)' = AlertsOf(u)
  BY <1>7, StampIs DEF AlertsOf, TypeOK
<1>8. ASSUME NEW r \in Requests, Server(r) PROVE Goal
  <2>1. ASSUME NEW u \in Users, SearchRead(r, u) PROVE Goal
    BY <1>1, <1>2, <2>1 DEF SearchRead, UserBegins, Begins, Idle
  <2>2. ASSUME NEW f \in Filters, SearchWrite(r, f) PROVE Goal
    BY <1>1, <1>2, <2>2 DEF SearchWrite, Ends, Idle
  <2>3. CASE Approve(r) \/ ReadAll(r)
    BY <1>1, <1>2, <2>3 DEF Approve, ReadAll, UserBegins, Begins, Idle
  <2>4. CASE Refresh(r)
    <3>1. [req[r] EXCEPT !.op = "announce", !.card = {facts}].card = {facts}
      BY DEF TypeOK, AlertsTypeOK, Request
    <3> QED BY <1>1, <1>2, <2>4, <3>1 DEF Refresh
  <2>5. CASE MarkWrite(r)
    <3>1. [req[r] EXCEPT !.op = "marked"].op # "announce"
      BY DEF TypeOK, AlertsTypeOK, Request
    <3> QED BY <1>2, <1>7, <2>5, <3>1 DEF MarkWrite, StampOnce
  <2>6. CASE ReadAllWrite(r)
    BY <1>2, <1>7, <2>6 DEF ReadAllWrite, Ends, Idle
  <2> QED BY <1>5, <1>6, <1>8, <2>1, <2>2, <2>3, <2>4, <2>5, <2>6 DEF Server
<1>9. ASSUME NEW r \in Requests, Browser(r) PROVE Goal
  <2>1. inbox' = inbox
    BY <1>9 DEF Browser, Count, List, Watch, Entries, Unwatch, Answered, Click, ClickAgain,
       MarkRead, CountApplied, ListApplied, MarkApplied, EntriesApplied, UnwatchApplied,
       AnswerLost, Applied, WatchApplied
  <2>2. CASE Count(r) \/ List(r) \/ Watch(r) \/ Entries(r) \/ Unwatch(r)
    BY <1>1, <1>2, <2>1, <2>2 DEF Count, List, Watch, Entries, Unwatch, Answered, UserBegins,
       Begins, Idle
  <2>3. ASSUME NEW i \in 1 .. Len(inbox[Buyer]), Click(r, i) PROVE Goal
    BY <1>1, <1>2, <2>1, <2>3 DEF Click, ClickAgain, MarkRead, UserBegins, Begins, Idle
  <2>4. CASE CountApplied(r) \/ ListApplied(r) \/ MarkApplied(r) \/ EntriesApplied(r)
             \/ UnwatchApplied(r) \/ AnswerLost(r)
    BY <1>1, <1>2, <2>1, <2>4 DEF CountApplied, ListApplied, MarkApplied, EntriesApplied,
       UnwatchApplied, AnswerLost, BrowserOp, Applied, Ends, Idle
  <2>5. CASE WatchApplied(r)
    <3>1. [req[r] EXCEPT !.op = "entries", !.flag = Listed].op # "announce"
      BY DEF TypeOK, AlertsTypeOK, Request
    <3> QED BY <1>1, <1>2, <2>1, <2>5, <3>1 DEF WatchApplied
  <2> QED BY <1>9, <2>2, <2>3, <2>4, <2>5 DEF Browser
<1>10. ASSUME NEW r \in Requests, AnnounceFails(r) PROVE Goal
  <2>1. /\ req'[r].op = "idle" /\ \A q \in Requests \ {r} : req'[q] = req[q]
        /\ failures' # failures /\ inbox' = inbox
    BY <1>10, LossIs DEF Idle
  <2>2. \A u \in Users : AlertsOf(u)' = AlertsOf(u)
    BY <1>1, <2>1
  <2>3. AlertsInv'
    <3>1. \A q \in Requests : req'[q].op = "announce" => \E l : req'[q].card = {l}
      BY <2>1 DEF AlertsInv
    <3> QED BY <2>2, <3>1, AlertsAssumption DEF AlertsInv
  <2>4. \A u \in Users : Cardinality(AlertsOf(u)') <= 1
    BY <2>2, OneIsFew DEF AlertsInv
  <2>5. \A u \in Users : AlertsStep(u)
    BY <2>1, <2>2, <2>4 DEF AlertsInv, AlertsStep
  <2> QED BY <2>3, <2>5
<1> QED BY <1>3, <1>4, <1>8, <1>9, <1>10 DEF Next

\* Whoever has a search that an announcement matches has exactly one alert from
\* then on, unless the announcement is lost, and the owner never has one.
THEOREM OneAlertEach == Spec => AlertedOnce
<1>1. TypeOK /\ AlertsInv /\ [Next]_inboxVars => AlertsInv'
  BY AlertsStepHolds
<1>2. TypeOK /\ AlertsInv /\ [Next]_inboxVars => [\A u \in Users : AlertsStep(u)]_inboxVars
  BY AlertsStepHolds
<1>3. [\A u \in Users : AlertsStep(u)]_inboxVars =>
        [\A u \in Users :
            /\ Cardinality(AlertsOf(u)') <= 1
            /\ u = Owner => AlertsOf(u)' = {}
            /\ \A r \in Requests :
                   req[r].op = "announce" /\ req'[r].op = "idle" /\ failures' = failures =>
                   \A l \in req[r].card, s \in SearchesOf(u) :
                       u # Owner /\ Matches(l, s.filter) => AlertsOf(u)' # {}]_inboxVars
  BY DEF AlertsStep
<1> QED BY InitAlerts, TypeCorrect, <1>1, <1>2, <1>3, PTL DEF Spec, AlertedOnce

----------------------------------------------------------------------------
(* One call at a time. *)

\* While no two calls of the users were in flight together, what one has read
\* of the buyer's inbox is still so when it is used.
AloneInv ==
    ~overlapped =>
        /\ \A r, q \in InFlight : r = q
        /\ \A r \in Requests :
            /\ req[r].op \in {"mark", "markall", "listed"} => req[r].rows \subseteq Unread(Buyer)
            /\ req[r].op = "mark" => req[r].rows \subseteq {req[r].n}

\* Rows that were read stay as they were, and rows that were not may be read.
RowsStand ==
    \A i \in DOMAIN inbox[Buyer] :
        /\ i \in DOMAIN inbox'[Buyer]
        /\ inbox[Buyer][i].read # 0 => inbox'[Buyer][i].read = inbox[Buyer][i].read

LEMMA InitAlone == Init => AloneInv
BY DEF Init, AlertsInit, AloneInv, InFlight, Idle

\* A call begins, alone or not.
LEMMA AloneBegins ==
    ASSUME TypeOK, AloneInv, NEW r \in Requests, NEW task, UserBegins(r, task), UNCHANGED inbox,
           task.op \in {"mark", "markall", "listed"} => task.rows \subseteq Unread(Buyer),
           task.op = "mark" => task.rows \subseteq {task.n}
    PROVE  AloneInv' /\ RowsStand
<1>1. /\ req'[r] = task /\ \A q \in Requests \ {r} : req'[q] = req[q]
      /\ overlapped' = (overlapped \/ InFlight # {})
  BY BecomesIs DEF UserBegins, TypeOK
<1>2. Unread(Buyer)' = Unread(Buyer)
  BY DEF Unread
<1>3. CASE ~overlapped'
  <2>1. InFlight = {} /\ ~overlapped
    BY <1>1, <1>3
  <2>2. InFlight' \subseteq {r}
    BY <1>1, <2>1 DEF InFlight
  <2> QED BY <1>1, <1>2, <2>1, <2>2 DEF AloneInv, RowsStand
<1> QED BY <1>3 DEF AloneInv, RowsStand

\* A call ends or goes on, and the unread rows stay unread but for those that it
\* stamps itself.
LEMMA AloneGoesOn ==
    ASSUME TypeOK, AloneInv, NEW r \in InFlight, NEW task, Becomes(r, task),
           UNCHANGED overlapped, task.op \notin {"mark", "markall", "listed"}
    PROVE  AloneInv'
<1>1. /\ r \in Requests
      /\ req'[r] = task /\ \A q \in Requests \ {r} : req'[q] = req[q]
  BY BecomesIs DEF InFlight, TypeOK
<1>2. InFlight' \subseteq InFlight
  BY <1>1 DEF InFlight
<1>3. ASSUME ~overlapped, NEW q \in Requests, q # r
      PROVE  req'[q].op \notin {"mark", "markall", "listed"}
  <2>1. q \notin InFlight
    BY <1>3 DEF AloneInv
  <2> QED BY <1>1, <1>3, <2>1 DEF InFlight
<1> QED BY <1>1, <1>2, <1>3 DEF AloneInv

\* A step of the server that is no user's: rows arrive, none is read.
LEMMA AloneServer ==
    ASSUME TypeOK, AloneInv, UNCHANGED overlapped,
           \A q \in Requests : \/ req'[q] = req[q]
                               \/ q \notin InFlight /\ req'[q].op \in {"idle", "approved", "announce"},
           RowsStand, Unread(Buyer) \subseteq Unread(Buyer)'
    PROVE  AloneInv'
<1>1. InFlight' \subseteq InFlight
  BY DEF InFlight
<1> QED BY <1>1 DEF AloneInv

\* Rows are appended: none changes.
LEMMA RowsArrive ==
    ASSUME TypeOK, \/ inbox'[Buyer] = inbox[Buyer]
                   \/ \E note \in Notification : inbox'[Buyer] = Append(inbox[Buyer], note)
    PROVE  RowsStand /\ Unread(Buyer) \subseteq Unread(Buyer)'
<1>1. inbox[Buyer] \in Seq(Notification)
  BY AlertsAssumption DEF TypeOK, AlertsTypeOK
<1>2. ASSUME NEW note \in Notification, inbox'[Buyer] = Append(inbox[Buyer], note)
      PROVE  \A i \in DOMAIN inbox[Buyer] :
                i \in DOMAIN inbox'[Buyer] /\ inbox'[Buyer][i] = inbox[Buyer][i]
  BY <1>1, <1>2, AppendIs
<1>3. \A i \in DOMAIN inbox[Buyer] :
        i \in DOMAIN inbox'[Buyer] /\ inbox'[Buyer][i] = inbox[Buyer][i]
  BY <1>2
<1> QED BY <1>3 DEF RowsStand, Unread

\* Unread rows are stamped.
LEMMA RowsStamped ==
    ASSUME TypeOK, NEW rows, Stamp(Buyer, rows), rows \subseteq Unread(Buyer)
    PROVE  RowsStand
BY StampIs, AlertsAssumption DEF TypeOK, RowsStand, Unread

LEMMA AloneStep ==
    ASSUME TypeOK, AloneInv, [Next]_inboxVars
    PROVE  AloneInv' /\ (~overlapped' => RowsStand)
<1> DEFINE Goal == AloneInv' /\ (~overlapped' => RowsStand)
<1>1. UNCHANGED inbox => RowsStand /\ Unread(Buyer)' = Unread(Buyer)
  BY DEF RowsStand, Unread
<1>2. CASE UNCHANGED inboxVars
  BY <1>1, <1>2, AloneServer DEF inboxVars, alertsVars
<1>3. CASE Elsewhere
  BY <1>1, <1>3, AloneServer DEF Elsewhere, Pause, Resume, Edit, SearchDelete
<1>4. ASSUME NEW r \in Requests, NEW task, UserBegins(r, task), UNCHANGED inbox,
             task.op \notin {"mark", "markall", "listed"}
      PROVE  Goal
  BY <1>4, AloneBegins
<1>5. ASSUME NEW r \in InFlight, NEW task, Becomes(r, task), UNCHANGED <<inbox, overlapped>>,
             task.op \notin {"mark", "markall", "listed"}
      PROVE  Goal
  BY <1>1, <1>5, AloneGoesOn
<1>6. Idle.op = "idle"
  BY DEF Idle
<1>7. ASSUME NEW r \in Requests, Server(r) PROVE Goal
  <2>1. ASSUME NEW u \in Users, SearchRead(r, u) PROVE Goal
    BY <1>4, <2>1 DEF SearchRead, Idle
  <2>2. ASSUME NEW f \in Filters, SearchWrite(r, f) PROVE Goal
    <3>1. r \in InFlight
      BY <2>2 DEF SearchWrite, InFlight
    <3> QED BY <1>5, <1>6, <2>2, <3>1 DEF SearchWrite, Ends
  <2>3. CASE Approve(r)
    <3>1. [Idle EXCEPT !.op = "approved"].op = "approved" /\ r \notin InFlight
      BY <2>3 DEF Approve, Begins, InFlight, Idle
    <3>2. /\ req'[r].op = "approved" /\ \A q \in Requests \ {r} : req'[q] = req[q]
          /\ UNCHANGED <<inbox, overlapped>>
      BY <2>3, <3>1, BecomesIs DEF Approve, TypeOK
    <3> QED BY <1>1, <3>1, <3>2, AloneServer
  <2>4. CASE Refresh(r)
    <3>1. [req[r] EXCEPT !.op = "announce", !.card = {facts}].op = "announce" /\ r \notin InFlight
      BY <2>4 DEF Refresh, InFlight, TypeOK, AlertsTypeOK, Request
    <3>2. /\ req'[r].op = "announce" /\ \A q \in Requests \ {r} : req'[q] = req[q]
          /\ UNCHANGED <<inbox, overlapped>>
      BY <2>4, <3>1, BecomesIs DEF Refresh, TypeOK
    <3> QED BY <1>1, <3>1, <3>2, AloneServer
  <2>5. CASE FanOut(r)
    <3>1. PICK l : inbox' = [u \in Users |-> inbox[u] \o NewAlerts(l, u)]
      BY <2>5 DEF FanOut
    <3>2. /\ Note("listing_matched") \in Notification
          /\ \/ inbox'[Buyer] = inbox[Buyer]
             \/ inbox'[Buyer] = Append(inbox[Buyer], Note("listing_matched"))
      BY <3>1, FanOutIs, AlertsAssumption DEF TypeOK, Note, Notification
    <3>3. /\ req'[r].op = "idle" /\ \A q \in Requests \ {r} : req'[q] = req[q]
          /\ r \notin InFlight /\ UNCHANGED overlapped
      BY <1>6, <2>5, BecomesIs DEF FanOut, Ends, TypeOK, InFlight
    <3> QED BY <3>2, <3>3, RowsArrive, AloneServer
  <2>6. CASE Arrive(r)
    <3>1. /\ Note("other") \in Notification
          /\ inbox'[Buyer] = Append(inbox[Buyer], Note("other"))
          /\ UNCHANGED <<req, overlapped>>
      BY <2>6, AlertsAssumption DEF Arrive, TypeOK, AlertsTypeOK, Note, Notification
    <3> QED BY <3>1, RowsArrive, AloneServer
  <2>7. CASE MarkWrite(r)
    <3>1. r \in InFlight
      BY <2>7 DEF MarkWrite, InFlight
    <3>2. [req[r] EXCEPT !.op = "marked"].op = "marked"
      BY DEF TypeOK, AlertsTypeOK, Request
    <3>3. ~overlapped => RowsStand
      BY <2>7, RowsStamped DEF MarkWrite, StampOnce, AloneInv
    <3> QED BY <2>7, <3>1, <3>2, <3>3, AloneGoesOn DEF MarkWrite
  <2>8. CASE ReadAll(r)
    <3> DEFINE task == [Idle EXCEPT !.op = "markall", !.user = Buyer, !.rows = Unread(Buyer)]
    <3>1. task.op = "markall" /\ task.rows = Unread(Buyer)
      BY DEF Idle
    <3>2. UserBegins(r, task) /\ UNCHANGED inbox
      BY <2>8 DEF ReadAll
    <3> HIDE DEF task
    <3> QED BY <3>1, <3>2, AloneBegins
  <2>9. CASE ReadAllWrite(r)
    <3>1. r \in InFlight
      BY <2>9 DEF ReadAllWrite, InFlight
    <3>2. ~overlapped => RowsStand
      BY <2>9, RowsStamped DEF ReadAllWrite, AloneInv
    <3> QED BY <1>6, <2>9, <3>1, <3>2, AloneGoesOn DEF ReadAllWrite, Ends
  <2> QED BY <1>7, <2>1, <2>2, <2>3, <2>4, <2>5, <2>6, <2>7, <2>8, <2>9 DEF Server
<1>8. ASSUME NEW r \in Requests, Browser(r) PROVE Goal
  <2>1. CASE Count(r) \/ Watch(r) \/ Entries(r) \/ Unwatch(r)
    BY <1>4, <2>1 DEF Count, Watch, Entries, Unwatch, Answered, Idle
  <2>2. CASE List(r)
    <3> DEFINE task == [Idle EXCEPT !.op = "listed", !.user = Buyer, !.rows = Unread(Buyer)]
    <3>1. task.op = "listed" /\ task.rows = Unread(Buyer)
      BY DEF Idle
    <3>2. UserBegins(r, task) /\ UNCHANGED inbox
      BY <2>2 DEF List, Answered
    <3> HIDE DEF task
    <3> QED BY <3>1, <3>2, AloneBegins
  <2>3. ASSUME NEW i \in 1 .. Len(inbox[Buyer]), Click(r, i) PROVE Goal
    <3> DEFINE task == [Idle EXCEPT !.op = "mark", !.user = Buyer, !.n = i,
                                    !.rows = Unread(Buyer) \cap {i}]
    <3>1. task.op = "mark" /\ task.n = i /\ task.rows = Unread(Buyer) \cap {i}
      BY DEF Idle
    <3>2. UserBegins(r, task) /\ UNCHANGED inbox
      BY <2>3 DEF Click, ClickAgain, MarkRead
    <3> HIDE DEF task
    <3> QED BY <3>1, <3>2, AloneBegins
  <2>4. CASE CountApplied(r) \/ ListApplied(r) \/ MarkApplied(r) \/ EntriesApplied(r)
             \/ UnwatchApplied(r) \/ AnswerLost(r)
    <3>1. r \in InFlight
      BY <2>4 DEF CountApplied, ListApplied, MarkApplied, EntriesApplied, UnwatchApplied,
         AnswerLost, BrowserOp, InFlight
    <3> QED BY <1>5, <1>6, <2>4, <3>1 DEF CountApplied, ListApplied, MarkApplied,
            EntriesApplied, UnwatchApplied, AnswerLost, Applied, Ends
  <2>5. CASE WatchApplied(r)
    <3>1. r \in InFlight
      BY <2>5 DEF WatchApplied, InFlight
    <3>2. [req[r] EXCEPT !.op = "entries", !.flag = Listed].op = "entries"
      BY DEF TypeOK, AlertsTypeOK, Request
    <3> QED BY <1>5, <2>5, <3>1, <3>2 DEF WatchApplied
  <2> QED BY <1>8, <2>1, <2>2, <2>3, <2>4, <2>5 DEF Browser
<1>9. ASSUME NEW r \in Requests, AnnounceFails(r) PROVE Goal
  <2>1. /\ req'[r].op = "idle" /\ \A q \in Requests \ {r} : req'[q] = req[q]
        /\ r \notin InFlight /\ UNCHANGED <<inbox, overlapped>>
    BY <1>6, <1>9, LossIs DEF InFlight
  <2> QED BY <1>1, <2>1, AloneServer
<1> QED BY <1>2, <1>3, <1>7, <1>8, <1>9 DEF Next

LEMMA AloneHolds == Spec => []AloneInv
<1>1. TypeOK /\ AloneInv /\ [Next]_inboxVars => AloneInv'
  BY AloneStep
<1> QED BY InitAlone, TypeCorrect, <1>1, PTL DEF Spec

\* From calls made one at a time, the moment a notification was first seen is
\* not rewritten.
THEOREM FirstReadIsKept == Spec => FirstReadStands
<1>1. TypeOK /\ AloneInv /\ [Next]_inboxVars => [~overlapped' => RowsStand]_inboxVars
  BY AloneStep
<1>2. [~overlapped' => RowsStand]_inboxVars =>
        [~overlapped' =>
          \A i \in DOMAIN inbox[Buyer] :
              inbox[Buyer][i].read # 0 => inbox'[Buyer][i].read = inbox[Buyer][i].read]_inboxVars
  BY DEF RowsStand
<1> QED BY TypeCorrect, AloneHolds, <1>1, <1>2, PTL DEF Spec, FirstReadStands

----------------------------------------------------------------------------
(* The badge. *)

\* What the badge and the shown rows are while a count or a receipt is in flight
\* and otherwise, from calls made one at a time and nothing missed.
BadgeInv ==
    ~overlapped /\ current =>
        /\ (\A r \in Requests : req[r].op \notin {"counted", "marked"}) =>
               badge = Cardinality(Unread(Buyer)) /\ shown \subseteq Unread(Buyer)
        /\ \A r \in Requests :
            /\ req[r].op # "markall"
            /\ req[r].op = "mark" => req[r].n \in req[r].rows
            /\ req[r].op = "counted" => /\ req[r].n = Cardinality(Unread(Buyer))
                                        /\ shown \subseteq Unread(Buyer)
            /\ req[r].op = "marked" => /\ badge = Cardinality(Unread(Buyer)) + 1
                                       /\ shown \subseteq Unread(Buyer) \cup {req[r].n}

BadgeOp == {"mark", "markall", "counted", "marked"}

LEMMA InitBadge == Init => BadgeInv
<1> SUFFICES ASSUME Init PROVE BadgeInv
  OBVIOUS
<1>1. inbox[Buyer] = <<>>
  BY AlertsAssumption DEF Init, AlertsInit
<1>2. Unread(Buyer) = {}
  BY <1>1 DEF Unread
<1>3. Cardinality(Unread(Buyer)) = 0
  BY <1>2, FS_EmptySet
<1> QED BY <1>2, <1>3 DEF Init, AlertsInit, BadgeInv, Idle

\* A step that is about neither the badge nor the buyer's rows.
LEMMA BadgeSame ==
    ASSUME BadgeInv, ~overlapped' => ~overlapped, current' => current,
           current' => Unread(Buyer)' = Unread(Buyer), UNCHANGED <<badge, shown>>,
           \A q \in Requests : \/ req'[q] = req[q]
                               \/ req[q].op \notin BadgeOp /\ req'[q].op \notin BadgeOp
                               \/ req[q].op \notin {"counted", "marked"} /\ req'[q].op \notin BadgeOp
    PROVE  BadgeInv'
<1>1. CASE ~overlapped' /\ current'
  <2>1. (\A q \in Requests : req'[q].op \notin {"counted", "marked"})
        => \A q \in Requests : req[q].op \notin {"counted", "marked"}
    BY DEF BadgeOp
  <2>2. \A q \in Requests : req'[q].op \in BadgeOp => req'[q] = req[q]
    OBVIOUS
  <2> QED BY <1>1, <2>1, <2>2 DEF BadgeInv, BadgeOp
<1> QED BY <1>1 DEF BadgeInv

\* A request of the server or of a user begins, or goes on, or ends, that is
\* about neither.
LEMMA BadgeOther ==
    ASSUME TypeOK, BadgeInv, NEW r \in Requests, NEW task, Becomes(r, task),
           req[r].op \notin {"counted", "marked"}, task.op \notin BadgeOp,
           ~overlapped' => ~overlapped, current' => current,
           current' => Unread(Buyer)' = Unread(Buyer), UNCHANGED <<badge, shown>>
    PROVE  BadgeInv'
<1>1. req'[r] = task /\ \A q \in Requests \ {r} : req'[q] = req[q]
  BY BecomesIs DEF TypeOK
<1> QED BY <1>1, BadgeSame

\* Alone, r is the only one in flight.
LEMMA OnlyOne ==
    ASSUME TypeOK, AloneInv, ~overlapped, NEW r \in InFlight, NEW task, Becomes(r, task)
    PROVE  /\ r \in Requests
           /\ req'[r] = task
           /\ \A q \in Requests \ {r} : req'[q].op \in {"idle", "approved", "announce"}
<1>1. \A q \in Requests \ {r} : q \notin InFlight
  BY DEF AloneInv
<1>2. \A q \in Requests \ {r} : req[q].op \in {"idle", "approved", "announce"}
  BY <1>1 DEF InFlight
<1> QED BY <1>2, BecomesIs DEF InFlight, TypeOK

LEMMA OnlyOneBegins ==
    ASSUME TypeOK, ~overlapped', NEW r \in Requests, NEW task, UserBegins(r, task)
    PROVE  /\ ~overlapped
           /\ req'[r] = task
           /\ \A q \in Requests : req[q].op \in {"idle", "approved", "announce"}
           /\ \A q \in Requests \ {r} : req'[q].op \in {"idle", "approved", "announce"}
<1>1. InFlight = {} /\ ~overlapped
  BY DEF UserBegins
<1>2. \A q \in Requests : req[q].op \in {"idle", "approved", "announce"}
  BY <1>1 DEF InFlight
<1> QED BY <1>1, <1>2, BecomesIs DEF UserBegins, TypeOK

LEMMA BadgeStep ==
    ASSUME TypeOK, AloneInv, BadgeInv, [Next]_inboxVars
    PROVE  BadgeInv'
<1> DEFINE U == Unread(Buyer)
<1>1. UNCHANGED inbox => U' = U
  BY DEF Unread
<1>2. CASE UNCHANGED inboxVars
  BY <1>1, <1>2, BadgeSame DEF inboxVars, alertsVars, browserVars
<1>3. CASE Elsewhere
  BY <1>1, <1>3, BadgeSame DEF Elsewhere, Pause, Resume, Edit, SearchDelete, browserVars
<1>4. Cardinality(U) \in Nat /\ IsFiniteSet(U)
  BY UnreadFinite DEF TypeOK
<1>5. Idle.op \notin BadgeOp
  BY DEF Idle, BadgeOp
<1>6. CASE ~(~overlapped' /\ current')
  BY <1>6 DEF BadgeInv
<1>7. ASSUME NEW r \in Requests, Server(r), ~overlapped', current' PROVE BadgeInv'
  <2>1. /\ current /\ Len(inbox'[Buyer]) = Len(inbox[Buyer]) /\ req'[r].op # "markall"
        /\ UNCHANGED <<badge, shown>>
    BY <1>7 DEF Server
  <2>2. ASSUME NEW u \in Users, SearchRead(r, u) PROVE BadgeInv'
    BY <1>1, <1>7, <2>1, <2>2, BadgeOther DEF SearchRead, UserBegins, Begins, Idle, BadgeOp
  <2>3. ASSUME NEW f \in Filters, SearchWrite(r, f) PROVE BadgeInv'
    BY <1>1, <1>5, <2>1, <2>3, BadgeOther DEF SearchWrite, Ends
  <2>4. CASE Approve(r)
    BY <1>1, <2>1, <2>4, BadgeOther DEF Approve, Begins, Idle, BadgeOp
  <2>5. CASE Refresh(r)
    <3>1. [req[r] EXCEPT !.op = "announce", !.card = {facts}].op = "announce"
      BY DEF TypeOK, AlertsTypeOK, Request
    <3> QED BY <1>1, <2>1, <2>5, <3>1, BadgeOther DEF Refresh, BadgeOp
  <2>6. inbox[Buyer] \in Seq(Notification) /\ Buyer \in Users
    BY AlertsAssumption DEF TypeOK, AlertsTypeOK
  <2>7. ASSUME NEW note \in Notification PROVE inbox'[Buyer] # Append(inbox[Buyer], note)
    <3>1. Len(Append(inbox[Buyer], note)) = Len(inbox[Buyer]) + 1 /\ Len(inbox[Buyer]) \in Nat
      BY <2>6, AppendIs
    <3>2. Len(Append(inbox[Buyer], note)) # Len(inbox[Buyer])
      BY <3>1, SMT
    <3> QED BY <2>1, <3>2
  <2>8. CASE FanOut(r)
    <3>1. PICK l : inbox' = [u \in Users |-> inbox[u] \o NewAlerts(l, u)]
      BY <2>8 DEF FanOut
    <3>2. /\ Note("listing_matched") \in Notification
          /\ \/ inbox'[Buyer] = inbox[Buyer]
             \/ inbox'[Buyer] = Append(inbox[Buyer], Note("listing_matched"))
      BY <2>6, <3>1, FanOutIs DEF TypeOK, Note, Notification
    <3>3. U' = U
      BY <2>7, <3>2 DEF Unread
    <3> QED BY <1>5, <2>1, <2>8, <3>3, BadgeOther DEF FanOut, Ends
  <2>9. CASE Arrive(r)
    <3>1. Note("other") \in Notification /\ inbox'[Buyer] = Append(inbox[Buyer], Note("other"))
      BY <2>9, AlertsAssumption DEF Arrive, TypeOK, AlertsTypeOK, Note, Notification
    <3> QED BY <2>7, <3>1
  <2>10. CASE MarkWrite(r)
    <3> DEFINE task == [req[r] EXCEPT !.op = "marked"]
    <3>1. task.op = "marked" /\ task.n = req[r].n
      BY DEF TypeOK, AlertsTypeOK, Request
    <3>2. Becomes(r, task) /\ ~overlapped /\ r \in InFlight
      BY <1>7, <2>10 DEF MarkWrite, InFlight
    <3> HIDE DEF task
    <3>3. /\ req'[r] = task
          /\ \A q \in Requests \ {r} : req'[q].op \in {"idle", "approved", "announce"}
      BY <3>2, OnlyOne
    <3>4. req[r].rows = {req[r].n} /\ req[r].n \in U
      BY <1>7, <2>1, <2>10, <3>2 DEF MarkWrite, AloneInv, BadgeInv
    <3>5. \A q \in Requests : req[q].op \notin {"counted", "marked"}
      BY <2>10, <3>2 DEF MarkWrite, AloneInv, InFlight
    <3>6. badge = Cardinality(U) /\ shown \subseteq U
      BY <2>1, <3>2, <3>5 DEF BadgeInv
    <3>7. U' = U \ {req[r].n}
      BY <2>10, <3>4, StampIs DEF MarkWrite, StampOnce, TypeOK
    <3>8. Cardinality(U') = Cardinality(U) - 1
      BY <1>4, <3>4, <3>7, FS_RemoveElement
    <3>9. badge' = Cardinality(U') + 1
      BY <1>4, <2>1, <3>6, <3>8, SMT
    <3>10. shown' \subseteq U' \cup {req[r].n}
      BY <2>1, <3>6, <3>7
    <3> HIDE DEF U
    <3> QED BY <3>1, <3>3, <3>9, <3>10 DEF BadgeInv, U
  <2>11. CASE ReadAll(r)
    <3> DEFINE task == [Idle EXCEPT !.op = "markall", !.user = Buyer, !.rows = U]
    <3>1. task.op = "markall"
      BY DEF Idle
    <3>2. Becomes(r, task)
      BY <2>11 DEF ReadAll, UserBegins
    <3> HIDE DEF task
    <3> QED BY <2>1, <3>1, <3>2, BecomesIs DEF TypeOK
  <2>12. CASE ReadAllWrite(r)
    BY <1>7, <2>1, <2>12 DEF ReadAllWrite, BadgeInv
  <2> QED BY <1>7, <2>2, <2>3, <2>4, <2>5, <2>8, <2>9, <2>10, <2>11, <2>12 DEF Server
<1>8. ASSUME NEW r \in Requests, Browser(r), ~overlapped', current' PROVE BadgeInv'
  <2>1. inbox' = inbox /\ U' = U
    <3>1. inbox' = inbox
      BY <1>8 DEF Browser, Count, List, Watch, Entries, Unwatch, Answered, Click, ClickAgain,
       MarkRead, CountApplied, ListApplied, MarkApplied, EntriesApplied, UnwatchApplied,
       AnswerLost, Applied, WatchApplied
    <3> QED BY <1>1, <3>1
  <2>2. ASSUME NEW task, Becomes(r, task), r \in InFlight, UNCHANGED overlapped
        PROVE  /\ req'[r] = task /\ ~overlapped
               /\ \A q \in Requests \ {r} : req'[q].op \in {"idle", "approved", "announce"}
    BY <1>8, <2>2, OnlyOne
  <2>3. CASE Count(r)
    <3> DEFINE task == [Idle EXCEPT !.op = "counted", !.user = Buyer, !.n = Cardinality(U)]
    <3>1. task.op = "counted" /\ task.n = Cardinality(U)
      BY DEF Idle
    <3>2. UserBegins(r, task) /\ shown \subseteq U /\ UNCHANGED <<badge, shown>>
      BY <1>8, <2>3 DEF Count, Answered
    <3> HIDE DEF task
    <3>3. /\ req'[r] = task
          /\ \A q \in Requests \ {r} : req'[q].op \in {"idle", "approved", "announce"}
      BY <1>8, <3>2, OnlyOneBegins
    <3> QED BY <2>1, <3>1, <3>2, <3>3 DEF BadgeInv
  <2>4. CASE CountApplied(r)
    <3>1. /\ req[r].op = "counted" /\ badge' = req[r].n /\ Becomes(r, Idle) /\ r \in InFlight
          /\ UNCHANGED <<overlapped, shown, current>>
      BY <2>4 DEF CountApplied, Applied, Ends, InFlight
    <3>2. badge' = Cardinality(U) /\ shown \subseteq U
      BY <1>8, <2>2, <3>1 DEF BadgeInv
    <3> QED BY <1>5, <2>1, <2>2, <3>1, <3>2 DEF BadgeInv, BadgeOp
  <2>5. CASE List(r) \/ Watch(r) \/ Entries(r) \/ Unwatch(r)
    BY <1>8, <2>1, <2>5, BadgeOther DEF List, Watch, Entries, Unwatch, Answered, UserBegins,
       Begins, Idle, BadgeOp, browserVars
  <2>6. CASE ListApplied(r)
    <3>1. /\ req[r].op = "listed" /\ shown' = req[r].rows /\ Becomes(r, Idle) /\ r \in InFlight
          /\ UNCHANGED <<overlapped, badge, current>>
      BY <2>6 DEF ListApplied, Applied, Ends, InFlight
    <3>2. \A q \in Requests : req[q].op \notin {"counted", "marked"}
      BY <2>2, <3>1 DEF AloneInv, InFlight
    <3>3. badge = Cardinality(U) /\ req[r].rows \subseteq U
      BY <1>8, <2>2, <3>1, <3>2 DEF BadgeInv, AloneInv
    <3> QED BY <1>5, <2>1, <2>2, <3>1, <3>3 DEF BadgeInv, BadgeOp
  <2>7. ASSUME NEW i \in 1 .. Len(inbox[Buyer]), Click(r, i) PROVE BadgeInv'
    <3> DEFINE task == [Idle EXCEPT !.op = "mark", !.user = Buyer, !.n = i, !.rows = U \cap {i}]
    <3>1. task.op = "mark" /\ task.n = i /\ task.rows = U \cap {i}
      BY DEF Idle
    <3>2. UserBegins(r, task) /\ i \in shown /\ UNCHANGED <<badge, shown, current>>
      BY <2>7 DEF Click, ClickAgain, MarkRead, browserVars
    <3> HIDE DEF task
    <3>3. /\ req'[r] = task /\ ~overlapped
          /\ \A q \in Requests : req[q].op \in {"idle", "approved", "announce"}
          /\ \A q \in Requests \ {r} : req'[q].op \in {"idle", "approved", "announce"}
      BY <1>8, <3>2, OnlyOneBegins
    <3>4. badge = Cardinality(U) /\ shown \subseteq U
      BY <1>8, <3>2, <3>3 DEF BadgeInv
    <3>5. req'[r].op = "mark" /\ req'[r].n \in req'[r].rows
      BY <3>1, <3>2, <3>3, <3>4
    <3> QED BY <2>1, <3>2, <3>3, <3>4, <3>5 DEF BadgeInv
  <2>8. CASE MarkApplied(r)
    <3>1. /\ req[r].op = "marked" /\ shown' = shown \ {req[r].n} /\ badge' = Decremented
          /\ Becomes(r, Idle) /\ r \in InFlight /\ UNCHANGED <<overlapped, current>>
      BY <2>8 DEF MarkApplied, Applied, Ends, InFlight
    <3>2. badge = Cardinality(U) + 1 /\ shown \subseteq U \cup {req[r].n}
      BY <1>8, <2>2, <3>1 DEF BadgeInv
    <3>3. badge' = Cardinality(U)
      BY <1>4, <3>1, <3>2, SMT DEF Decremented
    <3>4. shown' \subseteq U
      BY <3>1, <3>2
    <3> QED BY <1>5, <2>1, <2>2, <3>1, <3>3, <3>4 DEF BadgeInv, BadgeOp
  <2>9. CASE EntriesApplied(r) \/ UnwatchApplied(r)
    BY <1>5, <2>1, <2>9, BadgeOther DEF EntriesApplied, UnwatchApplied, Applied, Ends
  <2>10. CASE WatchApplied(r)
    <3>1. [req[r] EXCEPT !.op = "entries", !.flag = Listed].op = "entries"
      BY DEF TypeOK, AlertsTypeOK, Request
    <3> QED BY <2>1, <2>10, <3>1, BadgeOther DEF WatchApplied, BadgeOp, browserVars
  <2>11. CASE AnswerLost(r)
    BY <1>8, <2>11 DEF AnswerLost
  <2> QED BY <1>8, <2>3, <2>4, <2>5, <2>6, <2>7, <2>8, <2>9, <2>10, <2>11 DEF Browser
<1>9. ASSUME NEW r \in Requests, AnnounceFails(r) PROVE BadgeInv'
  <2>1. /\ Becomes(r, Idle) /\ req[r].op \notin {"counted", "marked"}
        /\ UNCHANGED <<inbox, overlapped, badge, shown, current>>
    BY <1>9, LossIs
  <2> QED BY <1>1, <1>5, <2>1, BadgeOther
<1> QED BY <1>2, <1>3, <1>6, <1>7, <1>8, <1>9 DEF Next

----------------------------------------------------------------------------
(* The heart. *)

HeartInv ==
    ~overlapped /\ failures = 0 =>
        /\ heart => watched \/ \E r \in Requests : req[r].op = "unwatched"
        /\ \A r \in Requests : req[r].op = "entries" /\ req[r].flag => watched
        /\ \A r \in Requests : req[r].op = "watched" => watched

LEMMA InitHeart == Init => HeartInv
BY DEF Init, AlertsInit, HeartInv, Idle

HeartOp == {"watched", "entries", "unwatched"}

\* A step that is not about the watchlist.
LEMMA HeartSame ==
    ASSUME HeartInv, ~overlapped' => ~overlapped, failures' = 0 => failures = 0,
           UNCHANGED <<watched, heart>>,
           \A q \in Requests : \/ req'[q] = req[q]
                               \/ req[q].op # "unwatched" /\ req'[q].op \notin HeartOp
    PROVE  HeartInv'
<1>1. CASE ~overlapped' /\ failures' = 0
  <2>1. \A q \in Requests : req'[q].op \in HeartOp => req'[q] = req[q]
    OBVIOUS
  <2>2. (\E q \in Requests : req[q].op = "unwatched")
        => \E q \in Requests : req'[q].op = "unwatched"
    OBVIOUS
  <2> QED BY <1>1, <2>1, <2>2 DEF HeartInv, HeartOp
<1> QED BY <1>1 DEF HeartInv

LEMMA HeartOther ==
    ASSUME TypeOK, HeartInv, NEW r \in Requests, NEW task, Becomes(r, task),
           req[r].op # "unwatched", task.op \notin HeartOp,
           ~overlapped' => ~overlapped, failures' = 0 => failures = 0, UNCHANGED <<watched, heart>>
    PROVE  HeartInv'
<1>1. req'[r] = task /\ \A q \in Requests \ {r} : req'[q] = req[q]
  BY BecomesIs DEF TypeOK
<1> QED BY <1>1, HeartSame

LEMMA HeartStep ==
    ASSUME TypeOK, AloneInv, HeartInv, [Next]_inboxVars
    PROVE  HeartInv'
<1>1. Idle.op \notin HeartOp
  BY DEF Idle, HeartOp
<1>2. CASE UNCHANGED inboxVars
  BY <1>2, HeartSame DEF inboxVars, alertsVars, browserVars
<1>3. CASE Elsewhere
  BY <1>3, HeartSame DEF Elsewhere, Pause, Resume, Edit, SearchDelete, browserVars
<1>4. CASE ~(~overlapped' /\ failures' = 0)
  BY <1>4 DEF HeartInv
<1>5. ASSUME NEW r \in Requests, Server(r) PROVE HeartInv'
  <2>1. UNCHANGED <<watched, heart, failures>>
    BY <1>5 DEF Server
  <2>2. ASSUME NEW u \in Users, SearchRead(r, u) PROVE HeartInv'
    BY <2>1, <2>2, HeartOther DEF SearchRead, UserBegins, Begins, Idle, HeartOp
  <2>3. ASSUME NEW f \in Filters, SearchWrite(r, f) PROVE HeartInv'
    BY <1>1, <2>1, <2>3, HeartOther DEF SearchWrite, Ends
  <2>4. CASE Approve(r) \/ ReadAll(r)
    <3>1. CASE Approve(r)
      BY <2>1, <3>1, HeartOther DEF Approve, Begins, Idle, HeartOp
    <3>2. CASE ReadAll(r)
      BY <2>1, <3>2, HeartOther DEF ReadAll, UserBegins, Begins, Idle, HeartOp
    <3> QED BY <2>4, <3>1, <3>2
  <2>5. CASE Refresh(r)
    <3>1. [req[r] EXCEPT !.op = "announce", !.card = {facts}].op = "announce"
      BY DEF TypeOK, AlertsTypeOK, Request
    <3> QED BY <2>1, <2>5, <3>1, HeartOther DEF Refresh, HeartOp
  <2>6. CASE FanOut(r) \/ ReadAllWrite(r)
    BY <1>1, <2>1, <2>6, HeartOther DEF FanOut, ReadAllWrite, Ends
  <2>7. CASE Arrive(r)
    BY <2>1, <2>7, HeartSame DEF Arrive
  <2>8. CASE MarkWrite(r)
    <3>1. [req[r] EXCEPT !.op = "marked"].op = "marked"
      BY DEF TypeOK, AlertsTypeOK, Request
    <3> QED BY <2>1, <2>8, <3>1, HeartOther DEF MarkWrite, HeartOp
  <2> QED BY <1>5, <2>2, <2>3, <2>4, <2>5, <2>6, <2>7, <2>8 DEF Server
<1>6. ASSUME NEW r \in Requests, Browser(r), ~overlapped', failures' = 0 PROVE HeartInv'
  <2>1. ASSUME NEW task, Becomes(r, task), r \in InFlight, UNCHANGED overlapped
        PROVE  /\ req'[r] = task /\ ~overlapped
               /\ \A q \in Requests \ {r} : req'[q].op \in {"idle", "approved", "announce"}
    BY <1>6, <2>1, OnlyOne
  <2>2. CASE Count(r) \/ List(r)
    BY <2>2, HeartOther DEF Count, List, Answered, UserBegins, Begins, Idle, HeartOp, browserVars
  <2>3. ASSUME NEW i \in 1 .. Len(inbox[Buyer]), Click(r, i) PROVE HeartInv'
    BY <2>3, HeartOther DEF Click, ClickAgain, MarkRead, UserBegins, Begins, Idle, HeartOp,
       browserVars
  <2>4. CASE CountApplied(r) \/ ListApplied(r) \/ MarkApplied(r)
    BY <1>1, <2>4, HeartOther DEF CountApplied, ListApplied, MarkApplied, Applied, Ends
  <2>5. CASE Watch(r)
    <3> DEFINE task == [Idle EXCEPT !.op = "watched", !.user = Buyer]
    <3>1. task.op = "watched"
      BY DEF Idle
    <3>2. UserBegins(r, task) /\ watched' /\ UNCHANGED <<heart, failures>>
      BY <2>5 DEF Watch, Answered
    <3> HIDE DEF task
    <3>3. /\ req'[r] = task
          /\ \A q \in Requests \ {r} : req'[q].op \in {"idle", "approved", "announce"}
      BY <1>6, <3>2, OnlyOneBegins
    <3> QED BY <3>1, <3>2, <3>3 DEF HeartInv
  <2>6. CASE WatchApplied(r)
    <3> DEFINE task == [req[r] EXCEPT !.op = "entries", !.flag = Listed]
    <3>1. task.op = "entries"
      BY DEF TypeOK, AlertsTypeOK, Request
    <3>2. /\ Becomes(r, task) /\ r \in InFlight /\ req[r].op = "watched"
          /\ UNCHANGED <<overlapped, heart, failures, watched>>
      BY <2>6 DEF WatchApplied, InFlight, browserVars
    <3> HIDE DEF task
    <3>3. watched'
      BY <1>6, <2>1, <3>2 DEF HeartInv
    <3> QED BY <2>1, <3>1, <3>2, <3>3 DEF HeartInv
  <2>7. CASE Entries(r)
    <3> DEFINE task == [Idle EXCEPT !.op = "entries", !.user = Buyer, !.flag = Listed]
    <3>1. task.op = "entries" /\ (task.flag => watched)
      BY DEF Idle, Listed
    <3>2. UserBegins(r, task) /\ UNCHANGED <<heart, failures, watched>>
      BY <2>7 DEF Entries, Answered, browserVars
    <3> HIDE DEF task
    <3>3. /\ req'[r] = task /\ ~overlapped
          /\ \A q \in Requests : req[q].op \in {"idle", "approved", "announce"}
          /\ \A q \in Requests \ {r} : req'[q].op \in {"idle", "approved", "announce"}
      BY <1>6, <3>2, OnlyOneBegins
    <3>4. heart => watched
      BY <1>6, <3>2, <3>3 DEF HeartInv
    <3> QED BY <3>1, <3>2, <3>3, <3>4 DEF HeartInv
  <2>8. CASE EntriesApplied(r)
    <3>1. /\ req[r].op = "entries" /\ heart' = req[r].flag /\ Becomes(r, Idle) /\ r \in InFlight
          /\ UNCHANGED <<overlapped, failures, watched>>
      BY <2>8 DEF EntriesApplied, Applied, Ends, InFlight
    <3>2. heart' => watched
      BY <1>6, <2>1, <3>1 DEF HeartInv
    <3> QED BY <1>1, <2>1, <3>1, <3>2 DEF HeartInv, HeartOp
  <2>9. CASE Unwatch(r)
    <3> DEFINE task == [Idle EXCEPT !.op = "unwatched", !.user = Buyer]
    <3>1. task.op = "unwatched"
      BY DEF Idle
    <3>2. UserBegins(r, task)
      BY <2>9 DEF Unwatch, Answered
    <3> HIDE DEF task
    <3>3. /\ req'[r] = task
          /\ \A q \in Requests \ {r} : req'[q].op \in {"idle", "approved", "announce"}
      BY <1>6, <3>2, OnlyOneBegins
    <3> QED BY <3>1, <3>3 DEF HeartInv
  <2>10. CASE UnwatchApplied(r)
    <3>1. /\ heart' = FALSE /\ Becomes(r, Idle) /\ r \in InFlight /\ UNCHANGED overlapped
      BY <2>10 DEF UnwatchApplied, Applied, Ends, InFlight
    <3> QED BY <1>1, <2>1, <3>1 DEF HeartInv, HeartOp
  <2>11. CASE AnswerLost(r)
    <3>1. failures' # 0
      BY <2>11, InboxAssumption, SMT DEF AnswerLost, TypeOK
    <3> QED BY <1>6, <3>1
  <2> QED BY <1>6, <2>2, <2>3, <2>4, <2>5, <2>6, <2>7, <2>8, <2>9, <2>10, <2>11 DEF Browser
<1>7. ASSUME NEW r \in Requests, AnnounceFails(r) PROVE HeartInv'
  BY <1>4, <1>7, LossIs
<1> QED BY <1>2, <1>3, <1>4, <1>5, <1>6, <1>7 DEF Next

\* From calls made one at a time and answered, the badge counts the unread rows
\* and no heart shows for a listing that is not on the watchlist.
THEOREM BrowserKeepsUp == Spec => []BrowserAgrees
<1>1. TypeOK /\ AloneInv /\ BadgeInv /\ [Next]_inboxVars => BadgeInv'
  BY BadgeStep
<1>2. TypeOK /\ AloneInv /\ HeartInv /\ [Next]_inboxVars => HeartInv'
  BY HeartStep
<1>3. BadgeInv /\ HeartInv => BrowserAgrees
  <2> SUFFICES ASSUME BadgeInv, HeartInv, ~overlapped, InFlight = {}
               PROVE  /\ current => badge = Cardinality(Unread(Buyer))
                      /\ failures = 0 /\ heart => watched
    BY DEF BrowserAgrees
  <2>1. \A r \in Requests : req[r].op \notin {"counted", "marked", "unwatched"}
    BY DEF InFlight
  <2> QED BY <2>1 DEF BadgeInv, HeartInv
<1> QED BY InitBadge, InitHeart, TypeCorrect, AloneHolds, <1>1, <1>2, <1>3, PTL DEF Spec
=============================================================================
