----------------------------- MODULE DataLemmas -----------------------------
(***************************************************************************)
(* Facts about sequences, their stretches and prefixes, and about sets of  *)
(* numbers that the proofs cite.                                           *)
(***************************************************************************)
EXTENDS Integers, Sequences, FiniteSets, SequencesExt, SequenceTheorems, FiniteSetTheorems,
        WellFoundedInduction, TLAPS

(* A sequence is a prefix of any that continues it: bytes already released *)
(* stay released when a handler appends to them.                           *)
LEMMA ConcatIsPrefix ==
  ASSUME NEW S, NEW s \in Seq(S), NEW t \in Seq(S)
  PROVE  IsPrefix(s, s \o t)
<1>1. /\ s \o t \in Seq(S)
      /\ Len(s \o t) = Len(s) + Len(t)
      /\ Len(s) \in Nat /\ Len(t) \in Nat
  BY ConcatProperties, LenProperties
<1>2. \A i \in 1..Len(s) : (s \o t)[i] = s[i]
  BY <1>1, ConcatProperties
<1>3. /\ SubSeq(s \o t, 1, Len(s)) \in Seq(S) /\ Len(SubSeq(s \o t, 1, Len(s))) = Len(s)
      /\ \A i \in 1..Len(s) : SubSeq(s \o t, 1, Len(s))[i] = (s \o t)[i]
  <2>1. \A i \in 1..Len(s) : (s \o t)[i] \in S
    BY <1>1, <1>2, ElementOfSeq
  <2> QED  BY <2>1, <1>1, SubSeqProperties
<1>4. SubSeq(s \o t, 1, Len(s)) = s
  BY <1>2, <1>3, SeqEqual
<1>5. SubSeq(s, 1, Len(s)) = s
  BY SubSeqFull
<1> QED  BY <1>1, <1>4, <1>5 DEF IsPrefix

(* A reply without bytes: every sequence begins with itself and with the    *)
(* empty one.                                                              *)
LEMMA PrefixReflexive ==
  ASSUME NEW S, NEW s \in Seq(S)
  PROVE  IsPrefix(s, s) /\ IsPrefix(<< >>, s)
<1>1. s \o << >> = s /\ << >> \o s = s /\ << >> \in Seq(S)
  BY ConcatEmptySeq, EmptySeq
<1> QED  BY <1>1, ConcatIsPrefix

(* A sequence is its first k entries and the rest: what the SSE path       *)
(* releases and what the decoder keeps.                                    *)
LEMMA SplitAt ==
  ASSUME NEW S, NEW s \in Seq(S), NEW k \in 0..Len(s)
  PROVE  /\ SubSeq(s, 1, k) \in Seq(S)
         /\ SubSeq(s, k + 1, Len(s)) \in Seq(S)
         /\ Len(SubSeq(s, 1, k)) = k
         /\ Len(SubSeq(s, k + 1, Len(s))) = Len(s) - k
         /\ SubSeq(s, 1, k) \o SubSeq(s, k + 1, Len(s)) = s
<1>1. Len(s) \in Nat
  BY LenProperties
<1>2. /\ \A i \in 1..k : s[i] \in S
      /\ \A i \in (k + 1)..Len(s) : s[i] \in S
  BY <1>1, ElementOfSeq
<1>3. /\ SubSeq(s, 1, k) \in Seq(S) /\ Len(SubSeq(s, 1, k)) = k
      /\ \A i \in 1..k : SubSeq(s, 1, k)[i] = s[i]
  BY <1>1, <1>2, SubSeqProperties
<1>4. /\ SubSeq(s, k + 1, Len(s)) \in Seq(S)
      /\ Len(SubSeq(s, k + 1, Len(s))) = Len(s) - k
      /\ \A i \in 1..(Len(s) - k) : SubSeq(s, k + 1, Len(s))[i] = s[k + i]
  BY <1>1, <1>2, SubSeqProperties
<1> DEFINE a == SubSeq(s, 1, k)
<1> DEFINE b == SubSeq(s, k + 1, Len(s))
<1>a. a \in Seq(S) /\ Len(a) = k /\ \A i \in 1..k : a[i] = s[i]
  BY <1>3
<1>b. b \in Seq(S) /\ Len(b) = Len(s) - k /\ \A i \in 1..(Len(s) - k) : b[i] = s[k + i]
  BY <1>4
<1> HIDE DEF a, b
<1>5. a \o b = s
  <2>1. /\ a \o b \in Seq(S)
        /\ Len(a \o b) = Len(s)
        /\ \A i \in 1..Len(s) : (a \o b)[i] = IF i <= k THEN a[i] ELSE b[i - k]
    BY <1>1, <1>a, <1>b, ConcatProperties
  <2>2. \A i \in 1..Len(s) : (a \o b)[i] = s[i]
    <3> TAKE i \in 1..Len(s)
    <3>1. CASE i <= k
      BY <3>1, <2>1, <1>1, <1>a
    <3>2. CASE ~(i <= k)
      <4>1. i - k \in 1..(Len(s) - k)
        BY <3>2, <1>1
      <4>2. b[i - k] = s[k + (i - k)]
        BY <4>1, <1>b
      <4> QED  BY <3>2, <4>1, <4>2, <2>1, <1>1
    <3> QED  BY <3>1, <3>2
  <2> QED  BY <2>1, <2>2, SeqEqual
<1> QED  BY <1>3, <1>4, <1>5 DEF a, b

(* Nothing has arrived only if no chunk brought anything.                  *)
LEMMA ConcatIsEmpty ==
  ASSUME NEW S, NEW s \in Seq(S), NEW t \in Seq(S), s \o t = << >>
  PROVE  s = << >> /\ t = << >>
BY ConcatEqualIffEmpty

(* Three stretches of the data may be joined in either order.              *)
Regroups(s, t, u) == (s \o t) \o u = s \o (t \o u)

LEMMA JoinsRegroup ==
  ASSUME NEW S, NEW s \in Seq(S), NEW t \in Seq(S), NEW u \in Seq(S)
  PROVE  Regroups(s, t, u)
BY ConcatAssociative DEF Regroups

(* Two sequences in a row.                                                 *)
IsJoin(S, t, s, r) ==
  /\ t \in Seq(S) /\ Len(t) = Len(s) + Len(r)
  /\ \A i \in 1..Len(s) : t[i] = s[i]
  /\ \A i \in 1..Len(r) : t[Len(s) + i] = r[i]

LEMMA BothParts ==
  ASSUME NEW S, NEW s \in Seq(S), NEW r \in Seq(S)
  PROVE  IsJoin(S, s \o r, s, r)
BY DEF IsJoin

-----------------------------------------------------------------------------
(* Sets of numbers, and stretches of sequences.                            *)

(* Max of FiniteSetsExt on a set of numbers below a bound.                 *)
LEMMA MaxOfBounded ==
  ASSUME NEW n \in Nat, NEW S, S \subseteq 0..n, S # {}
  PROVE  Max(S) \in S /\ \A y \in S : y <= Max(S)
<1> DEFINE below == {n - j : j \in S}
<1>1. below \subseteq Nat /\ below # {}
  <2>1. \A j \in S : n - j \in Nat
    OBVIOUS
  <2> QED BY <2>1
<1>2. PICK x \in below : \A y \in below : ~(<<y, x>> \in OpToRel(<, Nat))
  BY <1>1, WFMin, NatLessThanWellFounded
<1>3. \A y \in below : ~(y < x)
  BY <1>1, <1>2 DEF OpToRel
<1>4. PICK l \in S : x = n - l
  BY <1>2
<1>5. \A j \in S : l >= j
  <2> TAKE j \in S
  <2>1. n - j \in below
    OBVIOUS
  <2>2. ~(n - j < n - l)
    BY <1>3, <1>4, <2>1
  <2> QED BY <2>2
<1> HIDE DEF below
<1>6. \E m \in S : \A j \in S : m >= j
  BY <1>5
<1>7. Max(S) \in S /\ \A j \in S : Max(S) >= j
  BY <1>6, Zenon DEF Max
<1> QED BY <1>7

(* A set of numbers has a least one.                                       *)
LEMMA LeastOf ==
  ASSUME NEW S \in SUBSET Nat, S # {}
  PROVE  \E m \in S : \A j \in S : m <= j
<1>1. PICK m \in S : \A j \in S : ~(<<j, m>> \in OpToRel(<, Nat))
  BY WFMin, NatLessThanWellFounded
<1>2. \A j \in S : ~(j < m)
  BY <1>1 DEF OpToRel
<1> QED BY <1>2

(* A number of a bounded set above all the others is its Max.              *)
LEMMA MaxIs ==
  ASSUME NEW n \in Nat, NEW S, S \subseteq 0..n, NEW m \in S, \A j \in S : j <= m
  PROVE  Max(S) = m
<1> DEFINE x == Max(S)
<1>1. x \in S /\ \A j \in S : j <= x
  BY MaxOfBounded
<1> HIDE DEF x
<1>2. x <= m /\ m <= x /\ x \in Nat /\ m \in Nat
  BY <1>1
<1>3. x = m
  BY <1>2
<1> QED BY <1>3 DEF x

(* A stretch of a sequence, element by element.                            *)
LEMMA StretchOf ==
  ASSUME NEW S, NEW s \in Seq(S), NEW a \in Nat, NEW z \in Nat, a <= z, z <= Len(s)
  PROVE  /\ SubSeq(s, a + 1, z) \in Seq(S)
         /\ Len(SubSeq(s, a + 1, z)) = z - a
         /\ \A i \in 1..(z - a) : SubSeq(s, a + 1, z)[i] = s[a + i]
<1> DEFINE y == SubSeq(s, a + 1, z)
<1>1. Len(s) \in Nat
  BY LenProperties
<1>2. /\ a + 1 \in Int /\ z \in Int
      /\ \A i \in (a + 1)..z : s[i] \in S
  BY <1>1, ElementOfSeq
<1>3. /\ y \in Seq(S)
      /\ Len(y) = IF a + 1 <= z THEN z - (a + 1) + 1 ELSE 0
      /\ \A i \in 1..(z - (a + 1) + 1) : y[i] = s[(a + 1) + i - 1]
  BY <1>2, SubSeqProperties
<1> HIDE DEF y
<1>4. Len(y) = z - a
  BY <1>3
<1>5. ASSUME NEW i \in 1..(z - a) PROVE y[i] = s[a + i]
  <2>1. i \in 1..(z - (a + 1) + 1) /\ (a + 1) + i - 1 = a + i
    OBVIOUS
  <2> QED BY <1>3, <2>1
<1> QED BY <1>3, <1>4, <1>5 DEF y

(* Stretches that meet make one.                                           *)
LEMMA StretchesMeet ==
  ASSUME NEW S, NEW s \in Seq(S), NEW a \in Nat, NEW m \in Nat, NEW z \in Nat,
         a <= m, m <= z, z <= Len(s)
  PROVE  SubSeq(s, a + 1, m) \o SubSeq(s, m + 1, z) = SubSeq(s, a + 1, z)
<1> DEFINE l == SubSeq(s, a + 1, m)
           r == SubSeq(s, m + 1, z)
           w == SubSeq(s, a + 1, z)
<1>1. Len(s) \in Nat /\ m <= Len(s) /\ a <= z
  BY LenProperties
<1>2. l \in Seq(S) /\ Len(l) = m - a /\ \A i \in 1..(m - a) : l[i] = s[a + i]
  BY <1>1, StretchOf
<1>3. r \in Seq(S) /\ Len(r) = z - m /\ \A i \in 1..(z - m) : r[i] = s[m + i]
  BY <1>1, StretchOf
<1>4. w \in Seq(S) /\ Len(w) = z - a /\ \A i \in 1..(z - a) : w[i] = s[a + i]
  BY <1>1, StretchOf
<1> HIDE DEF l, r, w
<1>5. /\ l \o r \in Seq(S)
      /\ Len(l \o r) = z - a
      /\ \A i \in 1..(z - a) : (l \o r)[i] = IF i <= m - a THEN l[i] ELSE r[i - (m - a)]
  <2>1. /\ l \o r \in Seq(S)
        /\ Len(l \o r) = Len(l) + Len(r)
        /\ \A i \in 1..(Len(l) + Len(r)) :
             (l \o r)[i] = IF i <= Len(l) THEN l[i] ELSE r[i - Len(l)]
    BY <1>2, <1>3, ConcatProperties
  <2>2. Len(l) + Len(r) = z - a
    BY <1>2, <1>3
  <2> QED BY <2>1, <2>2, <1>2
<1>6. ASSUME NEW i \in 1..(z - a) PROVE (l \o r)[i] = w[i]
  <2>1. CASE i <= m - a
    BY <2>1, <1>2, <1>4, <1>5
  <2>2. CASE ~(i <= m - a)
    <3>1. i - (m - a) \in 1..(z - m) /\ m + (i - (m - a)) = a + i
      BY <2>2
    <3> QED BY <2>2, <3>1, <1>3, <1>4, <1>5
  <2> QED BY <2>1, <2>2
<1>7. l \o r = w
  BY <1>4, <1>5, <1>6, SeqEqual
<1> QED BY <1>7 DEF l, r, w

(* A stretch of a stretch is one of the whole.                             *)
LEMMA StretchOfStretch ==
  ASSUME NEW S, NEW s \in Seq(S), NEW a \in Nat, NEW c \in Nat, a <= c, c <= Len(s),
         NEW u \in Nat, NEW v \in Nat, u <= v, v <= c - a
  PROVE  SubSeq(SubSeq(s, a + 1, c), u + 1, v) = SubSeq(s, a + u + 1, a + v)
<1> DEFINE t == SubSeq(s, a + 1, c)
           l == SubSeq(t, u + 1, v)
           r == SubSeq(s, (a + u) + 1, a + v)
<1>1. t \in Seq(S) /\ Len(t) = c - a /\ \A i \in 1..(c - a) : t[i] = s[a + i]
  BY StretchOf
<1> HIDE DEF t
<1>2. l \in Seq(S) /\ Len(l) = v - u /\ \A i \in 1..(v - u) : l[i] = t[u + i]
  BY <1>1, StretchOf
<1>3. Len(s) \in Nat /\ a + u \in Nat /\ a + v \in Nat /\ a + u <= a + v /\ a + v <= Len(s)
  BY LenProperties
<1>4. r \in Seq(S) /\ Len(r) = (a + v) - (a + u)
      /\ \A i \in 1..((a + v) - (a + u)) : r[i] = s[(a + u) + i]
  BY <1>3, StretchOf
<1> HIDE DEF l, r
<1>5. ASSUME NEW i \in 1..(v - u) PROVE l[i] = r[i]
  <2>1. u + i \in 1..(c - a) /\ a + (u + i) = (a + u) + i /\ i \in 1..((a + v) - (a + u))
    OBVIOUS
  <2> QED BY <2>1, <1>1, <1>2, <1>4
<1>6. Len(r) = v - u
  BY <1>4
<1>7. l = r
  BY <1>2, <1>4, <1>5, <1>6, SeqEqual
<1> QED BY <1>7 DEF l, r, t

(* Nothing lies between the bounds of an empty stretch.                    *)
LEMMA EmptyStretch ==
  ASSUME NEW S, NEW s \in Seq(S), NEW a \in Nat, a <= Len(s)
  PROVE  SubSeq(s, a + 1, a) = << >>
<1>1. SubSeq(s, a + 1, a) \in Seq(S) /\ Len(SubSeq(s, a + 1, a)) = 0
  BY StretchOf
<1> QED BY <1>1, EmptySeq

(* The last member of S before i, or 0: where a line or a block begins.    *)
LEMMA LatestBefore ==
  ASSUME NEW S, S \subseteq Nat, NEW i \in Nat, i > 0
  PROVE  LET q == Max({0} \cup {j \in S : j < i})
         IN  /\ q \in 0..(i - 1)
             /\ q = 0 \/ q \in S
             /\ \A j \in S : j < i => j <= q
<1> DEFINE earlier == {0} \cup {j \in S : j < i}
<1>1. i - 1 \in Nat /\ earlier \subseteq 0..(i - 1) /\ earlier # {}
  <2>1. i - 1 \in Nat /\ 0 \in earlier
    OBVIOUS
  <2>2. ASSUME NEW j \in earlier PROVE j \in 0..(i - 1)
    OBVIOUS
  <2> HIDE DEF earlier
  <2> QED BY <2>1, <2>2
<1>2. Max(earlier) \in earlier /\ \A j \in earlier : j <= Max(earlier)
  BY <1>1, MaxOfBounded
<1> QED BY <1>1, <1>2

LEMMA LatestBeforeIs ==
  ASSUME NEW S, S \subseteq Nat, NEW i \in Nat, i > 0, NEW q \in 0..(i - 1), q = 0 \/ q \in S,
         \A j \in S : j < i => j <= q
  PROVE  Max({0} \cup {j \in S : j < i}) = q
<1> DEFINE earlier == {0} \cup {j \in S : j < i}
<1>1. i - 1 \in Nat /\ earlier \subseteq 0..(i - 1)
  <2>1. i - 1 \in Nat
    OBVIOUS
  <2>2. ASSUME NEW j \in earlier PROVE j \in 0..(i - 1)
    OBVIOUS
  <2> HIDE DEF earlier
  <2> QED BY <2>1, <2>2
<1>2. q \in earlier /\ \A j \in earlier : j <= q
  OBVIOUS
<1> HIDE DEF earlier
<1>3. Max(earlier) = q
  BY <1>1, <1>2, MaxIs
<1> QED BY <1>3 DEF earlier
=============================================================================
