---------------------------- MODULE Formats_proofs ----------------------------
(***************************************************************************)
(* Proofs about the formats, for every value of the constants.  parseArray *)
(* never counts itself out of range, and the length of an array of one     *)
(* dimension is the number of its elements.  What COPY, bytea and quoted   *)
(* SQL carry is read at the other end as it was written: each writer makes *)
(* one part of text for each byte, and each reader, an automaton, goes     *)
(* over one part after the other to the state that stands for the bytes so *)
(* far.  An array that Value has written is read as it was: parseArray is  *)
(* always at the place of some element, with the elements before it read.  *)
(* In an array of arrays it is at the place of some element of some row.   *)
(***************************************************************************)
EXTENDS Formats, SequenceTheorems, WellFoundedInduction, NaturalsInduction, TLAPS

--------------------------------------------------------------------------------
(* Automata, and texts in texts                                               *)

\* A set of naturals has a least member.
LEMMA LeastNatural ==
    ASSUME NEW T \in SUBSET Nat, T # {}
    PROVE  \E m \in T : \A k \in T : m <= k
<1> DEFINE R == OpToRel(<, Nat)
<1>1. IsWellFoundedOn(R, Nat)
  BY NatLessThanWellFounded
<1>2. \A a, b \in Nat : a < b => <<a, b>> \in R
  BY DEF OpToRel
<1> HIDE DEF R
<1>3. PICK m \in T : \A k \in T : ~(<<k, m>> \in R)
  BY <1>1, WFMin
<1>4. ASSUME NEW k \in T PROVE m <= k
  <2>1. m \in Nat /\ k \in Nat
    OBVIOUS
  <2>2. ~(k < m)
    BY <1>2, <1>3, <2>1
  <2> QED
    BY <2>1, <2>2
<1> QED
  BY <1>4

\* Induction up to n, over a set in the place of a predicate.
LEMMA UpTo ==
    ASSUME NEW n \in Nat, NEW T, 0 \in T, \A k \in 1..n : k - 1 \in T => k \in T
    PROVE  \A k \in 0..n : k \in T
<1> DEFINE U == {k \in 0..n : k \notin T}
<1>1. SUFFICES ASSUME U # {} PROVE FALSE
  OBVIOUS
<1>2. U \in SUBSET Nat
  OBVIOUS
<1>3. PICK m \in U : \A l \in U : m <= l
  BY <1>1, <1>2, LeastNatural
<1>4. m \in 1..n /\ m - 1 \in 0..n /\ ~(m <= m - 1)
  OBVIOUS
<1>5. m - 1 \in T
  BY <1>3, <1>4
<1> QED
  BY <1>4, <1>5

--------------------------------------------------------------------------------

\* f[k] is the state of the automaton t after k of the symbols of s.
Follows(f, t, start, s, n) ==
    f = [k \in 0..n |-> IF k = 0 THEN start ELSE t[<<f[k - 1], s[k]>>]]

\* There is such a function.
LEMMA RunExists ==
    ASSUME NEW St, NEW C, NEW t \in [St \X C -> St], NEW start \in St, NEW s \in Seq(C)
    PROVE  \E f \in [0..Len(s) -> St] : Follows(f, t, start, s, Len(s))
<1> DEFINE n == Len(s)
           T == {m \in 0..n : \E f \in [0..m -> St] : Follows(f, t, start, s, m)}
<1>0. n \in Nat /\ \A k \in 1..n : s[k] \in C
  BY LenProperties, ElementOfSeq
<1>1. 0 \in T
  <2> DEFINE f == [k \in 0..0 |-> start]
  <2>1. f \in [0..0 -> St] /\ Follows(f, t, start, s, 0)
    BY DEF Follows
  <2> HIDE DEF f
  <2> QED
    BY <1>0, <2>1
<1>2. ASSUME NEW m \in 1..n, m - 1 \in T PROVE m \in T
  <2>1. PICK f \in [0..(m - 1) -> St] : Follows(f, t, start, s, m - 1)
    BY <1>2
  <2> DEFINE g == [k \in 0..m |-> IF k = m THEN t[<<f[m - 1], s[m]>>] ELSE f[k]]
  <2>2. m - 1 \in 0..(m - 1) /\ m \in 1..n /\ m # 0
    BY <1>0
  <2>3. f[m - 1] \in St /\ s[m] \in C
    BY <1>0, <2>1, <2>2
  <2>4. t[<<f[m - 1], s[m]>>] \in St
    BY <2>3
  <2>5. g \in [0..m -> St]
    BY <2>1, <2>4
  <2>6. ASSUME NEW k \in 0..m PROVE g[k] = IF k = 0 THEN start ELSE t[<<g[k - 1], s[k]>>]
    <3>1. CASE k = m
      <4>1. m - 1 \in 0..m /\ m - 1 # m
        BY <1>0
      <4>2. g[m - 1] = f[m - 1]
        BY <4>1
      <4> QED
        BY <2>2, <3>1, <4>2
    <3>2. CASE k # m
      <4>1. k \in 0..(m - 1) /\ (k # 0 => k - 1 \in 0..m /\ k - 1 # m)
        BY <3>2
      <4>2. f[k] = IF k = 0 THEN start ELSE t[<<f[k - 1], s[k]>>]
        BY <2>1, <4>1 DEF Follows
      <4>3. g[k] = f[k] /\ (k # 0 => g[k - 1] = f[k - 1])
        BY <3>2, <4>1
      <4> QED
        BY <4>2, <4>3
    <3> QED
      BY <3>1, <3>2
  <2>7. Follows(g, t, start, s, m)
    <3>1. g = [k \in 0..m |-> g[k]]
      OBVIOUS
    <3> HIDE DEF g
    <3> QED
      BY <2>6, <3>1 DEF Follows
  <2> HIDE DEF g
  <2> QED
    BY <2>5, <2>7
<1> HIDE DEF T
<1>3. \A m \in 0..n : m \in T
  BY <1>0, <1>1, <1>2, UpTo
<1>4. n \in T
  BY <1>0, <1>3
<1> QED
  BY <1>4 DEF T

\* Such a function stays among the states.
LEMMA RunTyped ==
    ASSUME NEW St, NEW C, NEW t \in [St \X C -> St], NEW start \in St, NEW s \in Seq(C),
           NEW f, f[0] = start,
           \A k \in 1..Len(s) : f[k - 1] \in St => f[k] = t[<<f[k - 1], s[k]>>]
    PROVE  \A k \in 0..Len(s) : f[k] \in St
<1> DEFINE n == Len(s)
           T == {k \in 0..n : f[k] \in St}
<1>0. n \in Nat /\ \A k \in 1..n : s[k] \in C
  BY LenProperties, ElementOfSeq
<1>1. 0 \in T
  BY <1>0
<1>2. ASSUME NEW k \in 1..n, k - 1 \in T PROVE k \in T
  <2>1. k \in 0..n /\ f[k - 1] \in St /\ <<f[k - 1], s[k]>> \in St \X C
    BY <1>0, <1>2
  <2>2. f[k] = t[<<f[k - 1], s[k]>>]
    BY <2>1
  <2> QED
    BY <2>1, <2>2
<1> HIDE DEF T
<1>3. \A k \in 0..n : k \in T
  BY <1>0, <1>1, <1>2, UpTo
<1> QED
  BY <1>3 DEF T

--------------------------------------------------------------------------------

\* part is in s after position p.
Has(s, p, part) ==
    /\ p \in Nat /\ p + Len(part) <= Len(s)
    /\ \A j \in 1..Len(part) : s[p + j] = part[j]

\* A text has itself.
LEMMA HasAll ==
    ASSUME NEW M, NEW s \in Seq(M)
    PROVE  Has(s, 0, s)
BY LenProperties DEF Has

\* Where the concatenation of two parts is, these are, one after the other.
LEMMA HasBoth ==
    ASSUME NEW M, NEW s \in Seq(M), NEW a \in Seq(M), NEW b \in Seq(M), NEW p,
           Has(s, p, a \o b)
    PROVE  Has(s, p, a) /\ Has(s, p + Len(a), b) /\ Len(a \o b) = Len(a) + Len(b)
<1>1. /\ Len(a) \in Nat /\ Len(b) \in Nat /\ Len(s) \in Nat /\ Len(a \o b) = Len(a) + Len(b)
      /\ \A k \in 1..Len(a) + Len(b) : (a \o b)[k] = IF k <= Len(a) THEN a[k] ELSE b[k - Len(a)]
  BY ConcatProperties, LenProperties
<1>2. Has(s, p, a)
  BY <1>1 DEF Has
<1>3. ASSUME NEW j \in 1..Len(b) PROVE s[p + Len(a) + j] = b[j]
  <2>1. Len(a) + j \in 1..Len(a) + Len(b) /\ ~(Len(a) + j <= Len(a)) /\ Len(a) + j - Len(a) = j
    BY <1>1
  <2>2. s[p + (Len(a) + j)] = (a \o b)[Len(a) + j]
    BY <1>1, <2>1 DEF Has
  <2>3. p + (Len(a) + j) = p + Len(a) + j
    BY <1>1 DEF Has
  <2> QED
    BY <1>1, <2>1, <2>2, <2>3
<1>4. p + Len(a) \in Nat /\ p + Len(a) + Len(b) <= Len(s)
  BY <1>1 DEF Has
<1> QED
  BY <1>1, <1>2, <1>3, <1>4 DEF Has

Within(M, s, a, b, p, q, r) ==
    /\ s \in Seq(M) /\ a \in Seq(M) /\ b \in Seq(M)
    /\ Has(s, p, a) /\ Has(a, q, b) /\ r = p + q

\* Where a part is, what that part has is too.
LEMMA HasInner ==
    ASSUME NEW M, NEW s, NEW a, NEW b, NEW p, NEW q, NEW r,
           Within(M, s, a, b, p, q, r)
    PROVE  Has(s, r, b)
<1>a. /\ s \in Seq(M) /\ a \in Seq(M) /\ b \in Seq(M)
      /\ Has(s, p, a) /\ Has(a, q, b)
  BY DEF Within
<1>r. r = p + q
  BY DEF Within
<1>1. Len(a) \in Nat /\ Len(b) \in Nat /\ Len(s) \in Nat
  BY <1>a, LenProperties
<1>2. p + q \in Nat /\ p + q + Len(b) <= Len(s)
  BY <1>a, <1>1 DEF Has
<1>3. ASSUME NEW j \in 1..Len(b) PROVE s[p + q + j] = b[j]
  <2>1. q + j \in 1..Len(a) /\ a[q + j] = b[j] /\ p + (q + j) = p + q + j
    BY <1>a, <1>1, SMTT(30) DEF Has
  <2> QED
    BY <1>a, <2>1 DEF Has
<1>4. Has(s, p + q, b)
  BY <1>2, <1>3 DEF Has
<1> QED
  BY <1>r, <1>4

\* f concatenates ever more of the sequences.
Joins(f, seqs, n) == f = [k \in 1..n |-> IF k = 1 THEN seqs[k] ELSE f[k - 1] \o seqs[k]]

\* FlattenSeq is the concatenation of its parts, one after the other.
LEMMA JoinsExists ==
    ASSUME NEW M, NEW seqs \in Seq(Seq(M))
    PROVE  \E f : Joins(f, seqs, Len(seqs))
<1> DEFINE n == Len(seqs)
           T == {m \in 0..n : \E f : Joins(f, seqs, m)}
<1>0. n \in Nat
  BY LenProperties
<1>1. 0 \in T
  <2>1. 1..0 = {}
    OBVIOUS
  <2>2. Joins([k \in 1..0 |-> seqs[k]], seqs, 0)
    BY <2>1 DEF Joins
  <2> QED
    BY <1>0, <2>2
<1>2. ASSUME NEW m \in 1..n, m - 1 \in T PROVE m \in T
  <2>1. PICK f : Joins(f, seqs, m - 1)
    BY <1>2
  <2> DEFINE last == IF m = 1 THEN seqs[m] ELSE f[m - 1] \o seqs[m]
             g == [k \in 1..m |-> IF k = m THEN last ELSE f[k]]
  <2>2. ASSUME NEW k \in 1..m
        PROVE  g[k] = IF k = 1 THEN seqs[k] ELSE g[k - 1] \o seqs[k]
    <3>1. CASE k = m
      BY <3>1
    <3>2. CASE k # m
      <4>1. k \in 1..(m - 1) /\ (k # 1 => k - 1 \in 1..(m - 1) /\ k - 1 \in 1..m /\ k - 1 # m)
        BY <3>2
      <4>2. f[k] = IF k = 1 THEN seqs[k] ELSE f[k - 1] \o seqs[k]
        BY <2>1, <4>1 DEF Joins
      <4>3. g[k] = f[k] /\ (k # 1 => g[k - 1] = f[k - 1])
        BY <3>2, <4>1
      <4> QED
        BY <4>2, <4>3
    <3> QED
      BY <3>1, <3>2
  <2>3. g = [k \in 1..m |-> g[k]]
    OBVIOUS
  <2> HIDE DEF g
  <2>4. Joins(g, seqs, m)
    BY <2>2, <2>3 DEF Joins
  <2> QED
    BY <2>4
<1> HIDE DEF T
<1>3. \A m \in 0..n : m \in T
  BY <1>0, <1>1, <1>2, UpTo
<1>4. n \in T
  BY <1>0, <1>3
<1> QED
  BY <1>4 DEF T

\* Where in FlattenSeq(seqs) each part ends.
Ends(seqs, pos) ==
    /\ pos \in [0..Len(seqs) -> Nat] /\ pos[0] = 0 /\ pos[Len(seqs)] = Len(FlattenSeq(seqs))
    /\ \A k \in 1..Len(seqs) : /\ pos[k] = pos[k - 1] + Len(seqs[k])
                               /\ Has(FlattenSeq(seqs), pos[k - 1], seqs[k])

\* A concatenation of texts is a text, and has each of them where the ones before it
\* end.
LEMMA FlattenParts ==
    ASSUME NEW M, NEW seqs \in Seq(Seq(M))
    PROVE  FlattenSeq(seqs) \in Seq(M) /\ \E pos : Ends(seqs, pos)
<1> DEFINE n == Len(seqs)
           whole == FlattenSeq(seqs)
<1>0. n \in Nat /\ \A k \in 1..n : seqs[k] \in Seq(M) /\ Len(seqs[k]) \in Nat
  BY LenProperties, ElementOfSeq
<1>1. CASE n = 0
  <2>1. whole = <<>> /\ Len(whole) = 0 /\ whole \in Seq(M)
    BY <1>1, EmptySeq DEF FlattenSeq
  <2>2. 1..n = {} /\ 0..n = {0}
    BY <1>1
  <2>3. Ends(seqs, [k \in 0..n |-> 0])
    BY <1>1, <2>1, <2>2 DEF Ends
  <2> QED
    BY <2>1, <2>3
<1>2. CASE n # 0
  <2> DEFINE F == CHOOSE f : f = [k \in 1..n |-> IF k = 1 THEN seqs[k] ELSE f[k - 1] \o seqs[k]]
             P(k) == IF k = 0 THEN <<>> ELSE F[k]
             pos == [k \in 0..n |-> Len(P(k))]
  <2>1. whole = F[n]
    BY <1>2 DEF FlattenSeq
  <2>2. \E f : f = [k \in 1..n |-> IF k = 1 THEN seqs[k] ELSE f[k - 1] \o seqs[k]]
    BY JoinsExists DEF Joins
  <2>3. F = [k \in 1..n |-> IF k = 1 THEN seqs[k] ELSE F[k - 1] \o seqs[k]]
    BY <2>2
  <2> HIDE DEF F
  <2>4. ASSUME NEW k \in 1..n, P(k - 1) \in Seq(M)
        PROVE  P(k) = P(k - 1) \o seqs[k] /\ P(k) \in Seq(M)
    <3>1. F[k] = IF k = 1 THEN seqs[k] ELSE F[k - 1] \o seqs[k]
      BY <2>3
    <3>2. P(k) = P(k - 1) \o seqs[k]
      <4>1. CASE k = 1
        <5>1. <<>> \o seqs[k] = seqs[k]
          BY <1>0, ConcatEmptySeq
        <5> QED
          BY <3>1, <4>1, <5>1
      <4>2. CASE k # 1
        <5>1. k # 0 /\ k - 1 # 0
          BY <4>2
        <5> QED
          BY <3>1, <4>2, <5>1
      <4> QED
        BY <4>1, <4>2
    <3>3. seqs[k] \in Seq(M) /\ P(k - 1) \in Seq(M)
      BY <1>0, <2>4
    <3> HIDE DEF P
    <3>4. P(k - 1) \o seqs[k] \in Seq(M)
      BY <3>3, ConcatProperties
    <3> QED
      BY <3>2, <3>4
  <2>5. P(0) = <<>> /\ P(0) \in Seq(M) /\ P(n) = whole /\ Len(P(0)) = 0
    BY <1>2, <2>1, EmptySeq
  <2> HIDE DEF P
  <2>6. \A k \in 0..n : P(k) \in Seq(M)
    <3> DEFINE T == {k \in 0..n : P(k) \in Seq(M)}
    <3>1. 0 \in T
      BY <1>0, <2>5
    <3>2. ASSUME NEW k \in 1..n, k - 1 \in T PROVE k \in T
      <4>1. k \in 0..n /\ P(k - 1) \in Seq(M)
        BY <1>0, <3>2
      <4> QED
        BY <2>4, <4>1
    <3> HIDE DEF T
    <3>3. \A k \in 0..n : k \in T
      BY <1>0, <3>1, <3>2, UpTo
    <3> QED
      BY <3>3 DEF T
  <2>7. ASSUME NEW k \in 1..n
        PROVE  Len(P(k)) = Len(P(k - 1)) + Len(seqs[k]) /\ P(k) = P(k - 1) \o seqs[k]
    <3>1. k - 1 \in 0..n /\ P(k - 1) \in Seq(M) /\ seqs[k] \in Seq(M)
      BY <1>0, <2>6
    <3>2. P(k) = P(k - 1) \o seqs[k]
      BY <2>4, <3>1
    <3>3. Len(P(k - 1) \o seqs[k]) = Len(P(k - 1)) + Len(seqs[k])
      BY <3>1, ConcatProperties
    <3> QED
      BY <3>2, <3>3
  <2>8. \A m \in 0..n : \A k \in 0..m : Has(P(m), 0, P(k))
    <3> DEFINE T == {m \in 0..n : \A k \in 0..m : Has(P(m), 0, P(k))}
    <3>1. 0 \in T
      <4>1. Has(P(0), 0, P(0)) /\ 0..0 = {0}
        BY <2>5, HasAll
      <4> QED
        BY <1>0, <4>1
    <3>2. ASSUME NEW m \in 1..n, m - 1 \in T PROVE m \in T
      <4>1. m - 1 \in 0..n /\ m \in 0..n /\ P(m) \in Seq(M) /\ P(m - 1) \in Seq(M)
        BY <1>0, <2>6
      <4>2. Has(P(m), 0, P(m - 1))
        <5>1. Has(P(m), 0, P(m - 1) \o seqs[m])
          BY <2>7, <4>1, HasAll
        <5> QED
          BY <1>0, <4>1, <5>1, HasBoth
      <4>3. ASSUME NEW k \in 0..m PROVE Has(P(m), 0, P(k))
        <5>1. CASE k = m
          BY <4>1, <5>1, HasAll
        <5>2. CASE k # m
          <6>1. k \in 0..(m - 1) /\ P(k) \in Seq(M)
            BY <1>0, <2>6, <5>2
          <6>2. Has(P(m - 1), 0, P(k))
            BY <3>2, <6>1
          <6>3. Has(P(m), 0 + 0, P(k))
            <7>1. Within(M, P(m), P(m - 1), P(k), 0, 0, 0 + 0)
              BY <4>1, <4>2, <6>1, <6>2 DEF Within
            <7> QED
              BY <7>1, HasInner, Zenon
          <6> QED
            BY <6>3
        <5> QED
          BY <5>1, <5>2
      <4> QED
        BY <4>1, <4>3
    <3> HIDE DEF T
    <3>3. \A k \in 0..n : k \in T
      BY <1>0, <3>1, <3>2, UpTo
    <3> QED
      BY <3>3 DEF T
  <2>9. ASSUME NEW k \in 1..n PROVE Has(whole, Len(P(k - 1)), seqs[k])
    <3>1. k \in 0..n /\ k - 1 \in 0..n /\ n \in 0..n /\ k \in 0..n
      BY <1>0
    <3>2. P(k) \in Seq(M) /\ P(k - 1) \in Seq(M) /\ seqs[k] \in Seq(M) /\ whole \in Seq(M)
      BY <1>0, <2>5, <2>6, <3>1
    <3>3. Has(whole, 0, P(k))
      BY <2>5, <2>8, <3>1
    <3>4. Has(whole, 0, P(k - 1) \o seqs[k])
      BY <2>7, <3>3
    <3>5. Has(whole, 0 + Len(P(k - 1)), seqs[k])
      BY <3>2, <3>4, HasBoth
    <3>6. 0 + Len(P(k - 1)) = Len(P(k - 1))
      BY <3>2, LenProperties
    <3> QED
      BY <3>5, <3>6
  <2>10. \A k \in 0..n : Len(P(k)) \in Nat
    BY <2>6, LenProperties
  <2>11. Ends(seqs, pos)
    <3>1. pos \in [0..n -> Nat] /\ pos[0] = 0 /\ pos[n] = Len(whole)
      BY <1>0, <2>5, <2>10
    <3>2. ASSUME NEW k \in 1..n
          PROVE  pos[k] = pos[k - 1] + Len(seqs[k]) /\ Has(whole, pos[k - 1], seqs[k])
      <4>1. k \in 0..n /\ k - 1 \in 0..n
        BY <1>0
      <4>2. pos[k] = Len(P(k)) /\ pos[k - 1] = Len(P(k - 1))
        BY <4>1
      <4> QED
        BY <2>7, <2>9, <4>2
    <3> HIDE DEF pos
    <3> QED
      BY <3>1, <3>2 DEF Ends
  <2>12. whole \in Seq(M)
    BY <1>0, <2>5, <2>6
  <2> QED
    BY <2>11, <2>12
<1> QED
  BY <1>1, <1>2

\* An automaton that reads a text in parts, wherever these begin: what a part does to
\* the state, within a relation between states and the number of parts read, it does
\* to all of them.
ByPartsIn(M, s, seqs, p, f, R) ==
    /\ s \in Seq(M) /\ seqs \in Seq(Seq(M)) /\ Has(s, p, FlattenSeq(seqs))
    /\ <<0, f[p]>> \in R
    /\ \A k \in 1..Len(seqs) : \A a \in 0..Len(s) :
           Has(s, a, seqs[k]) /\ <<k - 1, f[a]>> \in R => <<k, f[a + Len(seqs[k])]>> \in R

\* What is true of each part is true of the whole.
LEMMA ReadPartsIn ==
    ASSUME NEW M, NEW s, NEW seqs, NEW p, NEW f, NEW R, ByPartsIn(M, s, seqs, p, f, R)
    PROVE  /\ <<Len(seqs), f[p + Len(FlattenSeq(seqs))]>> \in R
           /\ FlattenSeq(seqs) \in Seq(M)
<1> DEFINE n == Len(seqs)
           whole == FlattenSeq(seqs)
<1>a. /\ s \in Seq(M) /\ seqs \in Seq(Seq(M)) /\ Has(s, p, FlattenSeq(seqs))
      /\ <<0, f[p]>> \in R
  BY DEF ByPartsIn
<1>0. n \in Nat /\ Len(s) \in Nat /\ \A k \in 1..n : seqs[k] \in Seq(M) /\ Len(seqs[k]) \in Nat
  BY <1>a, LenProperties, ElementOfSeq
<1>1. whole \in Seq(M) /\ \E pos : Ends(seqs, pos)
  BY <1>a, FlattenParts
<1>2. PICK pos : Ends(seqs, pos)
  BY <1>1
<1>3. pos \in [0..n -> Nat] /\ pos[0] = 0 /\ pos[n] = Len(whole) /\ p \in Nat
  BY <1>a, <1>2 DEF Ends, Has
<1> DEFINE T == {k \in 0..n : <<k, f[p + pos[k]]>> \in R}
<1>4. 0 \in T
  <2>1. p + pos[0] = p /\ 0 \in 0..n
    BY <1>0, <1>3
  <2> QED
    BY <1>a, <2>1
<1>5. ASSUME NEW k \in 1..n, k - 1 \in T PROVE k \in T
  <2>1. /\ k - 1 \in 0..n /\ k \in 0..n /\ pos[k - 1] \in Nat
        /\ pos[k] = pos[k - 1] + Len(seqs[k]) /\ Has(whole, pos[k - 1], seqs[k])
    <3>1. k - 1 \in 0..n /\ k \in 0..n
      BY <1>0
    <3>2. pos[k] = pos[k - 1] + Len(seqs[k]) /\ Has(whole, pos[k - 1], seqs[k])
      BY <1>2 DEF Ends
    <3> QED
      BY <1>3, <3>1, <3>2
  <2>2. Has(s, p + pos[k - 1], seqs[k])
    <3>1. s \in Seq(M) /\ whole \in Seq(M) /\ seqs[k] \in Seq(M) /\ Has(s, p, whole)
      BY <1>a, <1>0, <1>1
    <3> HIDE DEF whole
    <3> QED
      <4>1. Within(M, s, whole, seqs[k], p, pos[k - 1], p + pos[k - 1])
        BY <2>1, <3>1, Zenon DEF Within
      <4> QED
        BY <4>1, HasInner, Zenon
  <2>3. p + pos[k - 1] \in 0..Len(s)
    BY <1>0, <1>3, <2>1, <2>2, SMTT(30) DEF Has
  <2>4. <<k - 1, f[p + pos[k - 1]]>> \in R
    BY <1>5
  <2>5. <<k, f[(p + pos[k - 1]) + Len(seqs[k])]>> \in R
    BY <2>2, <2>3, <2>4 DEF ByPartsIn
  <2>6. (p + pos[k - 1]) + Len(seqs[k]) = p + pos[k]
    BY <1>0, <1>3, <2>1, SMTT(30)
  <2> QED
    BY <2>1, <2>5, <2>6
<1> HIDE DEF T
<1>6. \A k \in 0..n : k \in T
  BY <1>0, <1>4, <1>5, UpTo
<1>7. n \in T
  BY <1>0, <1>6
<1> QED
  BY <1>1, <1>3, <1>7 DEF T

\* The same, where the state follows from that number.
ByParts(M, s, seqs, p, f, g) ==
    /\ s \in Seq(M) /\ seqs \in Seq(Seq(M)) /\ Has(s, p, FlattenSeq(seqs))
    /\ f[p] = g[0]
    /\ \A k \in 1..Len(seqs) : \A a \in 0..Len(s) :
           Has(s, a, seqs[k]) /\ f[a] = g[k - 1] => f[a + Len(seqs[k])] = g[k]

\* The same.
LEMMA ReadParts ==
    ASSUME NEW M, NEW s, NEW seqs, NEW p, NEW f, NEW g, ByParts(M, s, seqs, p, f, g)
    PROVE  /\ f[p + Len(FlattenSeq(seqs))] = g[Len(seqs)]
           /\ FlattenSeq(seqs) \in Seq(M)
<1> DEFINE R == {<<k, g[k]>> : k \in 0..Len(seqs)}
<1>a. /\ s \in Seq(M) /\ seqs \in Seq(Seq(M)) /\ Has(s, p, FlattenSeq(seqs))
      /\ f[p] = g[0]
  BY DEF ByParts
<1>0. Len(seqs) \in Nat
  BY <1>a, LenProperties
<1>1. \A k \in 0..Len(seqs) : \A x : <<k, x>> \in R <=> x = g[k]
  OBVIOUS
<1> HIDE DEF R
<1>2. <<0, f[p]>> \in R
  BY <1>a, <1>0, <1>1
<1>3. ASSUME NEW k \in 1..Len(seqs), NEW a \in 0..Len(s), Has(s, a, seqs[k]),
             <<k - 1, f[a]>> \in R
      PROVE  <<k, f[a + Len(seqs[k])]>> \in R
  <2>1. k - 1 \in 0..Len(seqs) /\ k \in 0..Len(seqs)
    BY <1>0
  <2>2. f[a] = g[k - 1]
    BY <1>1, <1>3, <2>1
  <2>3. f[a + Len(seqs[k])] = g[k]
    BY <1>3, <2>2 DEF ByParts
  <2> QED
    BY <1>1, <2>1, <2>3
<1>4. <<Len(seqs), f[p + Len(FlattenSeq(seqs))]>> \in R /\ FlattenSeq(seqs) \in Seq(M)
  <2>1. ByPartsIn(M, s, seqs, p, f, R)
    BY <1>a, <1>2, <1>3 DEF ByPartsIn
  <2> QED
    BY <2>1, ReadPartsIn
<1> QED
  BY <1>0, <1>1, <1>4

\* The prefixes of a sequence: the empty one, itself, and one more member each time.
LEMMA Prefix ==
    ASSUME NEW M, NEW s \in Seq(M)
    PROVE  /\ SubSeq(s, 1, 0) = <<>> /\ SubSeq(s, 1, Len(s)) = s
           /\ \A k \in 0..Len(s) : SubSeq(s, 1, k) \in Seq(M) /\ Len(SubSeq(s, 1, k)) = k
           /\ \A k \in 1..Len(s) : Append(SubSeq(s, 1, k - 1), s[k]) = SubSeq(s, 1, k)
<1>0. Len(s) \in Nat /\ \A k \in 1..Len(s) : s[k] \in M
  BY LenProperties, ElementOfSeq
<1>1. SubSeq(s, 1, 0) = <<>>
  BY SubSeqEmpty
<1>2. SubSeq(s, 1, Len(s)) = s
  BY SubSeqFull
<1>3. ASSUME NEW k \in 0..Len(s)
      PROVE  /\ SubSeq(s, 1, k) \in Seq(M) /\ Len(SubSeq(s, 1, k)) = k
             /\ \A j \in 1..k : SubSeq(s, 1, k)[j] = s[j]
  <2>1. \A j \in 1..k : s[j] \in M
    BY <1>0
  <2>2. k \in Int /\ 1 \in Int
    BY <1>0
  <2>3. /\ SubSeq(s, 1, k) \in Seq(M)
        /\ Len(SubSeq(s, 1, k)) = IF 1 <= k THEN k - 1 + 1 ELSE 0
        /\ \A j \in 1..(k - 1 + 1) : SubSeq(s, 1, k)[j] = s[1 + j - 1]
    BY <2>1, <2>2, SubSeqProperties
  <2>4. \A j \in 1..k : j \in 1..(k - 1 + 1) /\ 1 + j - 1 = j
    BY <2>2
  <2> QED
    BY <2>2, <2>3, <2>4 DEF ByPartsIn
<1>4. ASSUME NEW k \in 1..Len(s)
      PROVE  Append(SubSeq(s, 1, k - 1), s[k]) = SubSeq(s, 1, k)
  <2> DEFINE a == SubSeq(s, 1, k - 1)
             b == SubSeq(s, 1, k)
             c == Append(a, s[k])
  <2>1. k - 1 \in 0..Len(s) /\ k \in 0..Len(s)
    BY <1>0
  <2>2. /\ a \in Seq(M) /\ Len(a) = k - 1 /\ \A j \in 1..(k - 1) : a[j] = s[j]
        /\ b \in Seq(M) /\ Len(b) = k /\ \A j \in 1..k : b[j] = s[j]
    BY <1>3, <2>1
  <2> HIDE DEF a, b
  <2>3. /\ c \in Seq(M) /\ Len(c) = Len(a) + 1 /\ \A j \in 1..Len(a) : c[j] = a[j]
        /\ c[Len(a) + 1] = s[k]
    BY <1>0, <2>2, AppendProperties
  <2> HIDE DEF c
  <2>4. Len(c) = k /\ k \in 1..k /\ \A j \in 1..(k - 1) : c[j] = s[j]
    BY <2>2, <2>3
  <2>5. \A j \in 1..Len(c) : c[j] = b[j]
    <3>1. c[k] = s[k]
      BY <2>2, <2>3
    <3> QED
      BY <2>2, <2>4, <3>1
  <2>6. c = b
    BY <2>2, <2>3, <2>4, <2>5, SeqEqual
  <2> QED
    BY <2>6 DEF a, b, c
<1> QED
  BY <1>1, <1>2, <1>3, <1>4

\* Between an opening and a closing quote is what was put there.
LEMMA HasThree ==
    ASSUME NEW M, NEW a \in Seq(M), NEW b \in Seq(M), NEW c \in Seq(M), NEW s, s = a \o b \o c
    PROVE  /\ s \in Seq(M) /\ Len(s) = Len(a) + Len(b) + Len(c)
           /\ Has(s, 0, a) /\ Has(s, Len(a), b) /\ Has(s, Len(a) + Len(b), c)
<1> DEFINE ab == a \o b
<1>1. ab \in Seq(M) /\ Len(ab) = Len(a) + Len(b) /\ Len(a) \in Nat /\ Len(b) \in Nat
  BY ConcatProperties, LenProperties
<1>2. Has(s, 0, a \o b) => Has(s, 0, a) /\ Has(s, 0 + Len(a), b)
  <2>1. s \in Seq(M)
    BY <1>1, ConcatProperties
  <2> QED
    BY <2>1, HasBoth
<1> HIDE DEF ab
<1>3. s = ab \o c
  BY DEF ab
<1>4. s \in Seq(M) /\ Len(s) = Len(ab) + Len(c)
  BY <1>1, <1>3, ConcatProperties
<1>5. Has(s, 0, ab \o c)
  BY <1>3, <1>4, HasAll
<1>6. Has(s, 0, ab) /\ Has(s, 0 + Len(ab), c)
  BY <1>1, <1>4, <1>5, HasBoth
<1>7. 0 + Len(a) = Len(a) /\ 0 + Len(ab) = Len(a) + Len(b)
  BY <1>1
<1>8. Has(s, 0, a \o b)
  BY <1>6 DEF ab
<1> QED
  BY <1>1, <1>2, <1>4, <1>6, <1>7, <1>8

\* A text begins with its first byte.
LEMMA FirstPart ==
    ASSUME NEW M, NEW seqs \in Seq(Seq(M)), Len(seqs) # 0
    PROVE  Has(FlattenSeq(seqs), 0, seqs[1])
<1>1. PICK pos : Ends(seqs, pos)
  BY FlattenParts
<1>2. 1 \in 1..Len(seqs) /\ pos[1 - 1] = 0
  BY <1>1, LenProperties DEF Ends
<1> QED
  BY <1>1, <1>2 DEF Ends

\* The first two bytes of a text, and the rest.
LEMMA Halves ==
    ASSUME NEW M, NEW a \in Seq(M), NEW b \in Seq(M)
    PROVE  /\ SubSeq(a \o b, 1, Len(a)) = a
           /\ SubSeq(a \o b, Len(a) + 1, Len(a) + Len(b)) = b
<1> DEFINE s == a \o b
<1>1. /\ s \in Seq(M) /\ Len(s) = Len(a) + Len(b) /\ Len(a) \in Nat /\ Len(b) \in Nat
      /\ \A j \in 1..Len(a) + Len(b) : s[j] = IF j <= Len(a) THEN a[j] ELSE b[j - Len(a)]
      /\ \A j \in 1..Len(s) : s[j] \in M
  BY ConcatProperties, LenProperties, ElementOfSeq
<1> HIDE DEF s
<1>2. SubSeq(s, 1, Len(a)) = a
  <2> DEFINE u == SubSeq(s, 1, Len(a))
  <2>1. u \in Seq(M) /\ Len(u) = Len(a) /\ \A j \in 1..Len(a) : u[j] = s[j]
    <3>1. /\ u \in Seq(M) /\ Len(u) = (IF 1 <= Len(a) THEN Len(a) - 1 + 1 ELSE 0)
          /\ \A j \in 1..(Len(a) - 1 + 1) : u[j] = s[1 + j - 1]
      <4>1. \A j \in 1..Len(a) : s[j] \in M
        BY <1>1
      <4> QED
        BY <1>1, <4>1, SubSeqProperties
    <3>2. \A j \in 1..Len(a) : j \in 1..(Len(a) - 1 + 1) /\ 1 + j - 1 = j
      BY <1>1
    <3> QED
      BY <1>1, <3>1, <3>2
  <2> HIDE DEF u
  <2>2. \A j \in 1..Len(u) : u[j] = a[j]
    BY <1>1, <2>1
  <2>3. u = a
    BY <2>1, <2>2, SeqEqual
  <2> QED
    BY <2>3 DEF u
<1>3. SubSeq(s, Len(a) + 1, Len(a) + Len(b)) = b
  <2> DEFINE m == Len(a) + 1
             n == Len(a) + Len(b)
             u == SubSeq(s, m, n)
  <2>1. u \in Seq(M) /\ Len(u) = Len(b) /\ \A j \in 1..Len(b) : u[j] = s[Len(a) + j]
    <3>1. /\ u \in Seq(M) /\ Len(u) = (IF m <= n THEN n - m + 1 ELSE 0)
          /\ \A j \in 1..(n - m + 1) : u[j] = s[m + j - 1]
      <4>1. m \in Int /\ n \in Int /\ \A j \in m..n : s[j] \in M
        BY <1>1
      <4> HIDE DEF m, n
      <4> QED
        BY <4>1, SubSeqProperties
    <3>2. \A j \in 1..Len(b) : j \in 1..(n - m + 1) /\ m + j - 1 = Len(a) + j
      BY <1>1
    <3> QED
      BY <1>1, <3>1, <3>2
  <2> HIDE DEF u, m, n
  <2>2. ASSUME NEW j \in 1..Len(u) PROVE u[j] = b[j]
    <3>1. /\ Len(a) + j \in 1..Len(a) + Len(b) /\ ~(Len(a) + j <= Len(a))
          /\ Len(a) + j - Len(a) = j /\ j \in 1..Len(b)
      BY <1>1, <2>1
    <3>2. s[Len(a) + j] = b[Len(a) + j - Len(a)]
      BY <1>1, <3>1
    <3> QED
      BY <2>1, <3>1, <3>2
  <2>3. u = b
    BY <2>1, <2>2, SeqEqual
  <2> QED
    BY <2>3 DEF u, m, n
<1> QED
  BY <1>2, <1>3 DEF s

--------------------------------------------------------------------------------
(* Quoted SQL                                                                 *)

\* One transition of ReadQuoted.
ReadStep(q, backslashes, st, c) ==
    CASE st.at = "start" -> [st EXCEPT !.at = IF c = q THEN "in" ELSE "bad"]
      [] st.at = "in" /\ c = q -> [st EXCEPT !.at = "quote"]
      [] st.at = "in" /\ c = Bslash /\ backslashes -> [st EXCEPT !.at = "escape"]
      [] st.at = "in" /\ c # q /\ ~(c = Bslash /\ backslashes) ->
            [st EXCEPT !.out = Append(@, c)]
      [] st.at = "quote" /\ c = q -> [at |-> "in", out |-> Append(st.out, c)]
      [] st.at = "escape" -> [at |-> "in", out |-> Append(st.out, c)]
      [] OTHER -> [st EXCEPT !.at = "bad"]

\* The same, with the byte that escapes in the place of the flag.
LexStep(q, esc, st, c) ==
    CASE st.at = "start" -> [st EXCEPT !.at = IF c = q THEN "in" ELSE "bad"]
      [] st.at = "in" /\ c = q -> [st EXCEPT !.at = "quote"]
      [] st.at = "in" /\ c = esc /\ c # q -> [st EXCEPT !.at = "escape"]
      [] st.at = "in" /\ c # q /\ c # esc -> [st EXCEPT !.out = Append(@, c)]
      [] st.at = "quote" /\ c = q -> [at |-> "in", out |-> Append(st.out, c)]
      [] st.at = "escape" -> [at |-> "in", out |-> Append(st.out, c)]
      [] OTHER -> [st EXCEPT !.at = "bad"]

None == -1
Escapes(backslashes) == IF backslashes THEN Bslash ELSE None

LexState == [at : {"start", "in", "quote", "escape", "bad"}, out : Seq(Byte)]
LexStart == [at |-> "start", out |-> <<>>]

Lexed(f, s, q, esc) ==
    /\ f \in [0..Len(s) -> LexState] /\ f[0] = LexStart
    /\ \A k \in 1..Len(s) : f[k] = LexStep(q, esc, f[k - 1], s[k])

\* A transition leads from state to state.
LEMMA LexStepType ==
    ASSUME NEW q, NEW b \in BOOLEAN, NEW st \in LexState, NEW c \in Byte
    PROVE  ReadStep(q, b, st, c) \in LexState
<1>1. Append(st.out, c) \in Seq(Byte)
  BY AppendProperties DEF LexState
<1> QED
  BY <1>1 DEF ReadStep, LexState

\* ReadQuoted is what a run of these transitions ends with.
LEMMA LexRun ==
    ASSUME NEW s \in Seq(Byte), NEW q, q # Bslash, NEW b \in BOOLEAN
    PROVE  \E f : /\ Lexed(f, s, q, Escapes(b))
                  /\ ReadQuoted(s, q, b) = IF f[Len(s)].at = "quote" THEN f[Len(s)].out
                                           ELSE Error
<1> DEFINE n == Len(s)
           t == [p \in LexState \X Byte |-> ReadStep(q, b, p[1], p[2])]
           Goes_(h) == h = [k \in 0..n |-> IF k = 0 THEN LexStart
                                           ELSE ReadStep(q, b, h[k - 1], s[k])]
           f == CHOOSE h : Goes_(h)
<1>0. n \in Nat /\ (\A k \in 1..n : s[k] \in Byte) /\ LexStart \in LexState
  BY LenProperties, ElementOfSeq, EmptySeq DEF LexStart, LexState
<1>1. t \in [LexState \X Byte -> LexState]
  BY LexStepType
<1>2. \E h : Goes_(h)
  <2>1. PICK h \in [0..n -> LexState] : Follows(h, t, LexStart, s, n)
    BY <1>0, <1>1, RunExists
  <2>2. ASSUME NEW k \in 0..n
        PROVE  h[k] = IF k = 0 THEN LexStart ELSE ReadStep(q, b, h[k - 1], s[k])
    <3>1. h[k] = IF k = 0 THEN LexStart ELSE t[<<h[k - 1], s[k]>>]
      BY <2>1 DEF Follows
    <3>2. k # 0 => <<h[k - 1], s[k]>> \in LexState \X Byte
      BY <1>0, <2>1, SMTT(30)
    <3> QED
      BY <3>1, <3>2
  <2>3. h = [k \in 0..n |-> h[k]]
    BY <2>1
  <2>4. Goes_(h)
    BY <2>2, <2>3
  <2> QED
    BY <2>4
<1>3. Goes_(f)
  BY <1>2
<1>4. ReadQuoted(s, q, b) = IF f[n].at = "quote" THEN f[n].out ELSE Error
  BY DEF ReadQuoted, Run, ReadStep, LexStart
<1> HIDE DEF f
<1>5. \A k \in 0..n : f[k] = IF k = 0 THEN LexStart ELSE ReadStep(q, b, f[k - 1], s[k])
  BY <1>3
<1> DEFINE T == {k \in 0..n : f[k] \in LexState}
<1>6. 0 \in T
  BY <1>0, <1>5
<1>7. ASSUME NEW k \in 1..n, k - 1 \in T PROVE k \in T
  <2>1. k \in 0..n /\ k # 0 /\ f[k - 1] \in LexState /\ s[k] \in Byte
    BY <1>0, <1>7
  <2>2. f[k] = ReadStep(q, b, f[k - 1], s[k])
    BY <1>5, <2>1
  <2>3. ReadStep(q, b, f[k - 1], s[k]) \in LexState
    BY <2>1, LexStepType
  <2> QED
    BY <2>1, <2>2, <2>3
<1> HIDE DEF T
<1>8. \A k \in 0..n : k \in T
  BY <1>0, <1>6, <1>7, UpTo
<1>9. \A k \in 0..n : f[k] \in LexState
  BY <1>8 DEF T
<1>10. f \in [0..n -> LexState]
  <2>1. DOMAIN f = 0..n /\ f = [k \in 0..n |-> f[k]]
    BY <1>3
  <2> QED
    BY <1>9, <2>1
<1>11. Lexed(f, s, q, Escapes(b))
  <2>1. f[0] = LexStart
    BY <1>0, <1>5
  <2>2. ASSUME NEW k \in 1..n PROVE f[k] = LexStep(q, Escapes(b), f[k - 1], s[k])
    <3>1. k \in 0..n /\ k # 0 /\ s[k] \in Byte
      BY <1>0
    <3>2. f[k] = ReadStep(q, b, f[k - 1], s[k])
      BY <1>5, <3>1
    <3>3. ASSUME NEW st, NEW c \in Byte
          PROVE  ReadStep(q, b, st, c) = LexStep(q, Escapes(b), st, c)
      BY DEF ReadStep, LexStep, Escapes, None, Byte, Bslash
    <3> QED
      BY <3>1, <3>2, <3>3
  <2> QED
    BY <1>10, <2>1, <2>2 DEF Lexed
<1> QED
  BY <1>4, <1>11

\* s with each c twice, as parts.
Doubled(s, c) == [k \in DOMAIN s |-> IF s[k] = c THEN <<s[k], s[k]>> ELSE <<s[k]>>]

\* The types of the doubled parts.
LEMMA DoubledParts ==
    ASSUME NEW s \in Seq(Byte), NEW c
    PROVE  /\ Doubled(s, c) \in Seq(Seq(Byte)) /\ Len(Doubled(s, c)) = Len(s)
           /\ FlattenSeq(Doubled(s, c)) \in Seq(Byte)
           /\ \A k \in 1..Len(s) :
                  /\ Doubled(s, c)[k] = IF s[k] = c THEN <<s[k], s[k]>> ELSE <<s[k]>>
                  /\ s[k] \in Byte
<1>0. Len(s) \in Nat /\ DOMAIN s = 1..Len(s) /\ \A k \in 1..Len(s) : s[k] \in Byte
  BY LenProperties, ElementOfSeq
<1>1. \A x \in Byte : <<x, x>> \in Seq(Byte) /\ <<x>> \in Seq(Byte)
  OBVIOUS
<1>2. \A k \in 1..Len(s) : (IF s[k] = c THEN <<s[k], s[k]>> ELSE <<s[k]>>) \in Seq(Byte)
  BY <1>0, <1>1
<1>3. Doubled(s, c) \in Seq(Seq(Byte)) /\ Len(Doubled(s, c)) = Len(s)
  BY <1>0, <1>2 DEF Doubled
<1>4. FlattenSeq(Doubled(s, c)) \in Seq(Byte)
  BY <1>3, FlattenParts
<1> QED
  BY <1>0, <1>3, <1>4 DEF Doubled

\* One transition over the first byte of a part,
LEMMA LexFirst ==
    ASSUME NEW s \in Seq(Byte), NEW q, NEW esc, NEW f, Lexed(f, s, q, esc),
           NEW a \in 0..Len(s), NEW part, Has(s, a, part), 1 \in 1..Len(part), Len(part) \in Nat
    PROVE  f[a + 1] = LexStep(q, esc, f[a], part[1])
<1>1. Len(s) \in Nat /\ a \in Nat
  BY LenProperties
<1>2. a + 1 \in 1..Len(s) /\ s[a + 1] = part[1] /\ (a + 1) - 1 = a
  BY <1>1 DEF Has
<1>3. f[a + 1] = LexStep(q, esc, f[(a + 1) - 1], s[a + 1])
  BY <1>2 DEF Lexed
<1> QED
  BY <1>2, <1>3

\* over the opening quote,
LEMMA LexOpens ==
    ASSUME NEW s \in Seq(Byte), NEW q, NEW esc, NEW f, Lexed(f, s, q, esc), Has(s, 0, <<q>>)
    PROVE  f[1] = LexStep(q, esc, LexStart, q)
<1>1. 1 \in 1..Len(s) /\ s[0 + 1] = q
  BY LenProperties DEF Has
<1> QED
  BY <1>1 DEF Lexed

\* and over the second byte of a part.
LEMMA LexSecond ==
    ASSUME NEW s \in Seq(Byte), NEW q, NEW esc, NEW f, Lexed(f, s, q, esc),
           NEW a \in 0..Len(s), NEW part, Has(s, a, part), 2 \in 1..Len(part), Len(part) \in Nat
    PROVE  f[a + 2] = LexStep(q, esc, f[a + 1], part[2])
<1>1. Len(s) \in Nat /\ a \in Nat
  BY LenProperties
<1>2. a + 2 \in 1..Len(s) /\ s[a + 2] = part[2] /\ (a + 2) - 1 = a + 1
  BY <1>1 DEF Has
<1>3. f[a + 2] = LexStep(q, esc, f[(a + 2) - 1], s[a + 2])
  BY <1>2 DEF Lexed
<1> QED
  BY <1>2, <1>3

\* What has its quotes doubled is read as it was.
LEMMA DoubledInside ==
    ASSUME NEW name \in Seq(Byte), NEW q \in Byte, q # Bslash,
           NEW esc, esc \notin Byte,
           NEW s \in Seq(Byte), NEW f, Lexed(f, s, q, esc),
           NEW p, Has(s, p, FlattenSeq(Doubled(name, q))), f[p] = [at |-> "in", out |-> <<>>]
    PROVE  f[p + Len(FlattenSeq(Doubled(name, q)))] = [at |-> "in", out |-> name]
<1> DEFINE parts == Doubled(name, q)
           g == [k \in 0..Len(name) |-> [at |-> "in", out |-> SubSeq(name, 1, k)]]
<1>0. parts \in Seq(Seq(Byte)) /\ Len(parts) = Len(name) /\ Len(name) \in Nat
  BY DoubledParts, LenProperties
<1>1. g[0] = [at |-> "in", out |-> <<>>]
  <2>1. 0 \in 0..Len(name) /\ SubSeq(name, 1, 0) = <<>>
    BY <1>0, Prefix
  <2> QED
    BY <2>1
<1>2. g[Len(name)] = [at |-> "in", out |-> name]
  <2>1. Len(name) \in 0..Len(name) /\ SubSeq(name, 1, Len(name)) = name
    BY <1>0, Prefix
  <2> QED
    BY <2>1
<1>3. ASSUME NEW k \in 1..Len(parts), NEW a \in 0..Len(s), Has(s, a, parts[k]), f[a] = g[k - 1]
      PROVE  f[a + Len(parts[k])] = g[k]
  <2> DEFINE c == name[k]
             before == SubSeq(name, 1, k - 1)
             part == parts[k]
  <2>1. /\ c \in Byte /\ Append(before, c) = SubSeq(name, 1, k)
        /\ f[a] = [at |-> "in", out |-> before]
        /\ g[k] = [at |-> "in", out |-> Append(before, c)]
        /\ before \in Seq(Byte)
    <3>1. k \in 1..Len(name) /\ k - 1 \in 0..Len(name) /\ k \in 0..Len(name)
      BY <1>0
    <3>2. c \in Byte /\ Append(before, c) = SubSeq(name, 1, k) /\ before \in Seq(Byte)
      BY <3>1, DoubledParts, Prefix
    <3> QED
      BY <1>3, <3>1, <3>2
  <2>2. part = IF c = q THEN <<c, c>> ELSE <<c>>
    BY <1>0, DoubledParts
  <2>3. Has(s, a, part) /\ Len(part) \in Nat
    BY <1>3, <2>1, <2>2
  <2> HIDE DEF before, c, g, part
  <2>4. CASE c # q
    <3>0. Len(part) = 1
      BY <2>2, <2>4
    <3>1. part[1] = c /\ 1 \in 1..Len(part)
      BY <2>2, <2>4
    <3>2. f[a + 1] = LexStep(q, esc, f[a], c)
      BY <2>3, <3>1, LexFirst
    <3>3. LexStep(q, esc, [at |-> "in", out |-> before], c)
            = [at |-> "in", out |-> Append(before, c)]
      BY <2>1, <2>4 DEF LexStep
    <3> QED
      BY <2>1, <3>0, <3>2, <3>3 DEF part
  <2>5. CASE c = q
    <3>0. Len(part) = 2
      BY <2>2, <2>5
    <3>1. part[1] = c /\ part[2] = c /\ 1 \in 1..Len(part) /\ 2 \in 1..Len(part)
      BY <2>2, <2>5
    <3>2. f[a + 1] = LexStep(q, esc, f[a], c)
      BY <2>3, <3>1, LexFirst
    <3>3. f[a + 1] = [at |-> "quote", out |-> before]
      BY <2>1, <2>5, <3>2 DEF LexStep
    <3>4. f[a + 2] = LexStep(q, esc, f[a + 1], c)
      BY <2>3, <3>1, LexSecond
    <3>5. f[a + 2] = [at |-> "in", out |-> Append(before, c)]
      BY <2>5, <3>3, <3>4 DEF LexStep
    <3> QED
      BY <2>1, <3>0, <3>5 DEF part
  <2> QED
    BY <2>4, <2>5
<1> HIDE DEF g, parts
<1>4. f[p] = g[0] /\ Has(s, p, FlattenSeq(parts))
  BY <1>1 DEF parts
<1>5. f[p + Len(FlattenSeq(parts))] = g[Len(parts)]
  <2>1. s \in Seq(Byte) /\ parts \in Seq(Seq(Byte))
    BY <1>0
  <2>2. ByParts(Byte, s, parts, p, f, g)
    BY <1>4, <1>3, <2>1 DEF ByParts
  <2> QED
    BY <1>0, <2>2, ReadParts
<1> QED
  BY <1>0, <1>2, <1>5 DEF parts

\* A text with its quotes doubled, in quotes, is read as the text (QuoteIdentifier and
\* the first half of QuoteLiteral).
LEMMA DoubledRead ==
    ASSUME NEW name \in Seq(Byte), NEW q \in Byte, q # Bslash
    PROVE  ReadQuoted(<<q>> \o FlattenSeq(Doubled(name, q)) \o <<q>>, q, FALSE) = name
<1> DEFINE whole == FlattenSeq(Doubled(name, q))
           quote == <<q>>
           s == quote \o whole \o quote
           esc == None
<1>0. Len(quote) = 1
  OBVIOUS
<1>1. /\ whole \in Seq(Byte) /\ quote \in Seq(Byte) /\ quote[1] = q
      /\ esc \notin Byte /\ Len(whole) \in Nat
  BY DoubledParts, LenProperties DEF None, Byte
<1> HIDE DEF quote, whole, esc
<1>2. /\ s \in Seq(Byte) /\ Len(s) = Len(quote) + Len(whole) + Len(quote)
      /\ Has(s, 0, quote) /\ Has(s, Len(quote), whole)
      /\ Has(s, Len(quote) + Len(whole), quote)
  BY <1>1, HasThree
<1> HIDE DEF s
<1> DEFINE read_ == ReadQuoted(s, q, FALSE)
<1>3. PICK f : /\ Lexed(f, s, q, esc)
               /\ read_ = IF f[Len(s)].at = "quote" THEN f[Len(s)].out
                                            ELSE Error
  <2>1. esc = Escapes(FALSE) /\ FALSE \in BOOLEAN
    BY DEF esc, Escapes
  <2> QED
    BY <1>1, <1>2, <2>1, LexRun
<1> HIDE DEF read_
<1>4. f[1] = [at |-> "in", out |-> <<>>]
  <2>1. Has(s, 0, <<q>>)
    BY <1>2 DEF quote
  <2>4. f[1] = LexStep(q, esc, LexStart, q)
    BY <1>2, <1>3, <2>1, LexOpens
  <2> QED
    BY <2>4 DEF LexStep, LexStart
<1>5. f[1 + Len(whole)] = [at |-> "in", out |-> name]
  <2>1. Has(s, 1, FlattenSeq(Doubled(name, q)))
    BY <1>0, <1>2 DEF whole
  <2>2. f[1 + Len(FlattenSeq(Doubled(name, q)))] = [at |-> "in", out |-> name]
    BY <1>1, <1>2, <1>3, <1>4, <2>1, DoubledInside
  <2> QED
    BY <2>2 DEF whole
<1>6. f[Len(s)] = [at |-> "quote", out |-> name]
  <2> DEFINE a == Len(quote) + Len(whole)
  <2>1. /\ 1 \in 1..Len(quote) /\ a \in 0..Len(s) /\ a = 1 + Len(whole)
        /\ a + 1 = Len(s) /\ Has(s, a, quote) /\ Len(quote) \in Nat
    BY <1>0, <1>1, <1>2
  <2> HIDE DEF a
  <2>2. f[a + 1] = LexStep(q, esc, f[a], quote[1])
    BY <1>1, <1>2, <1>3, <2>1, LexFirst
  <2>3. f[Len(s)] = LexStep(q, esc, [at |-> "in", out |-> name], q)
    BY <1>1, <1>5, <2>1, <2>2
  <2> QED
    BY <2>3 DEF LexStep
<1>7. read_ = name
  BY <1>3, <1>6
<1> QED
  BY <1>7 DEF read_, s, quote, whole

\* Where backslashes are nothing special, none escapes anything.
LEMMA NoEscape ==
    ASSUME NEW s \in Seq(Byte), NEW q, NEW b, b \notin Byte, NEW f, Lexed(f, s, q, b)
    PROVE  \A k \in 0..Len(s) : f[k] \in LexState /\ f[k].at # "escape"
<1> DEFINE n == Len(s)
           T == {k \in 0..n : f[k].at # "escape"}
<1>0. n \in Nat /\ (\A k \in 1..n : s[k] \in Byte) /\ \A k \in 0..n : f[k] \in LexState
  BY LenProperties, ElementOfSeq DEF Lexed
<1>1. 0 \in T
  BY <1>0 DEF Lexed, LexStart
<1>2. ASSUME NEW k \in 1..n, k - 1 \in T PROVE k \in T
  <2>1. k - 1 \in 0..n /\ k \in 0..n /\ f[k - 1] \in LexState /\ f[k - 1].at # "escape"
    BY <1>0, <1>2
  <2>2. f[k] = LexStep(q, b, f[k - 1], s[k])
    BY DEF Lexed
  <2>3. LexStep(q, b, f[k - 1], s[k]).at # "escape"
    BY <2>1 DEF LexStep, LexState
  <2> QED
    BY <2>1, <2>2, <2>3
<1> HIDE DEF T
<1>3. \A k \in 0..n : k \in T
  BY <1>0, <1>1, <1>2, UpTo
<1> QED
  BY <1>0, <1>3 DEF T

\* Reading z with its backslashes doubled, where backslashes escape, is reading z where
\* they do not.
LEMMA BackslashesInside ==
    ASSUME NEW z \in Seq(Byte), NEW q \in Byte, q # Bslash,
           NEW b, b \notin Byte, NEW r \in Seq(Byte), NEW h, Lexed(h, r, q, b),
           NEW e, e = Bslash, NEW s \in Seq(Byte), NEW f, Lexed(f, s, q, e),
           NEW p \in Nat, Has(r, p, z), Has(s, p, FlattenSeq(Doubled(z, Bslash))),
           NEW now, f[p] = now, h[p] = now
    PROVE  f[p + Len(FlattenSeq(Doubled(z, Bslash)))] = h[p + Len(z)]
<1> DEFINE parts == Doubled(z, Bslash)
           g == [k \in 0..Len(z) |-> h[p + k]]
<1>0. parts \in Seq(Seq(Byte)) /\ Len(parts) = Len(z) /\ Len(z) \in Nat /\ Len(r) \in Nat
  BY DoubledParts, LenProperties
<1>1. g[0] = h[p] /\ g[Len(z)] = h[p + Len(z)]
  <2>1. 0 \in 0..Len(z) /\ Len(z) \in 0..Len(z) /\ p + 0 = p
    BY <1>0
  <2> QED
    BY <2>1
<1>2. ASSUME NEW k \in 1..Len(parts), NEW a \in 0..Len(s), Has(s, a, parts[k]), f[a] = g[k - 1]
      PROVE  f[a + Len(parts[k])] = g[k]
  <2> DEFINE c == z[k]
             part == parts[k]
             st == h[p + (k - 1)]
  <2>1. /\ c \in Byte /\ f[a] = st /\ g[k] = LexStep(q, b, st, c)
        /\ st \in LexState /\ st.at # "escape"
    <3>1. /\ k \in 1..Len(z) /\ k - 1 \in 0..Len(z) /\ k \in 0..Len(z)
          /\ p + k \in 1..Len(r) /\ (p + k) - 1 = p + (k - 1) /\ p + (k - 1) \in 0..Len(r)
      BY <1>0, SMTT(30) DEF Has
    <3>2. c \in Byte /\ r[p + k] = c
      BY <3>1, DoubledParts DEF Has
    <3>3. h[p + k] = LexStep(q, b, h[(p + k) - 1], r[p + k])
      BY <3>1 DEF Lexed
    <3>4. st \in LexState /\ st.at # "escape"
      BY <3>1, NoEscape
    <3>5. f[a] = st /\ g[k] = h[p + k]
      BY <1>2, <3>1
    <3> QED
      BY <3>1, <3>2, <3>3, <3>4, <3>5
  <2>2. part = IF c = Bslash THEN <<c, c>> ELSE <<c>>
    BY <1>0, DoubledParts
  <2>3. Has(s, a, part) /\ Len(part) \in Nat
    BY <1>2, <2>1, <2>2
  <2> HIDE DEF c, g, part, st
  <2>4. CASE c # Bslash
    <3>0. Len(part) = 1
      BY <2>2, <2>4
    <3>1. part[1] = c /\ 1 \in 1..Len(part)
      BY <2>2, <2>4
    <3>2. f[a + 1] = LexStep(q, e, f[a], c)
      BY <2>3, <3>1, LexFirst
    <3>3. LexStep(q, e, st, c) = LexStep(q, b, st, c)
      BY <2>1, <2>4 DEF LexStep
    <3> QED
      BY <2>1, <3>0, <3>2, <3>3 DEF part
  <2>5. CASE c = Bslash
    <3>0. Len(part) = 2
      BY <2>2, <2>5
    <3>1. part[1] = c /\ part[2] = c /\ 1 \in 1..Len(part) /\ 2 \in 1..Len(part)
      BY <2>2, <2>5
    <3>2. f[a + 1] = LexStep(q, e, f[a], c)
      BY <2>3, <3>1, LexFirst
    <3>3. f[a + 2] = LexStep(q, e, f[a + 1], c)
      BY <2>3, <3>1, LexSecond
    <3>4. LexStep(q, e, LexStep(q, e, st, c), c) = LexStep(q, b, st, c)
      <4>1. CASE st.at = "in"
        <5>1. LexStep(q, b, st, c) = [st EXCEPT !.out = Append(st.out, c)]
          BY <2>1, <2>5, <4>1 DEF LexStep
        <5>2. LexStep(q, e, st, c) = [st EXCEPT !.at = "escape"]
          BY <2>1, <2>5, <4>1 DEF LexStep
        <5>3. LexStep(q, e, [st EXCEPT !.at = "escape"], c)
                = [at |-> "in", out |-> Append(st.out, c)]
          BY <2>1 DEF LexStep, LexState
        <5>4. [st EXCEPT !.out = Append(st.out, c)] = [at |-> "in", out |-> Append(st.out, c)]
          <6>1. PICK x, y : st = [at |-> x, out |-> y]
            BY <2>1 DEF LexState
          <6>2. st = [at |-> "in", out |-> y]
            BY <4>1, <6>1
          <6> DEFINE more == Append(st.out, c)
          <6> HIDE DEF more
          <6>3. [[at |-> "in", out |-> y] EXCEPT !.out = more] = [at |-> "in", out |-> more]
            OBVIOUS
          <6>4. [st EXCEPT !.out = more] = [at |-> "in", out |-> more]
            BY <6>2, <6>3, Zenon
          <6> QED
            BY <6>4 DEF more
        <5> QED
          BY <5>1, <5>2, <5>3, <5>4
      <4>2. CASE st.at # "in"
        <5>1. LexStep(q, b, st, c) = [st EXCEPT !.at = "bad"]
          BY <2>1, <2>5, <4>2 DEF LexStep, LexState
        <5>2. LexStep(q, e, st, c) = [st EXCEPT !.at = "bad"]
          BY <2>1, <2>5, <4>2 DEF LexStep, LexState
        <5>3. LexStep(q, e, [st EXCEPT !.at = "bad"], c) = [st EXCEPT !.at = "bad"]
          BY <2>1 DEF LexStep, LexState
        <5> QED
          BY <5>1, <5>2, <5>3
      <4> QED
        BY <4>1, <4>2
    <3> QED
      BY <2>1, <3>0, <3>2, <3>3, <3>4 DEF part
  <2> QED
    BY <2>4, <2>5
<1> HIDE DEF g, parts
<1>4. f[p] = g[0] /\ Has(s, p, FlattenSeq(parts))
  BY <1>1 DEF parts
<1>5. f[p + Len(FlattenSeq(parts))] = g[Len(parts)]
  <2>1. s \in Seq(Byte) /\ parts \in Seq(Seq(Byte))
    BY <1>0
  <2>2. ByParts(Byte, s, parts, p, f, g)
    BY <1>4, <1>2, <2>1 DEF ByParts
  <2> QED
    BY <2>2, ReadParts
<1> QED
  BY <1>0, <1>1, <1>5 DEF parts

\* The same, from the opening to the closing quote.
LEMMA BackslashesRead ==
    ASSUME NEW z \in Seq(Byte), NEW q \in Byte, q # Bslash
    PROVE  ReadQuoted(<<q>> \o FlattenSeq(Doubled(z, Bslash)) \o <<q>>, q, TRUE)
               = ReadQuoted(<<q>> \o z \o <<q>>, q, FALSE)
<1> DEFINE whole == FlattenSeq(Doubled(z, Bslash))
           quote == <<q>>
           s == quote \o whole \o quote
           r == quote \o z \o quote
           b == None
           e == Bslash
<1>0. Len(quote) = 1
  OBVIOUS
<1>1. /\ whole \in Seq(Byte) /\ quote \in Seq(Byte) /\ quote[1] = q
      /\ b \notin Byte /\ e = Bslash /\ Len(whole) \in Nat /\ Len(z) \in Nat
  BY DoubledParts, LenProperties DEF None, Byte
<1> HIDE DEF quote, whole, b, e
<1>2. /\ s \in Seq(Byte) /\ Len(s) = Len(quote) + Len(whole) + Len(quote)
      /\ Has(s, 0, quote) /\ Has(s, Len(quote), whole)
      /\ Has(s, Len(quote) + Len(whole), quote)
  BY <1>1, HasThree
<1>3. /\ r \in Seq(Byte) /\ Len(r) = Len(quote) + Len(z) + Len(quote)
      /\ Has(r, 0, quote) /\ Has(r, Len(quote), z)
      /\ Has(r, Len(quote) + Len(z), quote)
  BY <1>1, HasThree
<1> HIDE DEF s, r
<1> DEFINE x_ == ReadQuoted(s, q, TRUE)
           y_ == ReadQuoted(r, q, FALSE)
<1>4. PICK f : /\ Lexed(f, s, q, e)
               /\ x_ = IF f[Len(s)].at = "quote" THEN f[Len(s)].out ELSE Error
  <2>1. e = Escapes(TRUE) /\ TRUE \in BOOLEAN
    BY DEF e, Escapes
  <2> QED
    BY <1>1, <1>2, <2>1, LexRun
<1>5. PICK h : /\ Lexed(h, r, q, b)
               /\ y_ = IF h[Len(r)].at = "quote" THEN h[Len(r)].out ELSE Error
  <2>1. b = Escapes(FALSE) /\ FALSE \in BOOLEAN
    BY DEF b, Escapes
  <2> QED
    BY <1>1, <1>3, <2>1, LexRun
<1> HIDE DEF x_, y_
<1>6. f[1] = h[1]
  <2>1. Has(s, 0, <<q>>) /\ Has(r, 0, <<q>>)
    BY <1>2, <1>3 DEF quote
  <2>2. f[1] = LexStep(q, e, LexStart, q)
    BY <1>2, <1>4, <2>1, LexOpens
  <2>3. h[1] = LexStep(q, b, LexStart, q)
    BY <1>3, <1>5, <2>1, LexOpens
  <2>4. LexStep(q, e, LexStart, q) = LexStep(q, b, LexStart, q)
    BY DEF LexStep, LexStart
  <2> QED
    BY <2>2, <2>3, <2>4
<1>7. f[1 + Len(whole)] = h[1 + Len(z)]
  <2>1. Has(s, 1, FlattenSeq(Doubled(z, Bslash))) /\ Has(r, 1, z) /\ 1 \in Nat
    BY <1>0, <1>2, <1>3 DEF whole
  <2>2. f[1 + Len(FlattenSeq(Doubled(z, Bslash)))] = h[1 + Len(z)]
    BY <1>1, <1>2, <1>3, <1>4, <1>5, <1>6, <2>1, BackslashesInside, SMTT(30)
  <2> QED
    BY <2>2 DEF whole
<1>8. f[Len(s)] = h[Len(r)]
  <2> DEFINE x == Len(quote) + Len(whole)
             y == Len(quote) + Len(z)
  <2>1. /\ 1 \in 1..Len(quote) /\ x \in 0..Len(s) /\ x = 1 + Len(whole)
        /\ x + 1 = Len(s) /\ Has(s, x, quote) /\ Len(quote) \in Nat
        /\ y \in 0..Len(r) /\ y = 1 + Len(z) /\ y + 1 = Len(r) /\ Has(r, y, quote)
    BY <1>0, <1>1, <1>2, <1>3
  <2> HIDE DEF x, y
  <2>2. f[x + 1] = LexStep(q, e, f[x], quote[1])
    BY <1>1, <1>2, <1>4, <2>1, LexFirst, SMTT(30)
  <2>3. h[y + 1] = LexStep(q, b, h[y], quote[1])
    BY <1>1, <1>3, <1>5, <2>1, LexFirst, SMTT(30)
  <2>4. LexStep(q, e, h[y], q) = LexStep(q, b, h[y], q)
    BY DEF LexStep
  <2> QED
    BY <1>1, <1>7, <2>1, <2>2, <2>3, <2>4
<1>9. x_ = y_
  BY <1>4, <1>5, <1>8
<1> QED
  BY <1>9 DEF x_, y_, s, r, quote, whole

\* A byte is in the doubled text just when it is in the text.
LEMMA DoubledHolds ==
    ASSUME NEW s \in Seq(Byte), NEW c, NEW b \in Byte
    PROVE  Contains(FlattenSeq(Doubled(s, c)), b) <=> Contains(s, b)
<1> DEFINE parts == Doubled(s, c)
           whole == FlattenSeq(parts)
<1>0. /\ parts \in Seq(Seq(Byte)) /\ Len(parts) = Len(s) /\ Len(s) \in Nat
      /\ \A k \in 1..Len(s) : parts[k] = IF s[k] = c THEN <<s[k], s[k]>> ELSE <<s[k]>>
      /\ \A k \in 1..Len(s) : s[k] \in Byte
  BY DoubledParts, LenProperties
<1> HIDE DEF parts
<1>1. ASSUME NEW k \in 1..Len(s), s[k] = b
      PROVE  Contains(whole, b)
  <2>1. PICK pos : Ends(parts, pos)
    BY <1>0, FlattenParts
  <2>2. Has(whole, pos[k - 1], parts[k])
    BY <1>0, <2>1 DEF Ends
  <2>3. 1 \in 1..Len(parts[k]) /\ parts[k][1] = b
    <3>1. parts[k] \in {<<b>>, <<b, b>>}
      BY <1>0, <1>1, Zenon
    <3>2. \A p \in {<<b>>, <<b, b>>} : 1 \in 1..Len(p) /\ p[1] = b
      OBVIOUS
    <3> QED
      BY <3>1, <3>2
  <2>4. whole \in Seq(Byte) /\ Len(whole) \in Nat
    BY <1>0, FlattenParts, LenProperties
  <2>5. pos[k - 1] + 1 \in 1..Len(whole) /\ whole[pos[k - 1] + 1] = b
    BY <1>0, <2>2, <2>3, <2>4, SMTT(30) DEF Has
  <2> QED
    BY <2>5 DEF Contains
<1>2. ASSUME ~Contains(s, b)
      PROVE  ~Contains(whole, b)
  <2> DEFINE M == Byte \ {b}
  <2>1. \A k \in 1..Len(s) : s[k] \in M
    BY <1>0, <1>2 DEF Contains
  <2> HIDE DEF M
  <2>2. \A k \in 1..Len(s) : parts[k] \in Seq(M)
    <3>1. \A x \in M : <<x, x>> \in Seq(M) /\ <<x>> \in Seq(M)
      OBVIOUS
    <3> QED
      BY <1>0, <2>1, <3>1
  <2>3. parts \in Seq(Seq(M))
    <3>1. parts = [k \in 1..Len(s) |-> parts[k]]
      BY <1>0
    <3> QED
      BY <1>0, <2>2, <3>1
  <2>4. whole \in Seq(M)
    BY <2>3, FlattenParts
  <2>5. \A k \in 1..Len(whole) : whole[k] \in M
    BY <2>4, ElementOfSeq
  <2> QED
    BY <2>5 DEF Contains, M
<1> QED
  BY <1>1, <1>2 DEF parts, Contains

\* Where one of three parts holds a byte, and only there, the whole does.
LEMMA ThreeHold ==
    ASSUME NEW x \in Seq(Byte), NEW y \in Seq(Byte), NEW z \in Seq(Byte),
           NEW byte \in Byte, ~Contains(x, byte), ~Contains(z, byte)
    PROVE  Contains(x \o y \o z, byte) <=> Contains(y, byte)
<1> DEFINE s == x \o y \o z
<1>0. x \in Seq(Byte) /\ y \in Seq(Byte) /\ z \in Seq(Byte) /\ s = x \o y \o z
  OBVIOUS
<1> HIDE DEF s
<1>1. /\ s \in Seq(Byte) /\ Len(s) = Len(x) + Len(y) + Len(z)
      /\ Has(s, 0, x) /\ Has(s, Len(x), y) /\ Has(s, Len(x) + Len(y), z)
  <2>1. x \o y \in Seq(Byte) /\ s \in Seq(Byte)
    BY <1>0, ConcatProperties
  <2>2. /\ Len(s) = Len(x \o y) + Len(z) /\ Len(x \o y) = Len(x) + Len(y)
        /\ Len(x) \in Nat /\ Len(y) \in Nat /\ Len(z) \in Nat
    BY <1>0, <2>1, ConcatProperties, LenProperties
  <2>3. Has(s, 0, s)
    BY <2>1, HasAll
  <2>4. Has(s, 0, x \o y) /\ Has(s, 0 + Len(x \o y), z)
    BY <1>0, <2>1, <2>3, HasBoth
  <2>5. Has(s, 0, x) /\ Has(s, 0 + Len(x), y)
    BY <1>0, <2>1, <2>4, HasBoth
  <2> QED
    BY <2>1, <2>2, <2>4, <2>5
<1>2. Len(x) \in Nat /\ Len(y) \in Nat /\ Len(z) \in Nat
  BY LenProperties
<1>3. ASSUME NEW k \in 1..Len(y), y[k] = byte PROVE Contains(s, byte)
  <2>1. Len(x) + k \in 1..Len(s) /\ s[Len(x) + k] = byte
    BY <1>1, <1>2, <1>3 DEF Has
  <2> QED
    BY <2>1 DEF Contains
<1>4. ASSUME NEW k \in 1..Len(s), s[k] = byte PROVE Contains(y, byte)
  <2>1. CASE k <= Len(x)
    <3>1. k \in 1..Len(x) /\ s[0 + k] = x[k] /\ 0 + k = k
      BY <1>1, <1>2, <2>1 DEF Has
    <3> QED
      BY <1>4, <3>1 DEF Contains
  <2>2. CASE k > Len(x) /\ k <= Len(x) + Len(y)
    <3> DEFINE j == k - Len(x)
    <3>1. j \in 1..Len(y) /\ Len(x) + j = k
      BY <1>2, <2>2
    <3>2. s[Len(x) + j] = y[j]
      BY <1>1, <3>1 DEF Has
    <3> QED
      BY <1>4, <3>1, <3>2 DEF Contains
  <2>3. CASE k > Len(x) + Len(y)
    <3> DEFINE j == k - (Len(x) + Len(y))
    <3>1. j \in 1..Len(z) /\ Len(x) + Len(y) + j = k
      BY <1>1, <1>2, <2>3
    <3>2. s[Len(x) + Len(y) + j] = z[j]
      BY <1>1, <3>1 DEF Has
    <3> QED
      BY <1>4, <3>1, <3>2 DEF Contains
  <2> QED
    BY <1>1, <1>2, <2>1, <2>2, <2>3
<1> QED
  BY <1>0, <1>3, <1>4 DEF Contains

\* Quoting a literal neither makes a zero byte nor takes one away.
LEMMA LiteralHolds ==
    ASSUME NEW literal \in Seq(Byte)
    PROVE  Contains(QuoteLiteral(literal), 0) <=> Contains(literal, 0)
<1> DEFINE quoted == FlattenSeq(Doubled(literal, Apostrophe))
           twice == FlattenSeq(Doubled(quoted, Bslash))
           quote == <<Apostrophe>>
           start == <<Space, 69, Apostrophe>>
<1>0. /\ quoted \in Seq(Byte) /\ quote \in Seq(Byte) /\ start \in Seq(Byte) /\ 0 \in Byte
      /\ ~Contains(quote, 0) /\ ~Contains(start, 0)
  <2>1. quoted \in Seq(Byte)
    BY DoubledParts
  <2>2. quote \in Seq(Byte) /\ start \in Seq(Byte) /\ 0 \in Byte
    BY DEF Apostrophe, Space, Byte
  <2>3. ~Contains(quote, 0) /\ ~Contains(start, 0)
    BY DEF Contains, Apostrophe, Space
  <2> QED
    BY <2>1, <2>2, <2>3
<1>1. QuoteLiteral(literal) = IF Contains(quoted, Bslash) THEN start \o twice \o quote
                                                          ELSE quote \o quoted \o quote
  BY DEF QuoteLiteral, DoubleBackslashes, Each, Doubled
<1>2. Contains(quoted, 0) <=> Contains(literal, 0)
  BY <1>0, DoubledHolds
<1> HIDE DEF quoted, quote, start
<1>3. twice \in Seq(Byte) /\ (Contains(twice, 0) <=> Contains(quoted, 0))
  BY <1>0, DoubledParts, DoubledHolds
<1> HIDE DEF twice
<1> QED
  BY <1>0, <1>1, <1>2, <1>3, ThreeHold

\* What QuoteLiteral has made is read as the literal it was, in either of its forms.
LEMMA LiteralRead ==
    ASSUME NEW literal \in Seq(Byte)
    PROVE  ReadLiteral(QuoteLiteral(literal)) = literal
<1> DEFINE quoted == FlattenSeq(Doubled(literal, Apostrophe))
           twice == FlattenSeq(Doubled(quoted, Bslash))
           quote == <<Apostrophe>>
<1>0. /\ quoted \in Seq(Byte) /\ quote \in Seq(Byte)
      /\ Apostrophe \in Byte /\ Apostrophe # Bslash
  BY DoubledParts DEF Apostrophe, Bslash, Byte
<1>1. twice \in Seq(Byte)
  BY <1>0, DoubledParts
<1>2. QuoteLiteral(literal) = IF Contains(quoted, Bslash)
                              THEN <<Space, 69, Apostrophe>> \o twice \o quote
                              ELSE quote \o quoted \o quote
  BY DEF QuoteLiteral, DoubleBackslashes, Each, Doubled
<1>3. ReadQuoted(quote \o quoted \o quote, Apostrophe, FALSE) = literal
  BY <1>0, DoubledRead
<1>4. ReadQuoted(quote \o twice \o quote, Apostrophe, TRUE) = literal
  BY <1>0, <1>3, BackslashesRead
<1>5. quote[1] = Apostrophe /\ Len(quote) = 1
  OBVIOUS
<1> HIDE DEF quoted, twice, quote
<1>6. CASE ~Contains(quoted, Bslash)
  <2> DEFINE s == quote \o quoted \o quote
  <2>1. Has(s, 0, quote) /\ s \in Seq(Byte) /\ Len(s) \in Nat
    BY <1>0, HasThree, LenProperties
  <2> HIDE DEF s
  <2>2. s[1] = Apostrophe
    BY <1>5, <2>1 DEF Has
  <2>3. Len(s) > 2 => SubSeq(s, 1, 2)[1] = Apostrophe
    BY <2>1, <2>2
  <2>4. <<Space, 69>>[1] # Apostrophe
    BY DEF Space, Apostrophe
  <2>5. ReadLiteral(s) = ReadQuoted(s, Apostrophe, FALSE)
    BY <2>3, <2>4 DEF ReadLiteral
  <2> QED
    BY <1>2, <1>3, <1>6, <2>5 DEF s
<1>7. CASE Contains(quoted, Bslash)
  <2> DEFINE start == <<Space, 69, Apostrophe>>
             s == start \o twice \o quote
             r == quote \o twice \o quote
  <2>0. start \in Seq(Byte) /\ Len(start) = 3 /\ start[1] = Space /\ start[2] = 69 /\ start[3] = Apostrophe
    BY DEF Byte, Space, Apostrophe
  <2> HIDE DEF start
  <2>1. /\ s \in Seq(Byte) /\ Len(s) = Len(start) + Len(twice) + Len(quote)
        /\ Has(s, 0, start) /\ Has(s, Len(start), twice)
        /\ Has(s, Len(start) + Len(twice), quote)
    <3>1. start \in Seq(Byte) /\ twice \in Seq(Byte) /\ quote \in Seq(Byte)
      BY <1>0, <1>1, <2>0
    <3> QED
      BY <3>1, HasThree
  <2>2. /\ r \in Seq(Byte) /\ Len(r) = Len(quote) + Len(twice) + Len(quote)
        /\ Has(r, 0, quote) /\ Has(r, Len(quote), twice)
        /\ Has(r, Len(quote) + Len(twice), quote)
    BY <1>0, <1>1, HasThree
  <2> HIDE DEF s, r
  <2>3. Len(s) \in Nat /\ Len(r) \in Nat /\ Len(s) = Len(r) + 2 /\ Len(twice) \in Nat /\ Len(r) = Len(twice) + 2
    BY <1>1, <1>5, <2>0, <2>1, <2>2, LenProperties
  <2>4. s[1] = Space /\ s[2] = 69
    BY <2>0, <2>1 DEF Has
  <2>5. SubSeq(s, 1, 2) = <<Space, 69>>
    <3> DEFINE u == SubSeq(s, 1, 2)
               v == <<Space, 69>>
    <3>1. v \in Seq(Byte) /\ Len(v) = 2 /\ v[1] = Space /\ v[2] = 69
      BY DEF Byte, Space
    <3>2. u \in Seq(Byte) /\ Len(u) = 2 /\ u[1] = Space /\ u[2] = 69
      <4>1. \A j \in 1..2 : s[j] \in Byte
        BY <2>4, SMTT(30) DEF Byte, Space
      <4>2. u \in Seq(Byte) /\ Len(u) = 2 /\ \A j \in 1..2 - 1 + 1 : u[j] = s[1 + j - 1]
        BY <4>1, SubSeqProperties
      <4> QED
        BY <2>4, <4>2
    <3> HIDE DEF u, v
    <3>3. \A j \in 1..Len(u) : u[j] = v[j]
      BY <3>1, <3>2
    <3>4. u = v
      BY <3>1, <3>2, <3>3, SeqEqual
    <3> QED
      BY <3>4 DEF u, v
  <2>6. SubSeq(s, 3, Len(s)) = r
    <3> DEFINE u == SubSeq(s, 3, Len(s))
    <3>1. \A j \in 3..Len(s) : s[j] \in Byte
      BY <2>1, ElementOfSeq
    <3>2. /\ u \in Seq(Byte) /\ Len(u) = Len(r) /\ \A j \in 1..Len(r) : u[j] = s[j + 2]
      <4>1. /\ u \in Seq(Byte) /\ Len(u) = (IF 3 <= Len(s) THEN Len(s) - 3 + 1 ELSE 0)
            /\ \A j \in 1..(Len(s) - 3 + 1) : u[j] = s[3 + j - 1]
        BY <2>3, <3>1, SubSeqProperties
      <4>2. \A j \in 1..Len(r) : j \in 1..(Len(s) - 3 + 1) /\ 3 + j - 1 = j + 2
        BY <2>3
      <4> QED
        BY <2>3, <4>1, <4>2
    <3> HIDE DEF u
    <3>3. ASSUME NEW j \in 1..Len(r) PROVE s[j + 2] = r[j]
      <4>1. CASE j = 1
        <5>1. s[0 + 3] = Apostrophe /\ r[0 + 1] = Apostrophe
          BY <1>5, <2>0, <2>1, <2>2 DEF Has
        <5> QED
          BY <4>1, <5>1
      <4>2. CASE j = Len(r)
        <5>1. s[3 + Len(twice) + 1] = Apostrophe /\ r[1 + Len(twice) + 1] = Apostrophe
          BY <1>5, <2>0, <2>1, <2>2 DEF Has
        <5> QED
          BY <2>3, <4>2, <5>1
      <4>3. CASE j # 1 /\ j # Len(r)
        <5> DEFINE m == j - 1
        <5>1. m \in 1..Len(twice)
          BY <2>3, <4>3
        <5>2. s[3 + m] = twice[m] /\ r[1 + m] = twice[m]
          BY <1>5, <2>0, <2>1, <2>2, <5>1, SMTT(30) DEF Has
        <5>3. 3 + m = j + 2 /\ 1 + m = j
          OBVIOUS
        <5> QED
          BY <5>2, <5>3
      <4> QED
        BY <4>1, <4>2, <4>3
    <3>4. \A j \in 1..Len(u) : u[j] = r[j]
      BY <3>2, <3>3
    <3>5. u = r
      BY <2>2, <3>2, <3>4, SeqEqual
    <3> QED
      BY <3>5 DEF u
  <2>7. ReadLiteral(s) = ReadQuoted(r, Apostrophe, TRUE)
    <3>1. Len(s) > 2
      BY <2>3
    <3> QED
      BY <2>5, <2>6, <3>1, Zenon DEF ReadLiteral
  <2> QED
    BY <1>2, <1>4, <1>7, <2>7 DEF s, r, start
<1> QED
  BY <1>6, <1>7

SplitStep(sep, parts, c) ==
    IF c = sep THEN Append(parts, <<>>) ELSE [parts EXCEPT ![Len(parts)] = Append(@, c)]
SplitState == Seq(Seq(Byte)) \ {<<>>}
SplitStart == << <<>> >>

\* A transition of strings.Split.
LEMMA SplitStepType ==
    ASSUME NEW sep, NEW parts \in SplitState, NEW c \in Byte
    PROVE  SplitStep(sep, parts, c) \in SplitState
<1>1. parts \in Seq(Seq(Byte)) /\ parts # <<>> /\ Len(parts) \in Nat \ {0} /\ <<>> \in Seq(Byte)
  BY EmptySeq DEF SplitState
<1>2. CASE c = sep
  <2>1. Append(parts, <<>>) \in Seq(Seq(Byte)) /\ Append(parts, <<>>) # <<>>
    BY <1>1, AppendProperties
  <2> QED
    BY <1>2, <2>1 DEF SplitStep, SplitState
<1>3. CASE c # sep
  <2> DEFINE last == parts[Len(parts)]
             more == Append(last, c)
             now == [parts EXCEPT ![Len(parts)] = more]
  <2>1. Len(parts) \in 1..Len(parts) /\ last \in Seq(Byte)
    BY <1>1, ElementOfSeq
  <2> HIDE DEF last
  <2>2. more \in Seq(Byte)
    BY <2>1, AppendProperties
  <2> HIDE DEF more
  <2>3. now \in Seq(Seq(Byte)) /\ Len(now) = Len(parts)
    BY <1>1, <2>1, <2>2, ExceptSeq
  <2>4. now # <<>>
    BY <1>1, <2>3
  <2> QED
    BY <1>3, <2>3, <2>4 DEF SplitStep, SplitState, last, more
<1> QED
  BY <1>2, <1>3

\* strings.Split is what a run of these transitions ends with.
LEMMA SplitRun ==
    ASSUME NEW s \in Seq(Byte), NEW sep
    PROVE  \E f \in [0..Len(s) -> SplitState] :
               /\ f[0] = SplitStart
               /\ \A k \in 1..Len(s) : f[k] = SplitStep(sep, f[k - 1], s[k])
               /\ SplitAt(s, sep) = f[Len(s)]
<1> DEFINE n == Len(s)
           t == [p \in SplitState \X Byte |-> SplitStep(sep, p[1], p[2])]
           Goes_(h) == h = [k \in 0..n |-> IF k = 0 THEN SplitStart
                                           ELSE SplitStep(sep, h[k - 1], s[k])]
           f == CHOOSE h : Goes_(h)
<1>0. n \in Nat /\ (\A k \in 1..n : s[k] \in Byte) /\ SplitStart \in SplitState
  BY LenProperties, ElementOfSeq, EmptySeq DEF SplitStart, SplitState
<1>1. t \in [SplitState \X Byte -> SplitState]
  BY SplitStepType
<1>2. \E h : Goes_(h)
  <2>1. PICK h \in [0..n -> SplitState] : Follows(h, t, SplitStart, s, n)
    BY <1>0, <1>1, RunExists
  <2>2. ASSUME NEW k \in 0..n
        PROVE  h[k] = IF k = 0 THEN SplitStart ELSE SplitStep(sep, h[k - 1], s[k])
    <3>1. h[k] = IF k = 0 THEN SplitStart ELSE t[<<h[k - 1], s[k]>>]
      BY <2>1 DEF Follows
    <3>2. k # 0 => <<h[k - 1], s[k]>> \in SplitState \X Byte
      BY <1>0, <2>1, SMTT(30)
    <3> QED
      BY <3>1, <3>2
  <2>3. h = [k \in 0..n |-> h[k]]
    BY <2>1
  <2>4. Goes_(h)
    BY <2>2, <2>3
  <2> QED
    BY <2>4
<1>3. Goes_(f)
  BY <1>2
<1>4. SplitAt(s, sep) = f[n]
  BY DEF SplitAt, Run, SplitStep, SplitStart
<1> HIDE DEF f
<1>5. \A k \in 0..n : f[k] = IF k = 0 THEN SplitStart ELSE SplitStep(sep, f[k - 1], s[k])
  BY <1>3
<1>6. f[0] = SplitStart /\ f = [k \in 0..n |-> f[k]]
  BY <1>0, <1>3, <1>5
<1>7. ASSUME NEW k \in 1..n PROVE f[k] = SplitStep(sep, f[k - 1], s[k])
  <2>1. k \in 0..n /\ k # 0
    BY <1>0
  <2> QED
    BY <1>5, <2>1
<1>8. ASSUME NEW k \in 1..n, f[k - 1] \in SplitState PROVE f[k] = t[<<f[k - 1], s[k]>>]
  <2>1. <<f[k - 1], s[k]>> \in SplitState \X Byte
    BY <1>0, <1>8
  <2> QED
    BY <1>7, <2>1
<1> HIDE DEF t
<1>9. \A k \in 0..n : f[k] \in SplitState
  BY <1>0, <1>1, <1>6, <1>8, RunTyped
<1>10. f \in [0..n -> SplitState]
  BY <1>6, <1>9
<1> QED
  BY <1>4, <1>6, <1>7, <1>10

\* What comes before a zero byte is a text.
LEMMA BeforeZeroType == ASSUME NEW name \in Seq(Byte) PROVE BeforeZero(name) \in Seq(Byte)
<1>1. SplitAt(name, 0) \in SplitState
  <2>1. PICK f \in [0..Len(name) -> SplitState] : SplitAt(name, 0) = f[Len(name)]
    BY SplitRun
  <2>2. Len(name) \in 0..Len(name)
    BY LenProperties
  <2> QED
    BY <2>1, <2>2
<1>2. Len(SplitAt(name, 0)) \in Nat \ {0}
  BY <1>1, EmptySeq DEF SplitState
<1>3. 1 \in 1..Len(SplitAt(name, 0))
  BY <1>2
<1>4. SplitAt(name, 0)[1] \in Seq(Byte)
  BY <1>1, <1>3, ElementOfSeq DEF SplitState
<1> QED
  BY <1>4 DEF BeforeZero

\* What QuoteIdentifier has made is read as the name, up to a zero byte.
LEMMA IdentifierRead ==
    ASSUME NEW name \in Seq(Byte)
    PROVE  ReadQuoted(QuoteIdentifier(name), Quote, FALSE) = BeforeZero(name)
<1> DEFINE x == BeforeZero(name)
<1>1. x \in Seq(Byte) /\ Quote \in Byte /\ Quote # Bslash
  BY BeforeZeroType DEF Quote, Bslash, Byte
<1>2. QuoteIdentifier(name) = <<Quote>> \o FlattenSeq(Doubled(x, Quote)) \o <<Quote>>
  BY DEF QuoteIdentifier, Each, Doubled
<1> HIDE DEF x
<1>3. ReadQuoted(<<Quote>> \o FlattenSeq(Doubled(x, Quote)) \o <<Quote>>, Quote, FALSE) = x
  BY <1>1, DoubledRead
<1> QED
  BY <1>2, <1>3, Zenon DEF x

--------------------------------------------------------------------------------
(* bytea                                                                      *)

HexStep(st, c) ==
    IF st.out = Error \/ ~IsHex(c) THEN [st EXCEPT !.out = Error]
    ELSE IF st.held = <<>> THEN [st EXCEPT !.held = <<DigitValue(c)>>]
    ELSE [out |-> Append(st.out, st.held[1] * 16 + DigitValue(c)), held |-> <<>>]

ByteaStep(st, c) ==
    LET h == Append(st.held, c)
    IN  IF st.out = Error THEN st ELSE
        CASE Len(h) = 1 -> IF c = Bslash THEN [st EXCEPT !.held = h]
                           ELSE [st EXCEPT !.out = Append(@, c)]
          [] Len(h) = 2 /\ c = Bslash -> [out |-> Append(st.out, c), held |-> <<>>]
          [] Len(h) > 1 /\ ~IsOctal(c) /\ (Len(h) = 2 => c # Bslash) ->
                [st EXCEPT !.out = Error]
          [] Len(h) \in 2..3 /\ IsOctal(c) -> [st EXCEPT !.held = h]
          [] Len(h) = 4 /\ IsOctal(c) /\ h[2] > 51 -> [st EXCEPT !.out = Error]
          [] OTHER -> [out |-> Append(st.out, (h[2] - 48) * 64 + (h[3] - 48) * 8
                                              + h[4] - 48),
                       held |-> <<>>]

ByteaState == [out : Seq(Int), held : Seq(Int)]
ByteaStart == [out |-> <<>>, held |-> <<>>]

\* Transitions of ParseBytea, for the hex format
LEMMA HexStepType ==
    ASSUME NEW st \in ByteaState, NEW c \in Byte
    PROVE  HexStep(st, c) \in ByteaState
<1>1. st.out \in Seq(Int) /\ st.held \in Seq(Int) /\ c \in Int /\ Error \in Seq(Int)
  BY DEF ByteaState, Byte, Error
<1>2. DigitValue(c) \in Int
  BY <1>1 DEF DigitValue
<1>3. <<DigitValue(c)>> \in Seq(Int) /\ <<>> \in Seq(Int)
  BY <1>2
<1>4. st.held # <<>> => st.held[1] * 16 + DigitValue(c) \in Int
  <2>1. st.held # <<>> => 1 \in 1..Len(st.held)
    BY <1>1, EmptySeq
  <2>2. st.held # <<>> => st.held[1] \in Int
    BY <1>1, <2>1, ElementOfSeq
  <2> QED
    BY <1>2, <2>2
<1>5. st.held # <<>> => Append(st.out, st.held[1] * 16 + DigitValue(c)) \in Seq(Int)
  BY <1>1, <1>4, AppendProperties
<1> QED
  BY <1>1, <1>3, <1>5 DEF HexStep, ByteaState

\* and for the escape format.
LEMMA ByteaStepType ==
    ASSUME NEW st \in ByteaState, NEW c \in Byte
    PROVE  ByteaStep(st, c) \in ByteaState
<1> DEFINE h == Append(st.held, c)
           octal == (h[2] - 48) * 64 + (h[3] - 48) * 8 + h[4] - 48
<1>1. st.out \in Seq(Int) /\ st.held \in Seq(Int) /\ c \in Int /\ Error \in Seq(Int)
  BY DEF ByteaState, Byte, Error
<1>2. h \in Seq(Int) /\ Len(h) \in Nat /\ Append(st.out, c) \in Seq(Int) /\ <<>> \in Seq(Int)
      /\ Len(h) # 0
  BY <1>1, AppendProperties, LenProperties
<1>3. Len(h) > 3 => Append(st.out, octal) \in Seq(Int)
  <2>1. Len(h) > 3 => h[2] \in Int /\ h[3] \in Int /\ h[4] \in Int
    BY <1>2, ElementOfSeq
  <2>2. Len(h) > 3 => octal \in Int
    <3> HIDE DEF h
    <3> QED
      BY <2>1, SMTT(30)
  <2> HIDE DEF octal
  <2> QED
    BY <1>1, <2>2, AppendProperties
<1>4. IsOctal(c) \/ ~IsOctal(c)
  OBVIOUS
<1>5. [st EXCEPT !.out = Append(st.out, c)] \in ByteaState /\ [st EXCEPT !.held = h] \in ByteaState
      /\ [out |-> Append(st.out, c), held |-> <<>>] \in ByteaState /\ [st EXCEPT !.out = Error] \in ByteaState
  BY <1>1, <1>2 DEF ByteaState
<1>6. Len(h) > 3 => [out |-> Append(st.out, octal), held |-> <<>>] \in ByteaState
  BY <1>2, <1>3 DEF ByteaState
<1>7. Len(h) = 1 \/ Len(h) = 2 \/ Len(h) = 3 \/ Len(h) > 3
  BY <1>2, SMTT(30)
<1>8. CASE Len(h) > 3
  BY <1>4, <1>5, <1>6, <1>8 DEF ByteaStep
<1>9. CASE Len(h) = 1
  BY <1>5, <1>9 DEF ByteaStep
<1>10. CASE Len(h) = 2 \/ Len(h) = 3
  <2>1. Len(h) \in 2..3 /\ Len(h) > 1
    BY <1>10
  <2> HIDE DEF h
  <2>2. ByteaStep(st, c) \in {st, [st EXCEPT !.out = Append(st.out, c)], [st EXCEPT !.held = h],
             [out |-> Append(st.out, c), held |-> <<>>], [st EXCEPT !.out = Error]}
    BY <1>4, <2>1 DEF ByteaStep, h
  <2> QED
    BY <1>5, <2>2
<1> QED
  BY <1>7, <1>8, <1>9, <1>10

\* The hex format is read by a run of its transitions,
LEMMA HexRun ==
    ASSUME NEW s \in Seq(Byte)
    PROVE  \E f \in [0..Len(s) -> ByteaState] :
               /\ f[0] = ByteaStart
               /\ \A k \in 1..Len(s) : f[k] = HexStep(f[k - 1], s[k])
               /\ Run(HexStep, ByteaStart, s) = f[Len(s)]
<1> DEFINE n == Len(s)
           t == [p \in ByteaState \X Byte |-> HexStep(p[1], p[2])]
           Goes_(h) == h = [k \in 0..n |-> IF k = 0 THEN ByteaStart
                                           ELSE HexStep(h[k - 1], s[k])]
           f == CHOOSE h : Goes_(h)
<1>0. n \in Nat /\ (\A k \in 1..n : s[k] \in Byte) /\ ByteaStart \in ByteaState
  BY LenProperties, ElementOfSeq, EmptySeq DEF ByteaStart, ByteaState
<1>1. t \in [ByteaState \X Byte -> ByteaState]
  BY HexStepType
<1>2. \E h : Goes_(h)
  <2>1. PICK h \in [0..n -> ByteaState] : Follows(h, t, ByteaStart, s, n)
    BY <1>0, <1>1, RunExists
  <2>2. ASSUME NEW k \in 0..n
        PROVE  h[k] = IF k = 0 THEN ByteaStart ELSE HexStep(h[k - 1], s[k])
    <3>1. h[k] = IF k = 0 THEN ByteaStart ELSE t[<<h[k - 1], s[k]>>]
      BY <2>1 DEF Follows
    <3>2. k # 0 => <<h[k - 1], s[k]>> \in ByteaState \X Byte
      BY <1>0, <2>1, SMTT(30)
    <3> QED
      BY <3>1, <3>2
  <2>3. h = [k \in 0..n |-> h[k]]
    BY <2>1
  <2>4. Goes_(h)
    BY <2>2, <2>3
  <2> QED
    BY <2>4
<1>3. Goes_(f)
  BY <1>2
<1>4. Run(HexStep, ByteaStart, s) = f[n]
  BY DEF Run
<1> HIDE DEF f
<1>5. \A k \in 0..n : f[k] = IF k = 0 THEN ByteaStart ELSE HexStep(f[k - 1], s[k])
  BY <1>3
<1>6. f[0] = ByteaStart /\ f = [k \in 0..n |-> f[k]]
  BY <1>0, <1>3, <1>5
<1>7. ASSUME NEW k \in 1..n PROVE f[k] = HexStep(f[k - 1], s[k])
  <2>1. k \in 0..n /\ k # 0
    BY <1>0
  <2> QED
    BY <1>5, <2>1
<1>8. ASSUME NEW k \in 1..n, f[k - 1] \in ByteaState PROVE f[k] = t[<<f[k - 1], s[k]>>]
  <2>1. <<f[k - 1], s[k]>> \in ByteaState \X Byte
    BY <1>0, <1>8
  <2> QED
    BY <1>7, <2>1
<1> HIDE DEF t
<1>9. \A k \in 0..n : f[k] \in ByteaState
  BY <1>0, <1>1, <1>6, <1>8, RunTyped
<1>10. f \in [0..n -> ByteaState]
  BY <1>6, <1>9
<1> QED
  BY <1>4, <1>6, <1>7, <1>10

\* and so is the escape format.
LEMMA ByteaRun ==
    ASSUME NEW s \in Seq(Byte)
    PROVE  \E f \in [0..Len(s) -> ByteaState] :
               /\ f[0] = ByteaStart
               /\ \A k \in 1..Len(s) : f[k] = ByteaStep(f[k - 1], s[k])
               /\ Run(ByteaStep, ByteaStart, s) = f[Len(s)]
<1> DEFINE n == Len(s)
           t == [p \in ByteaState \X Byte |-> ByteaStep(p[1], p[2])]
           Goes_(h) == h = [k \in 0..n |-> IF k = 0 THEN ByteaStart
                                           ELSE ByteaStep(h[k - 1], s[k])]
           f == CHOOSE h : Goes_(h)
<1>0. n \in Nat /\ (\A k \in 1..n : s[k] \in Byte) /\ ByteaStart \in ByteaState
  BY LenProperties, ElementOfSeq, EmptySeq DEF ByteaStart, ByteaState
<1>1. t \in [ByteaState \X Byte -> ByteaState]
  BY ByteaStepType
<1>2. \E h : Goes_(h)
  <2>1. PICK h \in [0..n -> ByteaState] : Follows(h, t, ByteaStart, s, n)
    BY <1>0, <1>1, RunExists
  <2>2. ASSUME NEW k \in 0..n
        PROVE  h[k] = IF k = 0 THEN ByteaStart ELSE ByteaStep(h[k - 1], s[k])
    <3>1. h[k] = IF k = 0 THEN ByteaStart ELSE t[<<h[k - 1], s[k]>>]
      BY <2>1 DEF Follows
    <3>2. k # 0 => <<h[k - 1], s[k]>> \in ByteaState \X Byte
      BY <1>0, <2>1, SMTT(30)
    <3> QED
      BY <3>1, <3>2
  <2>3. h = [k \in 0..n |-> h[k]]
    BY <2>1
  <2>4. Goes_(h)
    BY <2>2, <2>3
  <2> QED
    BY <2>4
<1>3. Goes_(f)
  BY <1>2
<1>4. Run(ByteaStep, ByteaStart, s) = f[n]
  BY DEF Run
<1> HIDE DEF f
<1>5. \A k \in 0..n : f[k] = IF k = 0 THEN ByteaStart ELSE ByteaStep(f[k - 1], s[k])
  BY <1>3
<1>6. f[0] = ByteaStart /\ f = [k \in 0..n |-> f[k]]
  BY <1>0, <1>3, <1>5
<1>7. ASSUME NEW k \in 1..n PROVE f[k] = ByteaStep(f[k - 1], s[k])
  <2>1. k \in 0..n /\ k # 0
    BY <1>0
  <2> QED
    BY <1>5, <2>1
<1>8. ASSUME NEW k \in 1..n, f[k - 1] \in ByteaState PROVE f[k] = t[<<f[k - 1], s[k]>>]
  <2>1. <<f[k - 1], s[k]>> \in ByteaState \X Byte
    BY <1>0, <1>8
  <2> QED
    BY <1>7, <2>1
<1> HIDE DEF t
<1>9. \A k \in 0..n : f[k] \in ByteaState
  BY <1>0, <1>1, <1>6, <1>8, RunTyped
<1>10. f \in [0..n -> ByteaState]
  BY <1>6, <1>9
<1> QED
  BY <1>4, <1>6, <1>7, <1>10

\* ParseBytea is one of them.
LEMMA ParseIs ==
    ASSUME NEW s
    PROVE  ParseBytea(s) =
               LET hex == Len(s) >= 2 /\ SubSeq(s, 1, 2) = <<Bslash, 120>>
                   end == IF hex THEN Run(HexStep, ByteaStart, SubSeq(s, 3, Len(s)))
                          ELSE Run(ByteaStep, ByteaStart, s)
               IN  IF end.held = <<>> THEN end.out ELSE Error
BY DEF ParseBytea, Run, HexStep, ByteaStep, ByteaStart

\* Digits, and the digits of a byte.
LEMMA HexNibble ==
    ASSUME NEW d \in 0..15
    PROVE  Digit(d) \in Byte /\ IsHex(Digit(d)) /\ DigitValue(Digit(d)) = d
BY DEF Digit, Byte, IsHex, IsDigit, DigitValue

\* A byte in hex,
LEMMA HexByte ==
    ASSUME NEW b \in Byte
    PROVE  b \div 16 \in 0..15 /\ b % 16 \in 0..15 /\ (b \div 16) * 16 + (b % 16) = b
BY DEF Byte

\* and in octal.
LEMMA OctalByte ==
    ASSUME NEW b \in Byte
    PROVE  /\ b \div 64 \in 0..3 /\ ((b \div 8) % 8) \in 0..7 /\ b % 8 \in 0..7
           /\ (b \div 64) * 64 + ((b \div 8) % 8) * 8 + (b % 8) = b
BY DEF Byte

HexParts(v) == [k \in DOMAIN v |-> Hex(v[k])]

\* The two digits of each byte.
LEMMA HexPartsType ==
    ASSUME NEW v \in Seq(Byte)
    PROVE  /\ HexParts(v) \in Seq(Seq(Byte)) /\ Len(HexParts(v)) = Len(v)
           /\ FlattenSeq(HexParts(v)) \in Seq(Byte)
           /\ \A k \in 1..Len(v) : v[k] \in Byte /\ HexParts(v)[k] = Hex(v[k])
<1>0. Len(v) \in Nat /\ DOMAIN v = 1..Len(v) /\ \A k \in 1..Len(v) : v[k] \in Byte
  BY LenProperties, ElementOfSeq
<1>1. \A b \in Byte : Hex(b) \in Seq(Byte)
  <2> TAKE b \in Byte
  <2> DEFINE x == Digit(b \div 16)
             y == Digit(b % 16)
  <2>1. x \in Byte /\ y \in Byte
    BY HexByte, HexNibble
  <2> HIDE DEF x, y
  <2>2. <<x, y>> \in Seq(Byte)
    BY <2>1
  <2> QED
    BY <2>2 DEF Hex, x, y
<1>2. HexParts(v) \in Seq(Seq(Byte)) /\ Len(HexParts(v)) = Len(v)
  BY <1>0, <1>1 DEF HexParts
<1>3. FlattenSeq(HexParts(v)) \in Seq(Byte)
  BY <1>2, FlattenParts
<1> QED
  BY <1>0, <1>2, <1>3 DEF HexParts

\* No value is the error.
LEMMA NotError ==
    ASSUME NEW s \in Seq(Byte)
    PROVE  s # Error
<1>1. SUFFICES ASSUME s = Error PROVE FALSE
  OBVIOUS
<1>2. Len(s) = 1 /\ s[1] = -2
  BY <1>1 DEF Error
<1>3. s[1] \in Byte
  BY <1>2, ElementOfSeq
<1> QED
  BY <1>2, <1>3 DEF Byte

\* Two digits are a byte.
LEMMA HexSteps ==
    ASSUME NEW out \in Seq(Byte), NEW b \in Byte
    PROVE  HexStep(HexStep([out |-> out, held |-> <<>>], Digit(b \div 16)), Digit(b % 16))
               = [out |-> Append(out, b), held |-> <<>>]
<1> DEFINE x == b \div 16
           y == b % 16
           st == [out |-> out, held |-> <<>>]
           mid == [out |-> out, held |-> <<x>>]
<1>1. x \in 0..15 /\ y \in 0..15 /\ x * 16 + y = b
  BY HexByte
<1>2. IsHex(Digit(x)) /\ DigitValue(Digit(x)) = x /\ IsHex(Digit(y)) /\ DigitValue(Digit(y)) = y
  BY <1>1, HexNibble
<1>3. out # Error
  BY NotError
<1> HIDE DEF x, y
<1>4. HexStep(st, Digit(x)) = mid
  BY <1>2, <1>3 DEF HexStep
<1>5. HexStep(mid, Digit(y)) = [out |-> Append(out, x * 16 + y), held |-> <<>>]
  <2>1. mid.held # <<>> /\ mid.held[1] = x /\ mid.out = out
    OBVIOUS
  <2> HIDE DEF mid
  <2> QED
    BY <1>2, <1>3, <2>1 DEF HexStep
<1> QED
  BY <1>1, <1>4, <1>5 DEF x, y

\* The digits of a text are read as that text.
LEMMA HexRead ==
    ASSUME NEW v \in Seq(Byte)
    PROVE  Run(HexStep, ByteaStart, FlattenSeq(HexParts(v))) = [out |-> v, held |-> <<>>]
<1> DEFINE parts == HexParts(v)
           s == FlattenSeq(parts)
           g == [k \in 0..Len(v) |-> [out |-> SubSeq(v, 1, k), held |-> <<>>]]
<1>0. parts \in Seq(Seq(Byte)) /\ Len(parts) = Len(v) /\ Len(v) \in Nat /\ s \in Seq(Byte)
  BY HexPartsType, LenProperties
<1>1. g[0] = ByteaStart /\ g[Len(v)] = [out |-> v, held |-> <<>>]
  <2>1. 0 \in 0..Len(v) /\ Len(v) \in 0..Len(v) /\ SubSeq(v, 1, 0) = <<>> /\ SubSeq(v, 1, Len(v)) = v
    BY <1>0, Prefix
  <2> QED
    BY <2>1 DEF ByteaStart
<1> DEFINE end == Run(HexStep, ByteaStart, s)
<1> HIDE DEF s
<1>2. PICK f :
          /\ f \in [0..Len(s) -> ByteaState] /\ f[0] = ByteaStart
          /\ \A k \in 1..Len(s) : f[k] = HexStep(f[k - 1], s[k])
          /\ end = f[Len(s)]
  BY <1>0, HexRun
<1> HIDE DEF end
<1>3. ASSUME NEW k \in 1..Len(parts), NEW a \in 0..Len(s), Has(s, a, parts[k]), f[a] = g[k - 1]
      PROVE  f[a + Len(parts[k])] = g[k]
  <2> DEFINE b == v[k]
             before == SubSeq(v, 1, k - 1)
             part == parts[k]
             x == Digit(b \div 16)
             y == Digit(b % 16)
  <2>1. /\ b \in Byte /\ f[a] = [out |-> before, held |-> <<>>]
        /\ g[k] = [out |-> Append(before, b), held |-> <<>>]
        /\ before \in Seq(Byte) /\ part = <<x, y>>
    <3>1. k \in 1..Len(v) /\ k - 1 \in 0..Len(v) /\ k \in 0..Len(v)
      BY <1>0
    <3>2. b \in Byte /\ Append(before, b) = SubSeq(v, 1, k) /\ before \in Seq(Byte)
      BY <3>1, HexPartsType, Prefix, SMTT(30)
    <3>3. part = <<x, y>>
      BY <3>1, HexPartsType DEF Hex
    <3> QED
      BY <1>3, <3>1, <3>2, <3>3
  <2>2. HexStep(HexStep([out |-> before, held |-> <<>>], x), y)
            = [out |-> Append(before, b), held |-> <<>>]
    BY <2>1, HexSteps
  <2>3. Has(s, a, part) /\ a \in Nat /\ Len(s) \in Nat
    BY <1>0, <1>3, LenProperties
  <2> HIDE DEF b, before, g, part, x, y
  <2>4. Len(part) = 2 /\ part[1] = x /\ part[2] = y
    BY <2>1
  <2>5. a + 1 \in 1..Len(s) /\ s[a + 1] = x /\ a + 2 \in 1..Len(s) /\ s[a + 2] = y
    BY <2>3, <2>4 DEF Has
  <2>6. f[a + 1] = HexStep(f[(a + 1) - 1], s[a + 1]) /\ f[a + 2] = HexStep(f[(a + 2) - 1], s[a + 2])
    BY <1>2, <2>5
  <2>7. (a + 1) - 1 = a /\ (a + 2) - 1 = a + 1
    BY <2>3
  <2> QED
    BY <2>1, <2>2, <2>4, <2>5, <2>6, <2>7 DEF part
<1> HIDE DEF g, parts
<1> DEFINE p == 0
<1>4. f[p] = g[0] /\ Has(s, p, FlattenSeq(parts))
  BY <1>0, <1>1, <1>2, HasAll DEF s
<1>6. p + Len(FlattenSeq(parts)) = Len(s)
  BY <1>0, LenProperties DEF s
<1> HIDE DEF p
<1>5. f[p + Len(FlattenSeq(parts))] = g[Len(parts)]
  <2>1. s \in Seq(Byte) /\ parts \in Seq(Seq(Byte))
    BY <1>0
  <2>2. ByParts(Byte, s, parts, p, f, g)
    BY <1>4, <1>3, <2>1 DEF ByParts
  <2> QED
    BY <2>2, ReadParts
<1> QED
  BY <1>0, <1>1, <1>2, <1>5, <1>6 DEF end, s, parts

\* Bytes that encodeBytea has written in the hex format are read as they were.
LEMMA HexFormat ==
    ASSUME NEW v \in Seq(Byte)
    PROVE  ParseBytea(EncodeBytea(TRUE, v)) = v
<1> DEFINE prefix == <<Bslash, 120>>
           w == FlattenSeq(HexParts(v))
           s == prefix \o w
           end == Run(HexStep, ByteaStart, SubSeq(s, 3, Len(s)))
<1>1. EncodeBytea(TRUE, v) = s
  BY DEF EncodeBytea, Each, HexParts
<1>2. Run(HexStep, ByteaStart, w) = [out |-> v, held |-> <<>>]
  BY HexRead
<1>3. w \in Seq(Byte) /\ prefix \in Seq(Byte) /\ Len(prefix) = 2
  BY HexPartsType DEF Bslash, Byte
<1> HIDE DEF w
<1>4. /\ SubSeq(s, 1, 2) = prefix /\ SubSeq(s, 3, Len(s)) = w /\ Len(s) >= 2
  <2> HIDE DEF prefix
  <2>1. SubSeq(s, 1, Len(prefix)) = prefix /\ SubSeq(s, Len(prefix) + 1, Len(prefix) + Len(w)) = w
    BY <1>3, Halves
  <2>2. Len(s) = Len(prefix) + Len(w) /\ Len(w) \in Nat
    BY <1>3, ConcatProperties, LenProperties
  <2> HIDE DEF s
  <2> QED
    BY <1>3, <2>1, <2>2
<1>5. end = [out |-> v, held |-> <<>>]
  BY <1>2, <1>4
<1> HIDE DEF s
<1>6. ParseBytea(s) = IF end.held = <<>> THEN end.out ELSE Error
  <2> DEFINE other == Run(ByteaStep, ByteaStart, s)
  <2>1. ParseBytea(s) = LET e == IF Len(s) >= 2 /\ SubSeq(s, 1, 2) = <<Bslash, 120>>
                                 THEN end ELSE other
                        IN  IF e.held = <<>> THEN e.out ELSE Error
    BY ParseIs, Zenon
  <2> HIDE DEF end, other
  <2> QED
    BY <1>4, <2>1
<1> HIDE DEF end
<1> QED
  BY <1>1, <1>5, <1>6

ByteaEscape(b) ==
    CASE b = Bslash -> <<Bslash, Bslash>>
      [] b < 32 \/ b > 126 -> <<Bslash>> \o Octal(b)
      [] OTHER -> <<b>>
EscapeParts(v) == [k \in DOMAIN v |-> ByteaEscape(v[k])]

\* What the result of an Append is.
LEMMA AppendIs ==
    ASSUME NEW M, NEW s \in Seq(M), NEW x \in M, NEW u \in Seq(M), Len(u) = Len(s) + 1,
           \A k \in 1..Len(s) : u[k] = s[k], u[Len(s) + 1] = x
    PROVE  Append(s, x) = u
<1> DEFINE t == Append(s, x)
<1>1. t \in Seq(M) /\ Len(t) = Len(s) + 1 /\ (\A k \in 1..Len(s) : t[k] = s[k])
      /\ t[Len(s) + 1] = x /\ Len(s) \in Nat
  BY AppendProperties, LenProperties
<1> HIDE DEF t
<1>2. \A k \in 1..Len(t) : t[k] = u[k]
  BY <1>1
<1>3. Len(t) = Len(u)
  BY <1>1
<1>4. t = u
  BY <1>1, <1>2, <1>3, SeqEqual
<1> QED
  BY <1>4 DEF t

\* What the result of a concatenation is.
LEMMA ConcatIs ==
    ASSUME NEW M, NEW s \in Seq(M), NEW r \in Seq(M), NEW u \in Seq(M),
           Len(u) = Len(s) + Len(r),
           \A k \in 1..Len(s) + Len(r) : u[k] = IF k <= Len(s) THEN s[k] ELSE r[k - Len(s)]
    PROVE  s \o r = u
<1> DEFINE t == s \o r
<1>1. t \in Seq(M) /\ Len(t) = Len(s) + Len(r)
      /\ \A k \in 1..Len(s) + Len(r) : t[k] = IF k <= Len(s) THEN s[k] ELSE r[k - Len(s)]
  BY ConcatProperties
<1> HIDE DEF t
<1>2. \A k \in 1..Len(t) : t[k] = u[k]
  BY <1>1
<1>3. t = u
  BY <1>1, <1>2, SeqEqual
<1> QED
  BY <1>3 DEF t

\* Short tuples, member by member.
LEMMA Appends ==
    ASSUME NEW M, NEW a \in M, NEW b \in M, NEW c \in M, NEW d \in M
    PROVE  /\ Append(<<>>, a) = <<a>> /\ Append(<<a>>, b) = <<a, b>>
           /\ Append(<<a, b>>, c) = <<a, b, c>> /\ Append(<<a, b, c>>, d) = <<a, b, c, d>>
           /\ <<a>> \o <<b, c, d>> = <<a, b, c, d>>
<1>1. Append(<<>>, a) = <<a>>
  OBVIOUS
<1>2. Append(<<a>>, b) = <<a, b>>
  <2> DEFINE s == <<a>>
             u == <<a, b>>
  <2>1. s \in Seq(M) /\ u \in Seq(M)
    OBVIOUS
  <2>2. Len(s) = 1 /\ Len(u) = 2 /\ u[2] = b /\ \A k \in 1..1 : u[k] = s[k]
    OBVIOUS
  <2> HIDE DEF s, u
  <2>3. Len(u) = Len(s) + 1 /\ u[Len(s) + 1] = b /\ \A k \in 1..Len(s) : u[k] = s[k]
    BY <2>2
  <2>4. Append(s, b) = u
    BY <2>1, <2>3, AppendIs
  <2> QED
    BY <2>4 DEF s, u
<1>3. Append(<<a, b>>, c) = <<a, b, c>>
  <2> DEFINE s == <<a, b>>
             u == <<a, b, c>>
  <2>1. s \in Seq(M) /\ u \in Seq(M)
    OBVIOUS
  <2>2. Len(s) = 2 /\ Len(u) = 3 /\ u[3] = c /\ \A k \in 1..2 : u[k] = s[k]
    OBVIOUS
  <2> HIDE DEF s, u
  <2>3. Len(u) = Len(s) + 1 /\ u[Len(s) + 1] = c /\ \A k \in 1..Len(s) : u[k] = s[k]
    BY <2>2
  <2>4. Append(s, c) = u
    BY <2>1, <2>3, AppendIs
  <2> QED
    BY <2>4 DEF s, u
<1>4. Append(<<a, b, c>>, d) = <<a, b, c, d>>
  <2> DEFINE s == <<a, b, c>>
             u == <<a, b, c, d>>
  <2>1. s \in Seq(M) /\ u \in Seq(M)
    OBVIOUS
  <2>2. Len(s) = 3 /\ Len(u) = 4 /\ u[4] = d /\ \A k \in 1..3 : u[k] = s[k]
    OBVIOUS
  <2> HIDE DEF s, u
  <2>3. Len(u) = Len(s) + 1 /\ u[Len(s) + 1] = d /\ \A k \in 1..Len(s) : u[k] = s[k]
    BY <2>2
  <2>4. Append(s, d) = u
    BY <2>1, <2>3, AppendIs
  <2> QED
    BY <2>4 DEF s, u
<1>5. <<a>> \o <<b, c, d>> = <<a, b, c, d>>
  <2> DEFINE s == <<a>>
             r == <<b, c, d>>
             u == <<a, b, c, d>>
  <2>1. s \in Seq(M) /\ r \in Seq(M) /\ u \in Seq(M)
    OBVIOUS
  <2>2. /\ Len(s) = 1 /\ Len(r) = 3 /\ Len(u) = 4
        /\ s[1] = a /\ r[1] = b /\ r[2] = c /\ r[3] = d
        /\ u[1] = a /\ u[2] = b /\ u[3] = c /\ u[4] = d
    OBVIOUS
  <2> HIDE DEF s, r, u
  <2>3. Len(u) = Len(s) + Len(r)
        /\ \A k \in 1..Len(s) + Len(r) : u[k] = IF k <= Len(s) THEN s[k] ELSE r[k - Len(s)]
    BY <2>2
  <2>4. s \o r = u
    BY <2>1, <2>3, ConcatIs
  <2> QED
    BY <2>4 DEF s, u, r
<1> QED
  BY <1>1, <1>2, <1>3, <1>4, <1>5

\* A backslash and its digits, whatever these are.
LEMMA DigitTuples ==
    ASSUME NEW x, NEW y, NEW z
    PROVE  /\ Append(<<>>, x) = <<x>> /\ Append(<<Bslash>>, x) = <<Bslash, x>>
           /\ Append(<<Bslash, x>>, y) = <<Bslash, x, y>>
           /\ Append(<<Bslash, x, y>>, z) = <<Bslash, x, y, z>>
           /\ <<Bslash>> \o <<x, y, z>> = <<Bslash, x, y, z>>
<1> DEFINE M == {Bslash, x, y, z}
           a == Bslash
<1>1. a \in M /\ x \in M /\ y \in M /\ z \in M
  OBVIOUS
<1> HIDE DEF M, a
<1>2. /\ Append(<<>>, x) = <<x>> /\ Append(<<a>>, x) = <<a, x>>
      /\ Append(<<a, x>>, y) = <<a, x, y>>
      /\ Append(<<a, x, y>>, z) = <<a, x, y, z>>
      /\ <<a>> \o <<x, y, z>> = <<a, x, y, z>>
  BY <1>1, Appends
<1> QED
  BY <1>2 DEF a

OctalValue(x, y, z) == (x - 48) * 64 + (y - 48) * 8 + z - 48

\* Three octal digits are a byte.
LEMMA OctalDigits ==
    ASSUME NEW b \in Byte
    PROVE  \E x \in 48..51, y \in 48..55, z \in 48..55 :
               Octal(b) = <<x, y, z>> /\ OctalValue(x, y, z) = b
<1> DEFINE x == b \div 64
           y == (b \div 8) % 8
           z == b % 8
<1>1. x \in 0..3 /\ y \in 0..7 /\ z \in 0..7 /\ x * 64 + y * 8 + z = b
  BY OctalByte
<1>2. Octal(b) = <<Digit(x), Digit(y), Digit(z)>>
  BY DEF Octal
<1> HIDE DEF x, y, z
<1>3. Digit(x) = 48 + x /\ Digit(y) = 48 + y /\ Digit(z) = 48 + z
  BY <1>1 DEF Digit
<1> DEFINE X == 48 + x
           Y == 48 + y
           Z == 48 + z
<1>5. (X - 48) * 64 + (Y - 48) * 8 + Z - 48 = b
  BY <1>1
<1>6. X \in 48..51 /\ Y \in 48..55 /\ Z \in 48..55
  BY <1>1
<1>7. Octal(b) = <<X, Y, Z>>
  BY <1>2, <1>3
<1>8. OctalValue(X, Y, Z) = b
  BY <1>5, SMTT(30) DEF OctalValue
<1> HIDE DEF X, Y, Z
<1> QED
  BY <1>6, <1>7, <1>8

\* A byte is written as itself, as two backslashes, or as a backslash and three octal
\* digits, of which the first is at most 3.
LEMMA ByteaEscapeForms ==
    ASSUME NEW b \in Byte
    PROVE  /\ ByteaEscape(b) \in Seq(Byte)
           /\ \/ b # Bslash /\ ByteaEscape(b) = <<b>>
              \/ b = Bslash /\ ByteaEscape(b) = <<Bslash, Bslash>>
              \/ \E x \in 48..51, y \in 48..55, z \in 48..55 :
                     /\ ByteaEscape(b) = <<Bslash, x, y, z>>
                     /\ OctalValue(x, y, z) = b
<1>1. CASE b = Bslash
  <2>1. ByteaEscape(b) = <<Bslash, Bslash>>
    BY <1>1 DEF ByteaEscape, Bslash
  <2>2. <<Bslash, Bslash>> \in Seq(Byte)
    BY DEF Bslash, Byte
  <2> QED
    BY <1>1, <2>1, <2>2
<1>2. CASE b # Bslash /\ (b < 32 \/ b > 126)
  <2>1. PICK x \in 48..51, y \in 48..55, z \in 48..55 :
            Octal(b) = <<x, y, z>> /\ OctalValue(x, y, z) = b
    BY OctalDigits
  <2>2. ByteaEscape(b) = <<Bslash>> \o <<x, y, z>>
    BY <1>2, <2>1 DEF ByteaEscape
  <2>4. <<Bslash>> \o <<x, y, z>> = <<Bslash, x, y, z>>
    BY DigitTuples
  <2>5. <<Bslash, x, y, z>> \in Seq(Byte)
    <3>1. Bslash \in Byte /\ x \in Byte /\ y \in Byte /\ z \in Byte
      BY <2>1 DEF Bslash, Byte
    <3> QED
      BY <3>1
  <2> QED
    BY <2>1, <2>2, <2>4, <2>5
<1>3. CASE b # Bslash /\ ~(b < 32 \/ b > 126)
  BY <1>3 DEF ByteaEscape
<1> QED
  BY <1>1, <1>2, <1>3

\* The types of the escapes.
LEMMA EscapePartsType ==
    ASSUME NEW v \in Seq(Byte)
    PROVE  /\ EscapeParts(v) \in Seq(Seq(Byte)) /\ Len(EscapeParts(v)) = Len(v)
           /\ FlattenSeq(EscapeParts(v)) \in Seq(Byte)
           /\ \A k \in 1..Len(v) : v[k] \in Byte /\ EscapeParts(v)[k] = ByteaEscape(v[k])
           /\ EncodeBytea(FALSE, v) = FlattenSeq(EscapeParts(v))
<1>0. Len(v) \in Nat /\ DOMAIN v = 1..Len(v) /\ \A k \in 1..Len(v) : v[k] \in Byte
  BY LenProperties, ElementOfSeq
<1>1. \A b \in Byte : ByteaEscape(b) \in Seq(Byte)
  BY ByteaEscapeForms
<1>2. EscapeParts(v) \in Seq(Seq(Byte)) /\ Len(EscapeParts(v)) = Len(v)
  BY <1>0, <1>1 DEF EscapeParts
<1>3. FlattenSeq(EscapeParts(v)) \in Seq(Byte)
  BY <1>2, FlattenParts
<1>4. EncodeBytea(FALSE, v) = FlattenSeq(EscapeParts(v))
  BY DEF EncodeBytea, Each, EscapeParts, ByteaEscape
<1> QED
  BY <1>0, <1>2, <1>3, <1>4 DEF EscapeParts

\* What the reader makes of the escape of one byte.
LEMMA ByteaPlain ==
    ASSUME NEW out \in Seq(Byte), NEW b \in Byte, b # Bslash
    PROVE  ByteaStep([out |-> out, held |-> <<>>], b) = [out |-> Append(out, b), held |-> <<>>]
<1>1. out # Error
  BY NotError
<1> DEFINE st == [out |-> out, held |-> <<>>]
           h == Append(st.held, b)
<1>2. st.out = out /\ Len(h) = 1
  OBVIOUS
<1> HIDE DEF st, h
<1>3. ByteaStep(st, b) = [st EXCEPT !.out = Append(out, b)]
  BY <1>1, <1>2 DEF ByteaStep, h
<1> QED
  BY <1>3 DEF st

\* A backslash is kept,
LEMMA ByteaOpens ==
    ASSUME NEW out \in Seq(Byte)
    PROVE  ByteaStep([out |-> out, held |-> <<>>], Bslash) = [out |-> out, held |-> <<Bslash>>]
<1>1. out # Error
  BY NotError
<1>2. Append(<<>>, Bslash) = <<Bslash>> /\ Len(<<Bslash>>) = 1
  OBVIOUS
<1> QED
  BY <1>1, <1>2 DEF ByteaStep

\* a second one is read as one,
LEMMA ByteaTwice ==
    ASSUME NEW out \in Seq(Byte)
    PROVE  ByteaStep([out |-> out, held |-> <<Bslash>>], Bslash)
               = [out |-> Append(out, Bslash), held |-> <<>>]
<1>1. out # Error
  BY NotError
<1>2. Append(<<Bslash>>, Bslash) = <<Bslash, Bslash>> /\ Len(<<Bslash, Bslash>>) = 2
  <2>1. Bslash \in Int
    BY DEF Bslash
  <2> QED
    BY <2>1, Appends
<1> DEFINE st == [out |-> out, held |-> <<Bslash>>]
           h == Append(st.held, Bslash)
<1>3. st.out = out /\ Len(h) = 2
  BY <1>2
<1> HIDE DEF st, h
<1>4. ByteaStep(st, Bslash) = [out |-> Append(out, Bslash), held |-> <<>>]
  <2>1. Len(h) # 1 /\ Len(h) = 2 /\ ~(Len(h) = 4) /\ (Len(h) = 2 => Bslash = Bslash)
        /\ st.out # Error /\ ~IsOctal(Bslash)
    BY <1>1, <1>3 DEF IsOctal, Bslash
  <2> QED
    BY <1>3, <2>1 DEF ByteaStep, h
<1> QED
  BY <1>4 DEF st

\* and three digits as the byte they are.
LEMMA ByteaOctal ==
    ASSUME NEW out \in Seq(Byte), NEW x \in 48..51, NEW y \in 48..55, NEW z \in 48..55
    PROVE  /\ ByteaStep([out |-> out, held |-> <<Bslash>>], x)
                  = [out |-> out, held |-> <<Bslash, x>>]
           /\ ByteaStep([out |-> out, held |-> <<Bslash, x>>], y)
                  = [out |-> out, held |-> <<Bslash, x, y>>]
           /\ ByteaStep([out |-> out, held |-> <<Bslash, x, y>>], z)
                  = [out |-> Append(out, OctalValue(x, y, z)), held |-> <<>>]
<1>1. out # Error
  BY NotError
<1>2. /\ IsOctal(x) /\ IsOctal(y) /\ IsOctal(z) /\ x # Bslash /\ y # Bslash /\ z # Bslash
      /\ ~(x > 51)
  BY DEF IsOctal, Bslash
<1>3. /\ Append(<<Bslash>>, x) = <<Bslash, x>> /\ Len(<<Bslash, x>>) = 2
      /\ Append(<<Bslash, x>>, y) = <<Bslash, x, y>> /\ Len(<<Bslash, x, y>>) = 3
      /\ Append(<<Bslash, x, y>>, z) = <<Bslash, x, y, z>> /\ Len(<<Bslash, x, y, z>>) = 4
  <2>2. /\ Append(<<Bslash>>, x) = <<Bslash, x>>
        /\ Append(<<Bslash, x>>, y) = <<Bslash, x, y>>
        /\ Append(<<Bslash, x, y>>, z) = <<Bslash, x, y, z>>
    BY DigitTuples
  <2> QED
    BY <2>2
<1>4. 2 \in 2..3 /\ 3 \in 2..3 /\ 4 \notin 2..3
  OBVIOUS
<1>5. ByteaStep([out |-> out, held |-> <<Bslash>>], x) = [out |-> out, held |-> <<Bslash, x>>]
  BY <1>1, <1>2, <1>3, <1>4 DEF ByteaStep
<1>6. ByteaStep([out |-> out, held |-> <<Bslash, x>>], y)
          = [out |-> out, held |-> <<Bslash, x, y>>]
  BY <1>1, <1>2, <1>3, <1>4 DEF ByteaStep
<1>7. ByteaStep([out |-> out, held |-> <<Bslash, x, y>>], z)
          = [out |-> Append(out, OctalValue(x, y, z)), held |-> <<>>]
  <2> DEFINE st == [out |-> out, held |-> <<Bslash, x, y>>]
             h == Append(st.held, z)
  <2>1. st.out = out /\ h = <<Bslash, x, y, z>>
    BY <1>3
  <2> HIDE DEF st
  <2>2. Len(h) = 4 /\ h[2] = x /\ h[3] = y /\ h[4] = z
    <3> HIDE DEF h
    <3> QED
      BY <2>1
  <2> HIDE DEF h
  <2>3. ByteaStep(st, z)
            = [out |-> Append(out, (h[2] - 48) * 64 + (h[3] - 48) * 8 + h[4] - 48),
               held |-> <<>>]
    <3>1. Len(h) # 1 /\ Len(h) # 2 /\ ~(Len(h) \in 2..3) /\ IsOctal(z) /\ ~(h[2] > 51)
      BY <1>2, <2>2
    <3>2. st.out # Error /\ st.out = out
      BY <1>1, <2>1
    <3> QED
      BY <3>1, <3>2 DEF ByteaStep, h
  <2>4. (h[2] - 48) * 64 + (h[3] - 48) * 8 + h[4] - 48 = OctalValue(x, y, z)
    BY <2>2 DEF OctalValue
  <2> QED
    BY <2>3, <2>4 DEF st
<1> QED
  BY <1>5, <1>6, <1>7

ByteaReads(f, s) ==
    /\ f \in [0..Len(s) -> ByteaState] /\ f[0] = ByteaStart
    /\ \A k \in 1..Len(s) : f[k] = ByteaStep(f[k - 1], s[k])

\* The next transitions, over the bytes of a part.
LEMMA ByteaNext ==
    ASSUME NEW s \in Seq(Byte), NEW f, ByteaReads(f, s), NEW a \in 0..Len(s), NEW part,
           Has(s, a, part), Len(part) \in Nat
    PROVE  /\ Len(part) >= 1 => f[a + 1] = ByteaStep(f[a], part[1])
           /\ Len(part) >= 2 => f[a + 2] = ByteaStep(f[a + 1], part[2])
           /\ Len(part) >= 3 => f[a + 3] = ByteaStep(f[a + 2], part[3])
           /\ Len(part) >= 4 => f[a + 4] = ByteaStep(f[a + 3], part[4])
<1>1. Len(s) \in Nat /\ a \in Nat
  BY LenProperties
<1>2. ASSUME NEW j \in 1..Len(part) PROVE f[a + j] = ByteaStep(f[(a + j) - 1], part[j])
  <2>1. a + j \in 1..Len(s) /\ s[a + j] = part[j]
    BY <1>1 DEF Has
  <2> QED
    BY <2>1 DEF ByteaReads
<1>3. (a + 1) - 1 = a /\ (a + 2) - 1 = a + 1 /\ (a + 3) - 1 = a + 2 /\ (a + 4) - 1 = a + 3
  BY <1>1
<1>4. /\ Len(part) >= 1 => 1 \in 1..Len(part)
      /\ Len(part) >= 2 => 2 \in 1..Len(part)
      /\ Len(part) >= 3 => 3 \in 1..Len(part)
      /\ Len(part) >= 4 => 4 \in 1..Len(part)
  OBVIOUS
<1> QED
  BY <1>2, <1>3, <1>4

\* Together: the escape of one byte is read as that byte.
LEMMA ByteaOne ==
    ASSUME NEW s \in Seq(Byte), NEW f, ByteaReads(f, s), NEW a \in 0..Len(s), NEW b \in Byte,
           Has(s, a, ByteaEscape(b)), NEW out \in Seq(Byte),
           f[a] = [out |-> out, held |-> <<>>]
    PROVE  f[a + Len(ByteaEscape(b))] = [out |-> Append(out, b), held |-> <<>>]
<1> DEFINE part == ByteaEscape(b)
           before == [out |-> out, held |-> <<>>]
           after == [out |-> Append(out, b), held |-> <<>>]
<1>0. f[a] = before /\ Has(s, a, part)
  OBVIOUS
<1>1. CASE b # Bslash /\ ByteaEscape(b) = <<b>>
  <2>1. part = <<b>>
    BY <1>1
  <2>2. Len(part) \in Nat /\ Len(part) >= 1 /\ part[1] = b
    BY <2>1
  <2>3. f[a + 1] = ByteaStep(before, b)
    <3> HIDE DEF part, before, after
    <3>1. Has(s, a, part) /\ f[a] = before /\ Len(part) \in Nat
      BY <1>0, <2>2
    <3>2. /\ Len(part) >= 1 => f[a + 1] = ByteaStep(f[a], part[1])
          /\ Len(part) >= 2 => f[a + 2] = ByteaStep(f[a + 1], part[2])
          /\ Len(part) >= 3 => f[a + 3] = ByteaStep(f[a + 2], part[3])
          /\ Len(part) >= 4 => f[a + 4] = ByteaStep(f[a + 3], part[4])
      BY <3>1, ByteaNext
    <3> QED
      BY <2>2, <3>1, <3>2
  <2>4. ByteaStep(before, b) = after
    BY <1>1, ByteaPlain
  <2>5. Len(part) = 1
    BY <2>1
  <2> QED
    BY <2>3, <2>4, <2>5
<1>2. CASE b = Bslash /\ ByteaEscape(b) = <<Bslash, Bslash>>
  <2> DEFINE mid == [out |-> out, held |-> <<Bslash>>]
  <2>1. part = <<Bslash, Bslash>>
    BY <1>2
  <2>2. Len(part) \in Nat /\ Len(part) >= 1 /\ Len(part) >= 2 /\ part[1] = Bslash /\ part[2] = Bslash
    BY <2>1
  <2>3. f[a + 1] = ByteaStep(before, Bslash) /\ f[a + 2] = ByteaStep(f[a + 1], Bslash)
    <3> HIDE DEF part, before, after
    <3>1. Has(s, a, part) /\ f[a] = before /\ Len(part) \in Nat
      BY <1>0, <2>2
    <3>2. /\ Len(part) >= 1 => f[a + 1] = ByteaStep(f[a], part[1])
          /\ Len(part) >= 2 => f[a + 2] = ByteaStep(f[a + 1], part[2])
          /\ Len(part) >= 3 => f[a + 3] = ByteaStep(f[a + 2], part[3])
          /\ Len(part) >= 4 => f[a + 4] = ByteaStep(f[a + 3], part[4])
      BY <3>1, ByteaNext
    <3> QED
      BY <2>2, <3>1, <3>2
  <2>4. ByteaStep(before, Bslash) = mid
    BY ByteaOpens
  <2>5. ByteaStep(mid, Bslash) = after
    BY <1>2, ByteaTwice
  <2>6. Len(part) = 2
    BY <2>1
  <2> QED
    BY <2>3, <2>4, <2>5, <2>6
<1>3. ASSUME NEW x \in 48..51, NEW y \in 48..55, NEW z \in 48..55,
             ByteaEscape(b) = <<Bslash, x, y, z>>,
             OctalValue(x, y, z) = b
      PROVE  f[a + Len(part)] = after
  <2> DEFINE m1 == [out |-> out, held |-> <<Bslash>>]
             m2 == [out |-> out, held |-> <<Bslash, x>>]
             m3 == [out |-> out, held |-> <<Bslash, x, y>>]
  <2>1. part = <<Bslash, x, y, z>>
    BY <1>3
  <2>2. /\ Len(part) \in Nat /\ Len(part) >= 1 /\ Len(part) >= 2 /\ Len(part) >= 3 /\ Len(part) >= 4
        /\ part[1] = Bslash /\ part[2] = x /\ part[3] = y /\ part[4] = z
    BY <2>1
  <2>3. /\ f[a + 1] = ByteaStep(before, Bslash) /\ f[a + 2] = ByteaStep(f[a + 1], x)
        /\ f[a + 3] = ByteaStep(f[a + 2], y) /\ f[a + 4] = ByteaStep(f[a + 3], z)
    <3> HIDE DEF part, before, after
    <3>1. Has(s, a, part) /\ f[a] = before /\ Len(part) \in Nat
      BY <1>0, <2>2
    <3>2. /\ Len(part) >= 1 => f[a + 1] = ByteaStep(f[a], part[1])
          /\ Len(part) >= 2 => f[a + 2] = ByteaStep(f[a + 1], part[2])
          /\ Len(part) >= 3 => f[a + 3] = ByteaStep(f[a + 2], part[3])
          /\ Len(part) >= 4 => f[a + 4] = ByteaStep(f[a + 3], part[4])
      BY <3>1, ByteaNext
    <3> QED
      BY <2>2, <3>1, <3>2
  <2>4. ByteaStep(before, Bslash) = m1
    BY ByteaOpens
  <2>5. ByteaStep(m1, x) = m2 /\ ByteaStep(m2, y) = m3 /\ ByteaStep(m3, z) = after
    BY <1>3, ByteaOctal, ZenonT(30)
  <2>6. Len(part) = 4
    BY <2>1
  <2> HIDE DEF m1, m2, m3, before, after
  <2> QED
    BY <2>3, <2>4, <2>5, <2>6
<1>4. \/ b # Bslash /\ ByteaEscape(b) = <<b>>
      \/ b = Bslash /\ ByteaEscape(b) = <<Bslash, Bslash>>
      \/ \E x \in 48..51, y \in 48..55, z \in 48..55 :
             /\ ByteaEscape(b) = <<Bslash, x, y, z>>
             /\ OctalValue(x, y, z) = b
  BY ByteaEscapeForms
<1>5. f[a + Len(part)] = [out |-> Append(out, b), held |-> <<>>]
  BY <1>1, <1>2, <1>3, <1>4, Zenon
<1> QED
  BY <1>5

\* The escapes of a text are read as that text.
LEMMA EscapeRead ==
    ASSUME NEW v \in Seq(Byte)
    PROVE  Run(ByteaStep, ByteaStart, FlattenSeq(EscapeParts(v))) = [out |-> v, held |-> <<>>]
<1> DEFINE parts == EscapeParts(v)
           s == FlattenSeq(parts)
           g == [k \in 0..Len(v) |-> [out |-> SubSeq(v, 1, k), held |-> <<>>]]
<1>0. parts \in Seq(Seq(Byte)) /\ Len(parts) = Len(v) /\ Len(v) \in Nat /\ s \in Seq(Byte)
  BY EscapePartsType, LenProperties
<1>1. g[0] = ByteaStart /\ g[Len(v)] = [out |-> v, held |-> <<>>]
  <2>1. 0 \in 0..Len(v) /\ Len(v) \in 0..Len(v) /\ SubSeq(v, 1, 0) = <<>> /\ SubSeq(v, 1, Len(v)) = v
    BY <1>0, Prefix
  <2> QED
    BY <2>1 DEF ByteaStart
<1> DEFINE end == Run(ByteaStep, ByteaStart, s)
<1> HIDE DEF s
<1>2. PICK f : ByteaReads(f, s) /\ end = f[Len(s)]
  <2>1. PICK f \in [0..Len(s) -> ByteaState] :
            /\ f[0] = ByteaStart
            /\ \A k \in 1..Len(s) : f[k] = ByteaStep(f[k - 1], s[k])
            /\ end = f[Len(s)]
    BY <1>0, ByteaRun
  <2> QED
    BY <2>1 DEF ByteaReads
<1> HIDE DEF end
<1>3. ASSUME NEW k \in 1..Len(parts), NEW a \in 0..Len(s), Has(s, a, parts[k]), f[a] = g[k - 1]
      PROVE  f[a + Len(parts[k])] = g[k]
  <2> DEFINE b == v[k]
             before == SubSeq(v, 1, k - 1)
             part == parts[k]
  <2>1. /\ b \in Byte /\ f[a] = [out |-> before, held |-> <<>>]
        /\ g[k] = [out |-> Append(before, b), held |-> <<>>]
        /\ before \in Seq(Byte) /\ part = ByteaEscape(b)
    <3>1. k \in 1..Len(v) /\ k - 1 \in 0..Len(v) /\ k \in 0..Len(v)
      BY <1>0
    <3>2. b \in Byte /\ Append(before, b) = SubSeq(v, 1, k) /\ before \in Seq(Byte)
      BY <3>1, EscapePartsType, Prefix
    <3>3. part = ByteaEscape(b)
      BY <3>1, EscapePartsType
    <3> QED
      BY <1>3, <3>1, <3>2, <3>3
  <2>2. ByteaReads(f, s) /\ Has(s, a, part) /\ s \in Seq(Byte)
    BY <1>0, <1>2, <1>3
  <2> HIDE DEF b, before, g, part, parts
  <2>3. Has(s, a, ByteaEscape(b)) /\ ByteaReads(f, s) /\ s \in Seq(Byte)
    BY <2>1, <2>2
  <2>6. Len(ByteaEscape(b)) = Len(part)
    BY <2>1
  <2>4. b \in Byte /\ before \in Seq(Byte) /\ f[a] = [out |-> before, held |-> <<>>]
    BY <2>1
  <2>5. f[a + Len(ByteaEscape(b))] = [out |-> Append(before, b), held |-> <<>>]
    BY <2>3, <2>4, ByteaOne, SMTT(30)
  <2> QED
    BY <2>1, <2>5, <2>6 DEF part
<1> HIDE DEF g, parts
<1> DEFINE p == 0
<1>4. f[p] = g[0] /\ Has(s, p, FlattenSeq(parts))
  BY <1>0, <1>1, <1>2, HasAll DEF s, ByteaReads
<1>5. p + Len(FlattenSeq(parts)) = Len(s)
  BY <1>0, LenProperties DEF s
<1> HIDE DEF p
<1>6. f[p + Len(FlattenSeq(parts))] = g[Len(parts)]
  <2>1. s \in Seq(Byte) /\ parts \in Seq(Seq(Byte))
    BY <1>0
  <2>2. ByParts(Byte, s, parts, p, f, g)
    BY <1>4, <1>3, <2>1 DEF ByParts
  <2> QED
    BY <2>2, ReadParts
<1> QED
  BY <1>0, <1>1, <1>2, <1>5, <1>6 DEF end, s, parts

\* The escape format never looks like the hex format.
LEMMA EscapeNotHex ==
    ASSUME NEW v \in Seq(Byte)
    PROVE  LET s == FlattenSeq(EscapeParts(v))
           IN  ~(Len(s) >= 2 /\ SubSeq(s, 1, 2) = <<Bslash, 120>>)
<1> DEFINE parts == EscapeParts(v)
           s == FlattenSeq(parts)
<1>0. parts \in Seq(Seq(Byte)) /\ Len(parts) = Len(v) /\ Len(v) \in Nat /\ s \in Seq(Byte)
      /\ Len(s) \in Nat
  BY EscapePartsType, LenProperties
<1>1. SUFFICES ASSUME Len(s) >= 2, SubSeq(s, 1, 2) = <<Bslash, 120>> PROVE FALSE
  OBVIOUS
<1>2. s[1] = Bslash /\ s[2] = 120
  <2> DEFINE t == SubSeq(s, 1, 2)
  <2>1. t[1] = s[1] /\ t[2] = s[2]
    <3> HIDE DEF s
    <3>1. \A k \in 1..2 : s[k] \in Byte
      BY <1>0, <1>1, ElementOfSeq
    <3>2. \A k \in 1..(2 - 1 + 1) : t[k] = s[1 + k - 1]
      BY <3>1, SubSeqProperties
    <3>3. 1 \in 1..(2 - 1 + 1) /\ 2 \in 1..(2 - 1 + 1)
      OBVIOUS
    <3> HIDE DEF t
    <3> QED
      BY <3>2, <3>3
  <2>2. t = <<Bslash, 120>>
    BY <1>1
  <2> HIDE DEF t
  <2> QED
    BY <2>1, <2>2
<1>3. Len(v) # 0
  <2>1. SUFFICES ASSUME Len(v) = 0 PROVE FALSE
    OBVIOUS
  <2> HIDE DEF parts
  <2>2. PICK pos : Ends(parts, pos)
    BY <1>0, FlattenParts
  <2>3. pos[0] = 0 /\ pos[Len(parts)] = Len(s)
    BY <2>2 DEF Ends
  <2>4. Len(parts) = 0
    BY <1>0, <2>1
  <2> HIDE DEF s
  <2>5. Len(s) = 0
    BY <2>3, <2>4
  <2> QED
    BY <1>1, <2>5
<1>4. parts[1] = ByteaEscape(v[1]) /\ v[1] \in Byte
  <2>1. 1 \in 1..Len(v)
    BY <1>0, <1>3
  <2> QED
    BY <2>1, EscapePartsType
<1>5. Has(s, 0, parts[1])
  BY <1>0, <1>3, FirstPart
<1> DEFINE part == parts[1]
<1>6. \A j \in 1..Len(part) : s[j] = part[j]
  <2>1. \A j \in 1..Len(part) : s[0 + j] = part[j]
    BY <1>5 DEF Has
  <2>2. Len(part) \in Nat
    BY <1>4, ByteaEscapeForms, LenProperties
  <2> HIDE DEF s, part
  <2>3. \A j \in 1..Len(part) : 0 + j = j
    BY <2>2
  <2> QED
    BY <2>1, <2>3
<1>7. part = ByteaEscape(v[1])
  BY <1>4
<1> DEFINE b == v[1]
<1> HIDE DEF s, part, b
<1>8. b \in Byte /\ part = ByteaEscape(b)
  BY <1>4, <1>7 DEF b
<1>9. CASE b # Bslash /\ ByteaEscape(b) = <<b>>
  <2>1. 1 \in 1..Len(part) /\ part[1] = b
    BY <1>8, <1>9
  <2> QED
    BY <1>2, <1>6, <1>9, <2>1
<1>10. CASE b = Bslash /\ ByteaEscape(b) = <<Bslash, Bslash>>
  <2>1. 2 \in 1..Len(part) /\ part[2] = Bslash
    BY <1>8, <1>10
  <2> QED
    BY <1>2, <1>6, <2>1 DEF Bslash
<1>11. ASSUME NEW x \in 48..51, NEW y, NEW z, ByteaEscape(b) = <<Bslash, x, y, z>> PROVE FALSE
  <2>1. 2 \in 1..Len(part) /\ part[2] = x
    BY <1>8, <1>11
  <2> QED
    BY <1>2, <1>6, <2>1
<1> QED
  BY <1>8, <1>9, <1>10, <1>11, ByteaEscapeForms

\* Bytes that encodeBytea has written in the escape format are read as they were.
LEMMA EscapeFormat ==
    ASSUME NEW v \in Seq(Byte)
    PROVE  ParseBytea(EncodeBytea(FALSE, v)) = v
<1> DEFINE s == FlattenSeq(EscapeParts(v))
           end == Run(ByteaStep, ByteaStart, s)
<1>1. EncodeBytea(FALSE, v) = s
  BY EscapePartsType
<1>2. end = [out |-> v, held |-> <<>>]
  BY EscapeRead
<1>3. ~(Len(s) >= 2 /\ SubSeq(s, 1, 2) = <<Bslash, 120>>)
  BY EscapeNotHex
<1> HIDE DEF s
<1>4. ParseBytea(s) = IF end.held = <<>> THEN end.out ELSE Error
  <2> DEFINE other == Run(HexStep, ByteaStart, SubSeq(s, 3, Len(s)))
  <2>1. ParseBytea(s) = LET e == IF Len(s) >= 2 /\ SubSeq(s, 1, 2) = <<Bslash, 120>>
                                 THEN other ELSE end
                        IN  IF e.held = <<>> THEN e.out ELSE Error
    BY ParseIs, Zenon
  <2> HIDE DEF end, other
  <2> QED
    BY <1>3, <2>1
<1> HIDE DEF end
<1> QED
  BY <1>1, <1>2, <1>4

--------------------------------------------------------------------------------
(* COPY                                                                       *)

Unescaped(c) == CASE c = 110 -> Newline [] c = 114 -> Return [] c = 116 -> Tab [] OTHER -> c
CopyField(cur, raw) == IF raw = <<Bslash, 78>> THEN Nil ELSE cur
CopyAt(rows, row, cur, raw, at) ==
    [rows |-> rows, row |-> row, cur |-> cur, raw |-> raw, at |-> at]
CopyStep(st, c) ==
    CASE st.at = "escape" ->
            [st EXCEPT !.cur = Append(@, Unescaped(c)), !.raw = Append(@, c), !.at = "in"]
      [] st.at = "in" /\ c = Bslash -> [st EXCEPT !.raw = Append(@, c), !.at = "escape"]
      [] st.at = "in" /\ c \in {Tab, Newline} ->
            [rows |-> IF c = Tab THEN st.rows
                      ELSE Append(st.rows, Append(st.row, CopyField(st.cur, st.raw))),
             row |-> IF c = Tab THEN Append(st.row, CopyField(st.cur, st.raw)) ELSE <<>>,
             cur |-> <<>>, raw |-> <<>>, at |-> "in"]
      [] OTHER -> [st EXCEPT !.cur = Append(@, c), !.raw = Append(@, c)]
CopyState ==
    [rows : Seq(Seq(Seq(Int))), row : Seq(Seq(Int)), cur : Seq(Int), raw : Seq(Int), at : {"in", "escape"}]
CopyStart == CopyAt(<<>>, <<>>, <<>>, <<>>, "in")

\* A transition of the reader of COPY data leads from state to state.
LEMMA CopyStepType ==
    ASSUME NEW st \in CopyState, NEW c \in Byte
    PROVE  CopyStep(st, c) \in CopyState
<1> DEFINE field == CopyField(st.cur, st.raw)
<1>1. /\ st.rows \in Seq(Seq(Seq(Int))) /\ st.row \in Seq(Seq(Int)) /\ st.cur \in Seq(Int)
      /\ st.raw \in Seq(Int) /\ st.at \in {"in", "escape"} /\ c \in Int
  BY DEF CopyState, Byte
<1>2. field \in Seq(Int)
  BY <1>1 DEF CopyField, Nil
<1> HIDE DEF field
<1>3. Unescaped(c) \in Int
  BY <1>1 DEF Unescaped, Newline, Return, Tab
<1>4. /\ Append(st.cur, Unescaped(c)) \in Seq(Int) /\ Append(st.cur, c) \in Seq(Int)
      /\ Append(st.raw, c) \in Seq(Int) /\ Append(st.row, field) \in Seq(Seq(Int))
      /\ <<>> \in Seq(Int) /\ <<>> \in Seq(Seq(Int))
  BY <1>1, <1>2, <1>3, AppendProperties, EmptySeq
<1>5. Append(st.rows, Append(st.row, field)) \in Seq(Seq(Seq(Int)))
  BY <1>1, <1>4, AppendProperties
<1>6. CASE st.at = "escape"
  <2> DEFINE cur == Append(st.cur, Unescaped(c))
             raw == Append(st.raw, c)
  <2>1. CopyStep(st, c) = [st EXCEPT !.cur = cur, !.raw = raw, !.at = "in"]
    BY <1>6 DEF CopyStep
  <2>2. cur \in Seq(Int) /\ raw \in Seq(Int)
    BY <1>4
  <2> HIDE DEF cur, raw
  <2> QED
    BY <1>1, <2>1, <2>2 DEF CopyState
<1>7. CASE st.at = "in" /\ c = Bslash
  <2> DEFINE raw == Append(st.raw, c)
  <2>1. CopyStep(st, c) = [st EXCEPT !.raw = raw, !.at = "escape"]
    BY <1>7 DEF CopyStep, Bslash, Tab, Newline
  <2>2. raw \in Seq(Int)
    BY <1>4
  <2> HIDE DEF raw
  <2> QED
    BY <1>1, <2>1, <2>2 DEF CopyState
<1>8. CASE st.at = "in" /\ c # Bslash /\ c \in {Tab, Newline}
  <2> DEFINE rows == IF c = Tab THEN st.rows ELSE Append(st.rows, Append(st.row, field))
             row == IF c = Tab THEN Append(st.row, field) ELSE <<>>
  <2>1. CopyStep(st, c) = [rows |-> rows, row |-> row, cur |-> <<>>, raw |-> <<>>, at |-> "in"]
    BY <1>8 DEF CopyStep, field
  <2>2. rows \in Seq(Seq(Seq(Int))) /\ row \in Seq(Seq(Int))
    BY <1>1, <1>4, <1>5
  <2> HIDE DEF rows, row
  <2> QED
    BY <1>4, <2>1, <2>2 DEF CopyState
<1>9. CASE st.at = "in" /\ c # Bslash /\ c \notin {Tab, Newline}
  BY <1>1, <1>4, <1>9 DEF CopyStep, CopyState
<1> QED
  BY <1>1, <1>6, <1>7, <1>8, <1>9

\* ReadRows is what a run of these transitions ends with.
LEMMA CopyRun ==
    ASSUME NEW s \in Seq(Byte)
    PROVE  \E f \in [0..Len(s) -> CopyState] :
               /\ f[0] = CopyStart
               /\ \A k \in 1..Len(s) : f[k] = CopyStep(f[k - 1], s[k])
               /\ ReadRows(s) = f[Len(s)].rows
<1> DEFINE n == Len(s)
           t == [p \in CopyState \X Byte |-> CopyStep(p[1], p[2])]
           Goes_(h) == h = [k \in 0..n |-> IF k = 0 THEN CopyStart
                                           ELSE CopyStep(h[k - 1], s[k])]
           f == CHOOSE h : Goes_(h)
<1>0. n \in Nat /\ (\A k \in 1..n : s[k] \in Byte) /\ CopyStart \in CopyState
  BY LenProperties, ElementOfSeq, EmptySeq DEF CopyStart, CopyState, CopyAt
<1>1. t \in [CopyState \X Byte -> CopyState]
  BY CopyStepType
<1>2. \E h : Goes_(h)
  <2>1. PICK h \in [0..n -> CopyState] : Follows(h, t, CopyStart, s, n)
    BY <1>0, <1>1, RunExists
  <2>2. ASSUME NEW k \in 0..n
        PROVE  h[k] = IF k = 0 THEN CopyStart ELSE CopyStep(h[k - 1], s[k])
    <3>1. h[k] = IF k = 0 THEN CopyStart ELSE t[<<h[k - 1], s[k]>>]
      BY <2>1 DEF Follows
    <3>2. k # 0 => <<h[k - 1], s[k]>> \in CopyState \X Byte
      BY <1>0, <2>1, SMTT(30)
    <3> QED
      BY <3>1, <3>2
  <2>3. h = [k \in 0..n |-> h[k]]
    BY <2>1
  <2>4. Goes_(h)
    BY <2>2, <2>3
  <2> QED
    BY <2>4
<1>3. Goes_(f)
  BY <1>2
<1>4. ReadRows(s) = f[n].rows
  BY DEF ReadRows, Run, CopyStep, CopyStart, CopyAt, CopyField, Unescaped
<1> HIDE DEF f
<1>5. \A k \in 0..n : f[k] = IF k = 0 THEN CopyStart ELSE CopyStep(f[k - 1], s[k])
  BY <1>3
<1>6. f[0] = CopyStart /\ f = [k \in 0..n |-> f[k]]
  BY <1>0, <1>3, <1>5
<1>7. ASSUME NEW k \in 1..n PROVE f[k] = CopyStep(f[k - 1], s[k])
  <2>1. k \in 0..n /\ k # 0
    BY <1>0
  <2> QED
    BY <1>5, <2>1
<1>8. ASSUME NEW k \in 1..n, f[k - 1] \in CopyState PROVE f[k] = t[<<f[k - 1], s[k]>>]
  <2>1. <<f[k - 1], s[k]>> \in CopyState \X Byte
    BY <1>0, <1>8
  <2> QED
    BY <1>7, <2>1
<1> HIDE DEF t
<1>9. \A k \in 0..n : f[k] \in CopyState
  BY <1>0, <1>1, <1>6, <1>8, RunTyped
<1>10. f \in [0..n -> CopyState]
  BY <1>6, <1>9
<1> QED
  BY <1>4, <1>6, <1>7, <1>10

CopyReads(f, s) ==
    /\ f \in [0..Len(s) -> CopyState] /\ f[0] = CopyStart
    /\ \A k \in 1..Len(s) : f[k] = CopyStep(f[k - 1], s[k])

\* The next transitions, over the bytes of a part.
LEMMA CopyNext ==
    ASSUME NEW s \in Seq(Byte), NEW f, CopyReads(f, s), NEW a \in 0..Len(s), NEW part,
           Has(s, a, part), Len(part) \in Nat
    PROVE  /\ Len(part) >= 1 => f[a + 1] = CopyStep(f[a], part[1])
           /\ Len(part) >= 2 => f[a + 2] = CopyStep(f[a + 1], part[2])
<1>1. Len(s) \in Nat /\ a \in Nat
  BY LenProperties
<1>2. ASSUME NEW j \in 1..Len(part) PROVE f[a + j] = CopyStep(f[(a + j) - 1], part[j])
  <2>1. a + j \in 1..Len(s) /\ s[a + j] = part[j]
    BY <1>1 DEF Has
  <2> QED
    BY <2>1 DEF CopyReads
<1>3. (a + 1) - 1 = a /\ (a + 2) - 1 = a + 1
  BY <1>1
<1>4. /\ Len(part) >= 1 => 1 \in 1..Len(part)
      /\ Len(part) >= 2 => 2 \in 1..Len(part)
  OBVIOUS
<1> QED
  BY <1>2, <1>3, <1>4

\* Between two bytes, and after a backslash.
CopyIn(rows, row, cur, raw) == CopyAt(rows, row, cur, raw, "in")
CopyEscaped(rows, row, cur, raw) == CopyAt(rows, row, cur, raw, "escape")

\* The parts of a state, inside a field or after a backslash.
LEMMA CopyNow ==
    ASSUME NEW rows, NEW row, NEW cur, NEW raw
    PROVE  /\ LET now == CopyIn(rows, row, cur, raw)
              IN  /\ now = [rows |-> rows, row |-> row, cur |-> cur, raw |-> raw, at |-> "in"]
                  /\ now.rows = rows /\ now.row = row /\ now.cur = cur /\ now.raw = raw
                  /\ now.at = "in" /\ now.at # "escape"
           /\ LET now == CopyEscaped(rows, row, cur, raw)
              IN  /\ now = [rows |-> rows, row |-> row, cur |-> cur, raw |-> raw, at |-> "escape"]
                  /\ now.rows = rows /\ now.row = row /\ now.cur = cur /\ now.raw = raw
                  /\ now.at = "escape" /\ now.at # "in"
BY DEF CopyIn, CopyEscaped, CopyAt

\* What the reader makes of a byte that stands for itself,
LEMMA CopyPlain ==
    ASSUME NEW rows, NEW row, NEW cur, NEW raw, NEW c \in Byte \ {Bslash, Tab, Newline}
    PROVE  CopyStep(CopyIn(rows, row, cur, raw), c)
               = CopyIn(rows, row, Append(cur, c), Append(raw, c))
<1> DEFINE now == CopyIn(rows, row, cur, raw)
<1>1. /\ now = [rows |-> rows, row |-> row, cur |-> cur, raw |-> raw, at |-> "in"]
      /\ now.cur = cur /\ now.raw = raw /\ now.at = "in" /\ now.at # "escape"
  BY CopyNow
<1> HIDE DEF now
<1>2. CopyStep(now, c) = [now EXCEPT !.cur = Append(cur, c), !.raw = Append(raw, c)]
  BY <1>1 DEF CopyStep
<1>3. CopyStep(now, c) = CopyIn(rows, row, Append(cur, c), Append(raw, c))
  BY <1>1, <1>2 DEF CopyIn, CopyAt
<1> QED
  BY <1>3 DEF now

\* of a backslash,
LEMMA CopyOpens ==
    ASSUME NEW rows, NEW row, NEW cur, NEW raw
    PROVE  CopyStep(CopyIn(rows, row, cur, raw), Bslash)
               = CopyEscaped(rows, row, cur, Append(raw, Bslash))
<1> DEFINE now == CopyIn(rows, row, cur, raw)
<1>1. /\ now = [rows |-> rows, row |-> row, cur |-> cur, raw |-> raw, at |-> "in"]
      /\ now.cur = cur /\ now.raw = raw /\ now.at = "in" /\ now.at # "escape"
  BY CopyNow
<1> HIDE DEF now
<1>2. CopyStep(now, Bslash) = [now EXCEPT !.raw = Append(raw, Bslash), !.at = "escape"]
  BY <1>1 DEF CopyStep, Bslash, Tab, Newline
<1>3. CopyStep(now, Bslash) = CopyEscaped(rows, row, cur, Append(raw, Bslash))
  BY <1>1, <1>2 DEF CopyEscaped, CopyAt
<1> QED
  BY <1>3 DEF now

\* of the byte after it,
LEMMA CopyCloses ==
    ASSUME NEW rows, NEW row, NEW cur, NEW raw, NEW c \in Byte
    PROVE  CopyStep(CopyEscaped(rows, row, cur, raw), c)
               = CopyIn(rows, row, Append(cur, Unescaped(c)), Append(raw, c))
<1> DEFINE now == CopyEscaped(rows, row, cur, raw)
           more == Append(cur, Unescaped(c))
<1>1. /\ now = [rows |-> rows, row |-> row, cur |-> cur, raw |-> raw, at |-> "escape"]
      /\ now.cur = cur /\ now.raw = raw /\ now.at = "escape" /\ now.at # "in"
  BY CopyNow
<1> HIDE DEF now
<1>2. CopyStep(now, c) = [now EXCEPT !.cur = more, !.raw = Append(raw, c), !.at = "in"]
  BY <1>1 DEF CopyStep
<1> HIDE DEF more
<1>3. CopyStep(now, c) = CopyIn(rows, row, more, Append(raw, c))
  BY <1>1, <1>2 DEF CopyIn, CopyAt
<1> QED
  BY <1>3 DEF now, more

\* and of the end of a field and of a row.
LEMMA CopyEnds ==
    ASSUME NEW rows, NEW row, NEW cur, NEW raw, NEW field, field = CopyField(cur, raw)
    PROVE  /\ CopyStep(CopyIn(rows, row, cur, raw), Tab)
                  = CopyIn(rows, Append(row, field), <<>>, <<>>)
           /\ CopyStep(CopyIn(rows, row, cur, raw), Newline)
                  = CopyIn(Append(rows, Append(row, field)), <<>>, <<>>, <<>>)
<1> DEFINE now == CopyIn(rows, row, cur, raw)
<1>1. /\ now.rows = rows /\ now.row = row /\ now.cur = cur /\ now.raw = raw
      /\ now.at = "in" /\ now.at # "escape"
  BY CopyNow
<1>2. CopyField(now.cur, now.raw) = field
  BY <1>1
<1> HIDE DEF now
<1>3. Tab # Bslash /\ Tab \in {Tab, Newline} /\ Newline # Bslash /\ Newline # Tab
      /\ Newline \in {Tab, Newline}
  BY DEF Tab, Bslash, Newline
<1>4. CopyStep(now, Tab) = CopyIn(rows, Append(row, field), <<>>, <<>>)
  BY <1>1, <1>2, <1>3 DEF CopyStep, CopyIn, CopyAt
<1>5. CopyStep(now, Newline) = CopyIn(Append(rows, Append(row, field)), <<>>, <<>>, <<>>)
  BY <1>1, <1>2, <1>3 DEF CopyStep, CopyIn, CopyAt
<1> QED
  BY <1>4, <1>5 DEF now

CopyEscape(c) ==
    CASE c = Bslash -> EscapedBackslash
      [] c = Newline -> <<Bslash, 110>>
      [] c = Return -> <<Bslash, 114>>
      [] c = Tab -> <<Bslash, 116>>
      [] OTHER -> <<c>>
TextParts(text) == [k \in DOMAIN text |-> CopyEscape(text[k])]

\* A byte is written as itself, or as a backslash and a byte other than N.
LEMMA CopyEscapeForms ==
    ASSUME NEW c \in Byte
    PROVE  /\ CopyEscape(c) \in Seq(Byte)
           /\ \/ c \notin {Bslash, Tab, Newline} /\ CopyEscape(c) = <<c>>
              \/ \E e \in Byte : e # 78 /\ CopyEscape(c) = <<Bslash, e>> /\ Unescaped(e) = c
<1>0. /\ Bslash # Newline /\ Bslash # Return /\ Bslash # Tab /\ Newline # Return
      /\ Newline # Tab /\ Return # Tab /\ Bslash \in Byte
  BY DEF Bslash, Newline, Return, Tab, Byte
<1>1. ASSUME NEW e \in Byte, e # 78, CopyEscape(c) = <<Bslash, e>>, Unescaped(e) = c
      PROVE  /\ CopyEscape(c) \in Seq(Byte)
             /\ \E x \in Byte : x # 78 /\ CopyEscape(c) = <<Bslash, x>> /\ Unescaped(x) = c
  BY <1>0, <1>1
<1>2. CASE c = Bslash
  <2>1. CopyEscape(c) = <<Bslash, Bslash>> /\ Unescaped(Bslash) = c /\ Bslash # 78
    BY <1>0, <1>2 DEF CopyEscape, EscapedBackslash, Unescaped, Bslash
  <2> QED
    BY <1>0, <1>1, <2>1
<1>3. CASE c = Newline
  <2>1. CopyEscape(c) = <<Bslash, 110>> /\ Unescaped(110) = c /\ 110 \in Byte
    BY <1>0, <1>3 DEF CopyEscape, Unescaped, Byte
  <2> QED
    BY <1>1, <2>1
<1>4. CASE c = Return
  <2>1. CopyEscape(c) = <<Bslash, 114>> /\ Unescaped(114) = c /\ 114 \in Byte
    BY <1>0, <1>4 DEF CopyEscape, Unescaped, Byte
  <2> QED
    BY <1>1, <2>1
<1>5. CASE c = Tab
  <2>1. CopyEscape(c) = <<Bslash, 116>> /\ Unescaped(116) = c /\ 116 \in Byte
    BY <1>0, <1>5 DEF CopyEscape, Unescaped, Byte
  <2> QED
    BY <1>1, <2>1
<1>6. CASE c \notin {Bslash, Newline, Return, Tab}
  <2>1. CopyEscape(c) = <<c>>
    BY <1>6 DEF CopyEscape
  <2> QED
    BY <1>6, <2>1
<1> QED
  BY <1>2, <1>3, <1>4, <1>5, <1>6

\* The types of the escapes.
LEMMA TextPartsType ==
    ASSUME NEW v \in Seq(Byte)
    PROVE  /\ TextParts(v) \in Seq(Seq(Byte)) /\ Len(TextParts(v)) = Len(v)
           /\ FlattenSeq(TextParts(v)) \in Seq(Byte)
           /\ \A k \in 1..Len(v) : v[k] \in Byte /\ TextParts(v)[k] = CopyEscape(v[k])
           /\ AppendEscapedText(v) = FlattenSeq(TextParts(v))
<1>0. Len(v) \in Nat /\ DOMAIN v = 1..Len(v) /\ \A k \in 1..Len(v) : v[k] \in Byte
  BY LenProperties, ElementOfSeq
<1>1. \A b \in Byte : CopyEscape(b) \in Seq(Byte)
  BY CopyEscapeForms
<1>2. TextParts(v) \in Seq(Seq(Byte)) /\ Len(TextParts(v)) = Len(v)
  BY <1>0, <1>1 DEF TextParts
<1>3. FlattenSeq(TextParts(v)) \in Seq(Byte)
  BY <1>2, FlattenParts
<1>4. AppendEscapedText(v) = FlattenSeq(TextParts(v))
  BY DEF AppendEscapedText, Each, TextParts, CopyEscape
<1> QED
  BY <1>0, <1>2, <1>3, <1>4 DEF TextParts

\* What is not, and does not become, the text \N.
NotNull == {raw \in Seq(Int) : Len(raw) # 0 => raw[1] # Bslash \/ (Len(raw) >= 2 /\ raw[2] # 78)}

\* No escaped text becomes \N.
LEMMA NotNullGrows ==
    ASSUME NEW raw \in NotNull
    PROVE  /\ \A c \in Byte \ {Bslash} : Append(raw, c) \in NotNull
           /\ \A e \in Byte : e # 78 => Append(Append(raw, Bslash), e) \in NotNull
           /\ raw # <<Bslash, 78>>
<1>1. raw \in Seq(Int) /\ Len(raw) \in Nat
      /\ (Len(raw) # 0 => raw[1] # Bslash \/ (Len(raw) >= 2 /\ raw[2] # 78))
  BY LenProperties DEF NotNull
<1>2. Bslash \in Int
  BY DEF Bslash
<1>3. ASSUME NEW c \in Byte \ {Bslash} PROVE Append(raw, c) \in NotNull
  <2> DEFINE t == Append(raw, c)
  <2>1. t \in Seq(Int) /\ Len(t) = Len(raw) + 1 /\ (\A k \in 1..Len(raw) : t[k] = raw[k])
        /\ t[Len(raw) + 1] = c
    <3>1. c \in Int
      BY DEF Byte
    <3> QED
      BY <1>1, <3>1, AppendProperties
  <2> HIDE DEF t
  <2>2. Len(raw) = 0 => t[1] = c
    BY <2>1
  <2>3. Len(raw) # 0 => t[1] = raw[1]
    BY <1>1, <2>1
  <2>4. Len(raw) >= 2 => t[2] = raw[2]
    BY <1>1, <2>1
  <2>5. t \in NotNull
    BY <1>1, <2>1, <2>2, <2>3, <2>4, SMTT(30) DEF NotNull
  <2> QED
    BY <2>5 DEF t
<1>4. ASSUME NEW e \in Byte, e # 78 PROVE Append(Append(raw, Bslash), e) \in NotNull
  <2> DEFINE u == Append(raw, Bslash)
             t == Append(u, e)
  <2>1. u \in Seq(Int) /\ Len(u) = Len(raw) + 1 /\ (\A k \in 1..Len(raw) : u[k] = raw[k])
        /\ u[Len(raw) + 1] = Bslash
    BY <1>1, <1>2, AppendProperties
  <2> HIDE DEF u
  <2>2. t \in Seq(Int) /\ Len(t) = Len(u) + 1 /\ (\A k \in 1..Len(u) : t[k] = u[k])
        /\ t[Len(u) + 1] = e
    <3>1. e \in Int
      BY DEF Byte
    <3> QED
      BY <2>1, <3>1, AppendProperties
  <2> HIDE DEF t
  <2>3. Len(raw) = 0 => Len(t) = 2 /\ t[2] = e
    BY <2>1, <2>2
  <2>4. Len(raw) # 0 => t[1] = raw[1]
    <3>1. SUFFICES ASSUME Len(raw) # 0 PROVE t[1] = raw[1]
      OBVIOUS
    <3>2. 1 \in 1..Len(raw) /\ 1 \in 1..Len(u)
      BY <1>1, <2>1, <3>1
    <3> QED
      BY <2>1, <2>2, <3>2
  <2>5. Len(raw) >= 2 => t[2] = raw[2]
    BY <1>1, <2>1, <2>2
  <2>6. Len(t) = Len(raw) + 2
    BY <1>1, <2>1, <2>2
  <2>7. t \in NotNull
    BY <1>1, <1>4, <2>2, <2>3, <2>4, <2>5, <2>6, SMTT(30) DEF NotNull
  <2> QED
    BY <2>7 DEF t, u
<1>5. raw # <<Bslash, 78>>
  <2>1. SUFFICES ASSUME raw = <<Bslash, 78>> PROVE FALSE
    OBVIOUS
  <2>2. Len(raw) = 2 /\ raw[1] = Bslash /\ raw[2] = 78
    BY <2>1
  <2> QED
    BY <1>1, <2>2
<1> QED
  BY <1>3, <1>4, <1>5

\* The escape of one byte is read as that byte.
LEMMA CopyOne ==
    ASSUME NEW s \in Seq(Byte), NEW f, CopyReads(f, s), NEW a \in 0..Len(s), NEW c \in Byte,
           Has(s, a, CopyEscape(c)), NEW rows, NEW row, NEW cur, NEW raw \in NotNull,
           f[a] = CopyIn(rows, row, cur, raw)
    PROVE  \E more \in NotNull :
               f[a + Len(CopyEscape(c))] = CopyIn(rows, row, Append(cur, c), more)
<1> DEFINE part == CopyEscape(c)
           now == CopyIn(rows, row, cur, raw)
<1>0. f[a] = now /\ Has(s, a, part)
  OBVIOUS
<1>1. CASE c \notin {Bslash, Tab, Newline} /\ CopyEscape(c) = <<c>>
  <2>1. part = <<c>>
    BY <1>1
  <2>2. Len(part) \in Nat /\ Len(part) >= 1 /\ part[1] = c
    BY <2>1
  <2> HIDE DEF part, now
  <2>3. f[a + 1] = CopyStep(now, c)
    BY <1>0, <2>2, CopyNext
  <2>4. CopyStep(now, c) = CopyIn(rows, row, Append(cur, c), Append(raw, c))
    BY <1>1, CopyPlain DEF now
  <2>5. Len(part) = 1
    BY <2>1
  <2>6. Append(raw, c) \in NotNull
    BY <1>1, NotNullGrows
  <2>7. f[a + Len(part)] = CopyIn(rows, row, Append(cur, c), Append(raw, c))
    BY <2>3, <2>4, <2>5
  <2> QED
    BY <2>6, <2>7 DEF part
<1>2. ASSUME NEW e \in Byte, e # 78, CopyEscape(c) = <<Bslash, e>>, Unescaped(e) = c
      PROVE  \E more \in NotNull :
                 f[a + Len(CopyEscape(c))] = CopyIn(rows, row, Append(cur, c), more)
  <2> DEFINE mid == CopyEscaped(rows, row, cur, Append(raw, Bslash))
             more == Append(Append(raw, Bslash), e)
             after == CopyIn(rows, row, Append(cur, c), more)
  <2>1. part = <<Bslash, e>>
    BY <1>2
  <2>2. Len(part) \in Nat /\ Len(part) >= 1 /\ Len(part) >= 2 /\ part[1] = Bslash /\ part[2] = e
    BY <2>1
  <2> HIDE DEF part, now
  <2>3. f[a + 1] = CopyStep(now, Bslash) /\ f[a + 2] = CopyStep(f[a + 1], e)
    BY <1>0, <2>2, CopyNext
  <2>4. CopyStep(now, Bslash) = mid
    BY CopyOpens DEF now
  <2>5. CopyStep(mid, e) = after
    <3>1. CopyStep(mid, e) = CopyIn(rows, row, Append(cur, Unescaped(e)), more)
      BY CopyCloses
    <3> QED
      BY <1>2, <3>1
  <2>6. Len(part) = 2
    BY <2>1
  <2>7. more \in NotNull
    BY <1>2, NotNullGrows
  <2> HIDE DEF mid, after
  <2>8. f[a + Len(part)] = after
    BY <2>3, <2>4, <2>5, <2>6
  <2> QED
    BY <2>7, <2>8 DEF part, after
<1> QED
  BY <1>1, <1>2, CopyEscapeForms

\* A text in a field of a row.
LEMMA TextRead ==
    ASSUME NEW s \in Seq(Byte), NEW f, CopyReads(f, s), NEW p \in 0..Len(s), NEW text \in Seq(Byte),
           Has(s, p, AppendEscapedText(text)), NEW rows, NEW row,
           f[p] = CopyIn(rows, row, <<>>, <<>>)
    PROVE  \E more \in NotNull :
               f[p + Len(AppendEscapedText(text))] = CopyIn(rows, row, text, more)
<1> DEFINE parts == TextParts(text)
           R == {<<k, CopyIn(rows, row, SubSeq(text, 1, k), more)>> :
                     k \in 0..Len(text), more \in NotNull}
<1>0. /\ parts \in Seq(Seq(Byte)) /\ Len(parts) = Len(text) /\ Len(text) \in Nat
      /\ AppendEscapedText(text) = FlattenSeq(parts)
  BY TextPartsType, LenProperties
<1>1. \A k \in 0..Len(text) : \A st : <<k, st>> \in R <=>
          \E more \in NotNull : st = CopyIn(rows, row, SubSeq(text, 1, k), more)
  OBVIOUS
<1> HIDE DEF R
<1>2. <<0, f[p]>> \in R
  <2>1. <<>> \in NotNull
    BY EmptySeq DEF NotNull
  <2>2. SubSeq(text, 1, 0) = <<>> /\ 0 \in 0..Len(text)
    BY <1>0, Prefix
  <2>3. f[p] = CopyIn(rows, row, SubSeq(text, 1, 0), <<>>)
    BY <2>2
  <2> QED
    BY <1>1, <2>1, <2>2, <2>3
<1>3. ASSUME NEW k \in 1..Len(parts), NEW a \in 0..Len(s), Has(s, a, parts[k]),
             <<k - 1, f[a]>> \in R
      PROVE  <<k, f[a + Len(parts[k])]>> \in R
  <2> DEFINE c == text[k]
             before == SubSeq(text, 1, k - 1)
  <2>1. k \in 1..Len(text) /\ k - 1 \in 0..Len(text) /\ k \in 0..Len(text)
    BY <1>0
  <2>2. c \in Byte /\ Append(before, c) = SubSeq(text, 1, k) /\ parts[k] = CopyEscape(c)
    BY <2>1, TextPartsType, Prefix
  <2>3. PICK raw \in NotNull : f[a] = CopyIn(rows, row, before, raw)
    BY <1>1, <1>3, <2>1
  <2>4. Has(s, a, CopyEscape(c))
    BY <1>3, <2>2
  <2>5. \E more \in NotNull :
            f[a + Len(CopyEscape(c))] = CopyIn(rows, row, Append(before, c), more)
    <3> HIDE DEF c, before, parts
    <3>1. c \in Byte
      BY <2>2
    <3> QED
      BY <2>3, <2>4, <3>1, CopyOne
  <2> QED
    BY <1>1, <2>1, <2>2, <2>5
<1> HIDE DEF parts
<1>4. Has(s, p, FlattenSeq(parts))
  BY <1>0
<1>6. parts \in Seq(Seq(Byte))
  BY <1>0
<1>7. <<Len(parts), f[p + Len(FlattenSeq(parts))]>> \in R
  <2>1. ByPartsIn(Byte, s, parts, p, f, R)
    BY <1>2, <1>3, <1>4, <1>6 DEF ByPartsIn
  <2> QED
    BY <2>1, ReadPartsIn
<1>8. SubSeq(text, 1, Len(text)) = text /\ Len(text) \in 0..Len(text)
  BY <1>0, Prefix
<1>9. <<Len(text), f[p + Len(FlattenSeq(parts))]>> \in R
  BY <1>0, <1>7
<1>10. PICK more \in NotNull :
           f[p + Len(FlattenSeq(parts))] = CopyIn(rows, row, SubSeq(text, 1, Len(text)), more)
  BY <1>1, <1>8, <1>9
<1>11. f[p + Len(FlattenSeq(parts))] = CopyIn(rows, row, text, more)
  BY <1>8, <1>10
<1> QED
  BY <1>0, <1>11

\* What a value is in COPY data, and what has arrived when it is read.
Arrives(x) == CASE x.type = "nil" -> Nil
                [] x.type = "text" -> x.val
                [] x.type = "bytes" -> EncodeBytea(FALSE, x.val)

\* appendEncodedText makes a text.
LEMMA EncodedType ==
    ASSUME NEW x \in CopyValue
    PROVE  AppendEncodedText(x) \in Seq(Byte)
<1>1. CASE x.type = "nil"
  <2>1. <<Bslash, 78>> \in Seq(Byte)
    BY DEF Bslash, Byte
  <2> QED
    BY <1>1, <2>1 DEF AppendEncodedText
<1>2. CASE x.type = "text"
  BY <1>2, TextPartsType DEF AppendEncodedText, CopyValue
<1>3. CASE x.type = "bytes"
  <2> DEFINE b == EncodeBytea(FALSE, x.val)
  <2>1. b \in Seq(Byte)
    BY EscapePartsType DEF CopyValue
  <2> HIDE DEF b
  <2>2. AppendEscapedText(b) \in Seq(Byte)
    BY <2>1, TextPartsType
  <2> QED
    BY <1>3, <2>2 DEF AppendEncodedText, b
<1> QED
  BY <1>1, <1>2, <1>3 DEF CopyValue

\* The first field of a row: what arrives, whatever its value is.
LEMMA FieldRead ==
    ASSUME NEW s \in Seq(Byte), NEW f, CopyReads(f, s), NEW p \in 0..Len(s), NEW x \in CopyValue,
           Has(s, p, AppendEncodedText(x)), NEW rows, NEW row,
           f[p] = CopyIn(rows, row, <<>>, <<>>)
    PROVE  \E cur, raw : /\ f[p + Len(AppendEncodedText(x))] = CopyIn(rows, row, cur, raw)
                         /\ CopyField(cur, raw) = Arrives(x)
<1>1. ASSUME NEW text \in Seq(Byte), AppendEncodedText(x) = AppendEscapedText(text),
             Arrives(x) = text
      PROVE  \E cur, raw : /\ f[p + Len(AppendEncodedText(x))] = CopyIn(rows, row, cur, raw)
                           /\ CopyField(cur, raw) = Arrives(x)
  <2>1. Has(s, p, AppendEscapedText(text))
    BY <1>1
  <2>2. PICK raw \in NotNull :
            f[p + Len(AppendEscapedText(text))] = CopyIn(rows, row, text, raw)
    BY <2>1, TextRead
  <2>3. CopyField(text, raw) = text
    BY NotNullGrows DEF CopyField
  <2> QED
    BY <1>1, <2>2, <2>3
<1>2. CASE x.type = "nil"
  <2> DEFINE part == AppendEncodedText(x)
             now == CopyIn(rows, row, <<>>, <<>>)
             one == Append(<<>>, Bslash)
             raw == Append(one, 78)
             cur == Append(<<>>, Unescaped(78))
             mid == CopyEscaped(rows, row, <<>>, one)
             after == CopyIn(rows, row, cur, raw)
  <2>1. part = <<Bslash, 78>>
    BY <1>2 DEF AppendEncodedText
  <2>2. Len(part) \in Nat /\ Len(part) >= 1 /\ Len(part) >= 2 /\ part[1] = Bslash /\ part[2] = 78
    BY <2>1
  <2>9. f[p] = now /\ Has(s, p, part)
    OBVIOUS
  <2> HIDE DEF part, now
  <2>3. f[p + 1] = CopyStep(now, Bslash) /\ f[p + 2] = CopyStep(f[p + 1], 78)
    BY <2>2, <2>9, CopyNext
  <2>4. CopyStep(now, Bslash) = mid
    BY CopyOpens, Zenon DEF now
  <2>5. CopyStep(mid, 78) = after
    <3> DEFINE e == 78
               none == <<>>
    <3>1. e \in Byte
      BY DEF Byte
    <3> HIDE DEF one, e, none
    <3>2. CopyStep(CopyEscaped(rows, row, none, one), e)
              = CopyIn(rows, row, Append(none, Unescaped(e)), Append(one, e))
      BY <3>1, CopyCloses
    <3> QED
      BY <3>2 DEF e, none
  <2>6. Len(part) = 2
    BY <2>1
  <2>7. raw = <<Bslash, 78>>
    BY DigitTuples
  <2>8. CopyField(cur, raw) = Arrives(x)
    BY <1>2, <2>7 DEF CopyField, Arrives
  <2> HIDE DEF mid, raw, cur
  <2>10. f[p + Len(part)] = after
    BY <2>3, <2>4, <2>5, <2>6
  <2> QED
    BY <2>8, <2>10 DEF part
<1>3. CASE x.type = "text"
  <2>1. x.val \in Seq(Byte) /\ AppendEncodedText(x) = AppendEscapedText(x.val) /\ Arrives(x) = x.val
    BY <1>3 DEF AppendEncodedText, Arrives, CopyValue
  <2> QED
    BY <1>1, <2>1
<1>4. CASE x.type = "bytes"
  <2> DEFINE b == EncodeBytea(FALSE, x.val)
  <2>1. b \in Seq(Byte)
    BY EscapePartsType DEF CopyValue
  <2>2. AppendEncodedText(x) = AppendEscapedText(b) /\ Arrives(x) = b
    BY <1>4 DEF AppendEncodedText, Arrives
  <2> HIDE DEF b
  <2> QED
    BY <1>1, <2>1, <2>2
<1> QED
  BY <1>2, <1>3, <1>4 DEF CopyValue

\* Where a part and one more byte are, the part is, and then that byte.
LEMMA HasAppend ==
    ASSUME NEW M, NEW s \in Seq(M), NEW w \in Seq(M), NEW c \in M, NEW p, Has(s, p, Append(w, c))
    PROVE  /\ Has(s, p, w) /\ Has(s, p + Len(w), <<c>>)
           /\ Len(Append(w, c)) = Len(w) + 1
<1> DEFINE t == Append(w, c)
<1>1. t \in Seq(M) /\ Len(t) = Len(w) + 1 /\ (\A j \in 1..Len(w) : t[j] = w[j])
      /\ t[Len(w) + 1] = c /\ Len(w) \in Nat /\ Len(s) \in Nat
  BY AppendProperties, LenProperties
<1>0. Has(s, p, t)
  OBVIOUS
<1> HIDE DEF t
<1>2. p \in Nat /\ p + Len(t) <= Len(s) /\ \A j \in 1..Len(t) : s[p + j] = t[j]
  BY <1>0 DEF Has
<1>3. Has(s, p, w)
  BY <1>1, <1>2 DEF Has
<1>4. Len(w) + 1 \in 1..Len(t)
  BY <1>1
<1>5. s[p + (Len(w) + 1)] = c
  BY <1>1, <1>2, <1>4
<1> DEFINE one == <<c>>
<1>6. Len(one) = 1 /\ one[1] = c
  OBVIOUS
<1> HIDE DEF one
<1>7. (p + Len(w)) + 1 = p + (Len(w) + 1) /\ p + Len(w) \in Nat
  BY <1>1, <1>2
<1>8. Has(s, p + Len(w), one)
  BY <1>1, <1>2, <1>5, <1>6, <1>7 DEF Has
<1> QED
  BY <1>1, <1>3, <1>8 DEF t, one

Arrivals(values) == [k \in DOMAIN values |-> Arrives(values[k])]
RowParts(values) ==
    [k \in DOMAIN values |-> IF k = 1 THEN AppendEncodedText(values[k])
                             ELSE <<Tab>> \o AppendEncodedText(values[k])]

\* A row of COPY data: its fields, tabs between them, and a newline.
LEMMA RowPartsType ==
    ASSUME NEW values \in Seq(CopyValue)
    PROVE  /\ RowParts(values) \in Seq(Seq(Byte)) /\ Len(RowParts(values)) = Len(values)
           /\ FlattenSeq(RowParts(values)) \in Seq(Byte)
           /\ CopyRow(values) = Append(FlattenSeq(RowParts(values)), Newline)
           /\ CopyRow(values) \in Seq(Byte)
           /\ \A k \in 1..Len(values) :
                  /\ values[k] \in CopyValue
                  /\ RowParts(values)[k] = IF k = 1 THEN AppendEncodedText(values[k])
                                           ELSE <<Tab>> \o AppendEncodedText(values[k])
<1>0. Len(values) \in Nat /\ DOMAIN values = 1..Len(values)
      /\ \A k \in 1..Len(values) : values[k] \in CopyValue
  BY LenProperties, ElementOfSeq
<1>1. \A x \in CopyValue : AppendEncodedText(x) \in Seq(Byte)
                           /\ <<Tab>> \o AppendEncodedText(x) \in Seq(Byte)
  <2> TAKE x \in CopyValue
  <2>1. AppendEncodedText(x) \in Seq(Byte)
    BY EncodedType
  <2>2. <<Tab>> \in Seq(Byte)
    BY DEF Tab, Byte
  <2> QED
    BY <2>1, <2>2, ConcatProperties
<1>2. RowParts(values) \in Seq(Seq(Byte)) /\ Len(RowParts(values)) = Len(values)
  <2>1. \A k \in 1..Len(values) : (IF k = 1 THEN AppendEncodedText(values[k])
                                   ELSE <<Tab>> \o AppendEncodedText(values[k])) \in Seq(Byte)
    BY <1>0, <1>1
  <2> QED
    BY <1>0, <2>1 DEF RowParts
<1>3. FlattenSeq(RowParts(values)) \in Seq(Byte)
  BY <1>2, FlattenParts
<1>4. CopyRow(values) = Append(FlattenSeq(RowParts(values)), Newline)
  <2> DEFINE encs == [k \in DOMAIN values |-> AppendEncodedText(values[k])]
             parts == [k \in DOMAIN encs |-> IF k = 1 THEN encs[k] ELSE <<Tab>> \o encs[k]]
  <2>1. parts = RowParts(values)
    BY DEF RowParts
  <2>2. CopyRow(values) = Append(FlattenSeq(parts), Newline)
    BY DEF CopyRow, Join
  <2> HIDE DEF parts
  <2> QED
    BY <2>1, <2>2
<1>5. CopyRow(values) \in Seq(Byte)
  <2>1. Newline \in Byte
    BY DEF Newline, Byte
  <2> QED
    BY <1>3, <1>4, <2>1, AppendProperties
<1> QED
  BY <1>0, <1>2, <1>3, <1>4, <1>5 DEF RowParts

\* The types of what arrives.
LEMMA ArrivalsType ==
    ASSUME NEW values \in Seq(CopyValue)
    PROVE  /\ Arrivals(values) \in Seq(Seq(Int)) /\ Len(Arrivals(values)) = Len(values)
           /\ \A k \in 1..Len(values) : Arrivals(values)[k] = Arrives(values[k])
<1>0. Len(values) \in Nat /\ DOMAIN values = 1..Len(values)
      /\ \A k \in 1..Len(values) : values[k] \in CopyValue
  BY LenProperties, ElementOfSeq
<1>1. \A v \in Seq(Byte) : v \in Seq(Int)
  <2>1. \A b \in Byte : b \in Int
    BY DEF Byte
  <2> QED
    BY <2>1
<1>2. \A x \in CopyValue : Arrives(x) \in Seq(Int)
  <2> TAKE x \in CopyValue
  <2>1. x.val \in Seq(Byte) /\ EncodeBytea(FALSE, x.val) \in Seq(Byte)
    BY EscapePartsType DEF CopyValue
  <2>2. Nil \in Seq(Int)
    BY DEF Nil
  <2> DEFINE b == EncodeBytea(FALSE, x.val)
  <2>3. b \in Seq(Int) /\ x.val \in Seq(Int)
    BY <1>1, <2>1
  <2>4. Arrives(x) = Nil \/ Arrives(x) = x.val \/ Arrives(x) = b
    BY DEF Arrives, CopyValue
  <2> HIDE DEF b
  <2> QED
    BY <2>2, <2>3, <2>4
<1> QED
  BY <1>0, <1>2 DEF Arrivals

\* A field after the first: the tab that ends the one before it.
LEMMA NextFieldRead ==
    ASSUME NEW s \in Seq(Byte), NEW f, CopyReads(f, s), NEW a \in 0..Len(s), NEW x \in CopyValue,
           Has(s, a, <<Tab>> \o AppendEncodedText(x)), NEW rows, NEW row, NEW last, NEW lastRaw,
           f[a] = CopyIn(rows, row, last, lastRaw)
    PROVE  \E cur, raw :
               /\ f[a + Len(<<Tab>> \o AppendEncodedText(x))]
                      = CopyIn(rows, Append(row, CopyField(last, lastRaw)), cur, raw)
               /\ CopyField(cur, raw) = Arrives(x)
<1> DEFINE tab == <<Tab>>
           enc == AppendEncodedText(x)
           field == CopyField(last, lastRaw)
<1>1. tab \in Seq(Byte) /\ Len(tab) \in Nat /\ Len(tab) >= 1 /\ tab[1] = Tab
  BY DEF Tab, Byte
<1>2. Len(tab) = 1
  OBVIOUS
<1>3. enc \in Seq(Byte)
  BY EncodedType
<1>0. Has(s, a, tab \o enc)
  OBVIOUS
<1> HIDE DEF tab, enc
<1>4. Has(s, a, tab) /\ Has(s, a + Len(tab), enc) /\ Len(tab \o enc) = Len(tab) + Len(enc)
  BY <1>0, <1>1, <1>3, HasBoth
<1>5. f[a + 1] = CopyStep(f[a], Tab)
  BY <1>1, <1>4, CopyNext
<1>6. CopyStep(CopyIn(rows, row, last, lastRaw), Tab) = CopyIn(rows, Append(row, field), <<>>, <<>>)
  BY CopyEnds
<1>7. f[a + 1] = CopyIn(rows, Append(row, field), <<>>, <<>>)
  BY <1>5, <1>6
<1>8. a + 1 \in 0..Len(s)
  <2>1. a + Len(tab) <= Len(s) /\ a \in Nat /\ Len(s) \in Nat
    BY <1>4, LenProperties DEF Has
  <2> QED
    BY <1>2, <2>1
<1>9. Has(s, a + 1, enc)
  BY <1>2, <1>4
<1> HIDE DEF field
<1> DEFINE b == a + 1
           longer == Append(row, field)
<1> HIDE DEF b, longer
<1>10. \E cur, raw : f[b + Len(enc)] = CopyIn(rows, longer, cur, raw)
                     /\ CopyField(cur, raw) = Arrives(x)
  <2>1. b \in 0..Len(s) /\ Has(s, b, AppendEncodedText(x))
    BY <1>8, <1>9 DEF b, enc
  <2>2. f[b] = CopyIn(rows, longer, <<>>, <<>>)
    BY <1>7 DEF b, longer
  <2> QED
    BY <2>1, <2>2, FieldRead DEF enc
<1>11. b + Len(enc) = a + Len(tab \o enc)
  <2>1. Len(enc) \in Nat /\ a \in Nat /\ Len(s) \in Nat
    BY <1>3, LenProperties
  <2> QED
    BY <1>2, <1>4, <2>1 DEF b
<1> QED
  BY <1>10, <1>11 DEF tab, enc, field, longer

\* A row is read as its values.
LEMMA RowRead ==
    ASSUME NEW s \in Seq(Byte), NEW f, CopyReads(f, s), NEW p \in 0..Len(s),
           NEW values \in Seq(CopyValue), Len(values) # 0, Has(s, p, CopyRow(values)), NEW rows,
           f[p] = CopyIn(rows, <<>>, <<>>, <<>>)
    PROVE  f[p + Len(CopyRow(values))] = CopyIn(Append(rows, Arrivals(values)), <<>>, <<>>, <<>>)
<1> DEFINE n == Len(values)
           arr == Arrivals(values)
           parts == RowParts(values)
           w == FlattenSeq(parts)
           Inside(k, st) == \E cur, raw : /\ st = CopyIn(rows, SubSeq(arr, 1, k - 1), cur, raw)
                                          /\ CopyField(cur, raw) = arr[k]
           R == {q \in (0..n) \X CopyState :
                    IF q[1] = 0 THEN q[2] = CopyIn(rows, <<>>, <<>>, <<>>)
                    ELSE Inside(q[1], q[2])}
<1>0. /\ n \in Nat /\ parts \in Seq(Seq(Byte)) /\ Len(parts) = n /\ w \in Seq(Byte)
      /\ CopyRow(values) = Append(w, Newline) /\ arr \in Seq(Seq(Int)) /\ Len(arr) = n
      /\ Len(s) \in Nat /\ p \in Nat
  BY RowPartsType, ArrivalsType, LenProperties
<1>1. /\ \A st : <<0, st>> \in R <=> st \in CopyState /\ st = CopyIn(rows, <<>>, <<>>, <<>>)
      /\ \A k \in 1..n : \A st : <<k, st>> \in R <=> st \in CopyState /\ Inside(k, st)
  <2>1. 0 \in 0..n /\ \A k \in 1..n : k \in 0..n /\ k # 0
    BY <1>0
  <2> HIDE DEF Inside
  <2> QED
    BY <2>1
<1>2. \A a \in 0..Len(s) : f[a] \in CopyState
  BY DEF CopyReads
<1> HIDE DEF R
<1>3. <<0, f[p]>> \in R
  BY <1>1, <1>2
<1>4. Has(s, p, w) /\ Has(s, p + Len(w), <<Newline>>) /\ Len(CopyRow(values)) = Len(w) + 1
  <2>1. Newline \in Byte /\ Has(s, p, Append(w, Newline))
    BY <1>0 DEF Newline, Byte
  <2> HIDE DEF w
  <2>2. Has(s, p, w) /\ Has(s, p + Len(w), <<Newline>>) /\ Len(Append(w, Newline)) = Len(w) + 1
    BY <1>0, <2>1, HasAppend
  <2> QED
    BY <1>0, <2>2
<1>5. ASSUME NEW k \in 1..Len(parts), NEW a \in 0..Len(s), Has(s, a, parts[k]),
             <<k - 1, f[a]>> \in R
      PROVE  <<k, f[a + Len(parts[k])]>> \in R
  <2> DEFINE x == values[k]
             part == parts[k]
             end == a + Len(part)
  <2>1. k \in 1..n /\ k \in Nat /\ x \in CopyValue /\ arr[k] = Arrives(x)
        /\ part = IF k = 1 THEN AppendEncodedText(x) ELSE <<Tab>> \o AppendEncodedText(x)
    <3>1. k \in 1..n /\ k \in Nat
      BY <1>0
    <3>2. x \in CopyValue
          /\ part = IF k = 1 THEN AppendEncodedText(x) ELSE <<Tab>> \o AppendEncodedText(x)
      BY <3>1, RowPartsType
    <3>3. arr[k] = Arrives(x)
      BY <3>1, ArrivalsType
    <3> QED
      BY <3>1, <3>2, <3>3
  <2>2. end \in 0..Len(s)
    <3>1. Len(part) \in Nat /\ a \in Nat
      <4>1. part \in Seq(Byte)
        BY <1>0, <1>5, ElementOfSeq
      <4> QED
        BY <1>0, <4>1, LenProperties
    <3>2. a + Len(part) <= Len(s)
      BY <1>5 DEF Has
    <3> QED
      BY <1>0, <3>1, <3>2, SMTT(30)
  <2>3. Inside(k, f[end])
    <3>1. CASE k = 1
      <4>1. part = AppendEncodedText(x) /\ SubSeq(arr, 1, k - 1) = <<>>
        <5>1. SubSeq(arr, 1, 0) = <<>> /\ k - 1 = 0
          BY <1>0, <3>1, Prefix
        <5> QED
          BY <2>1, <3>1, <5>1
      <4>2. f[a] = CopyIn(rows, <<>>, <<>>, <<>>)
        <5>1. <<0, f[a]>> \in R
          BY <1>5, <3>1
        <5> QED
          BY <1>1, <5>1
      <4>3. Has(s, a, AppendEncodedText(x)) /\ x \in CopyValue
        BY <1>5, <2>1, <4>1
      <4> HIDE DEF x, arr, part
      <4>4. \E cur, raw : /\ f[a + Len(AppendEncodedText(x))] = CopyIn(rows, <<>>, cur, raw)
                          /\ CopyField(cur, raw) = Arrives(x)
        BY <4>2, <4>3, FieldRead
      <4> QED
        BY <2>1, <4>1, <4>4
    <3>2. CASE k # 1
      <4> DEFINE before == SubSeq(arr, 1, k - 2)
                 j == k - 1
      <4>1. part = <<Tab>> \o AppendEncodedText(x) /\ k - 1 \in 1..n /\ (k - 1) - 1 = k - 2
        BY <1>0, <2>1, <3>2, SMTT(30)
      <4>2. Append(before, arr[k - 1]) = SubSeq(arr, 1, k - 1)
        <5>1. j \in 1..Len(arr) /\ j - 1 = k - 2
          BY <1>0, <4>1
        <5> HIDE DEF j, arr
        <5>2. Append(SubSeq(arr, 1, j - 1), arr[j]) = SubSeq(arr, 1, j)
          BY <1>0, <5>1, Prefix
        <5> QED
          BY <5>1, <5>2 DEF j
      <4>3. PICK last, lastRaw : /\ f[a] = CopyIn(rows, before, last, lastRaw)
                                 /\ CopyField(last, lastRaw) = arr[k - 1]
        <5>1. Inside(j, f[a])
          <6>1. j \in 1..n /\ <<j, f[a]>> \in R
            BY <1>5, <4>1
          <6> HIDE DEF j, Inside
          <6> QED
            BY <1>1, <6>1
        <5>2. j = k - 1 /\ j - 1 = k - 2
          BY <4>1
        <5>3. PICK last, lastRaw : /\ f[a] = CopyIn(rows, SubSeq(arr, 1, j - 1), last, lastRaw)
                                   /\ CopyField(last, lastRaw) = arr[j]
          BY <5>1
        <5> QED
          BY <5>2, <5>3
      <4>4. Has(s, a, <<Tab>> \o AppendEncodedText(x)) /\ x \in CopyValue
        BY <1>5, <2>1, <4>1
      <4> HIDE DEF x, arr, part, before
      <4>5. f[a] = CopyIn(rows, before, last, lastRaw)
        BY <4>3
      <4>6. PICK cur, raw :
                /\ f[a + Len(<<Tab>> \o AppendEncodedText(x))]
                       = CopyIn(rows, Append(before, CopyField(last, lastRaw)), cur, raw)
                /\ CopyField(cur, raw) = Arrives(x)
        BY <4>4, <4>5, NextFieldRead
      <4>7. Append(before, CopyField(last, lastRaw)) = SubSeq(arr, 1, k - 1)
        BY <4>2, <4>3
      <4> QED
        BY <2>1, <4>1, <4>6, <4>7
    <3> QED
      BY <3>1, <3>2
  <2> HIDE DEF Inside, x, arr, end
  <2>4. <<k, f[end]>> \in R
    BY <1>1, <1>2, <2>1, <2>2, <2>3
  <2> QED
    BY <2>4 DEF end
<1> HIDE DEF parts, Inside, arr
<1>6. <<n, f[p + Len(w)]>> \in R
  <2>1. Has(s, p, FlattenSeq(parts)) /\ parts \in Seq(Seq(Byte))
    BY <1>0, <1>4
  <2>2. ByPartsIn(Byte, s, parts, p, f, R)
    BY <1>3, <1>5, <2>1 DEF ByPartsIn
  <2>3. <<Len(parts), f[p + Len(FlattenSeq(parts))]>> \in R
    BY <2>2, ReadPartsIn
  <2> QED
    BY <1>0, <2>3
<1> HIDE DEF w
<1>7. PICK cur, raw : /\ f[p + Len(w)] = CopyIn(rows, SubSeq(arr, 1, n - 1), cur, raw)
                      /\ CopyField(cur, raw) = arr[n]
  <2>1. n \in 1..n
    BY <1>0
  <2>2. Inside(n, f[p + Len(w)])
    BY <1>1, <1>6, <2>1
  <2> QED
    BY <2>2 DEF Inside
<1>8. Append(SubSeq(arr, 1, n - 1), arr[n]) = arr
  <2>1. n \in 1..Len(arr)
    BY <1>0
  <2>2. SubSeq(arr, 1, Len(arr)) = arr
    BY <1>0, Prefix
  <2>3. Append(SubSeq(arr, 1, n - 1), arr[n]) = SubSeq(arr, 1, n)
    BY <1>0, <2>1, Prefix
  <2> QED
    BY <1>0, <2>2, <2>3
<1> DEFINE e == p + Len(w)
           row == SubSeq(arr, 1, n - 1)
           line == <<Newline>>
<1>9. e \in 0..Len(s) /\ e + 1 = p + Len(CopyRow(values))
  <2>1. Len(w) \in Nat /\ p + Len(w) <= Len(s)
    BY <1>0, <1>4, LenProperties DEF Has
  <2> QED
    BY <1>0, <1>4, <2>1
<1>10. f[e + 1] = CopyStep(f[e], Newline)
  <2>1. Len(line) \in Nat /\ Len(line) >= 1 /\ line[1] = Newline
    OBVIOUS
  <2>2. Has(s, e, line)
    BY <1>4
  <2>3. e \in 0..Len(s)
    BY <1>9
  <2> HIDE DEF e, line
  <2> QED
    BY <2>1, <2>2, <2>3, CopyNext
<1>11. CopyStep(CopyIn(rows, row, cur, raw), Newline)
           = CopyIn(Append(rows, Append(row, CopyField(cur, raw))), <<>>, <<>>, <<>>)
  <2> HIDE DEF row
  <2> QED
    BY CopyEnds
<1>12. Append(row, CopyField(cur, raw)) = arr
  BY <1>7, <1>8
<1>13. f[e] = CopyIn(rows, row, cur, raw)
  BY <1>7
<1> HIDE DEF e, row
<1>14. f[e + 1] = CopyIn(Append(rows, arr), <<>>, <<>>, <<>>)
  BY <1>10, <1>11, <1>12, <1>13
<1> QED
  BY <1>9, <1>14 DEF arr

CopyRows == Seq(Seq(CopyValue) \ {<<>>})

\* The types of the rows.
LEMMA DataType ==
    ASSUME NEW rows \in CopyRows
    PROVE  LET parts == [k \in DOMAIN rows |-> CopyRow(rows[k])]
           IN  /\ Len(rows) \in Nat /\ parts \in Seq(Seq(Byte)) /\ Len(parts) = Len(rows)
               /\ FlattenSeq(parts) \in Seq(Byte)
               /\ \A k \in 1..Len(rows) :
                      /\ rows[k] \in Seq(CopyValue) /\ rows[k] # <<>>
                      /\ parts[k] = CopyRow(rows[k])
<1> DEFINE parts == [k \in DOMAIN rows |-> CopyRow(rows[k])]
<1>1. Len(rows) \in Nat /\ DOMAIN rows = 1..Len(rows)
      /\ \A k \in 1..Len(rows) : rows[k] \in Seq(CopyValue) /\ rows[k] # <<>>
  BY LenProperties, ElementOfSeq DEF CopyRows
<1>2. \A k \in 1..Len(rows) : CopyRow(rows[k]) \in Seq(Byte)
  BY <1>1, RowPartsType
<1>3. parts \in Seq(Seq(Byte)) /\ Len(parts) = Len(rows)
  BY <1>1, <1>2
<1>4. FlattenSeq(parts) \in Seq(Byte)
  <2> HIDE DEF parts
  <2> QED
    BY <1>3, FlattenParts
<1> QED
  BY <1>1, <1>3, <1>4

\* COPY data is read as its rows.
LEMMA DataRead ==
    ASSUME NEW rows \in CopyRows
    PROVE  ReadRows(FlattenSeq([k \in DOMAIN rows |-> CopyRow(rows[k])]))
               = [k \in DOMAIN rows |-> Arrivals(rows[k])]
<1> DEFINE parts == [k \in DOMAIN rows |-> CopyRow(rows[k])]
           s == FlattenSeq(parts)
           n == Len(rows)
           arrived == [k \in DOMAIN rows |-> Arrivals(rows[k])]
           g == [k \in 0..n |-> CopyIn(SubSeq(arrived, 1, k), <<>>, <<>>, <<>>)]
<1>0. /\ n \in Nat /\ parts \in Seq(Seq(Byte)) /\ Len(parts) = n /\ s \in Seq(Byte)
      /\ \A k \in 1..n : /\ rows[k] \in Seq(CopyValue) /\ rows[k] # <<>>
                         /\ parts[k] = CopyRow(rows[k])
  BY DataType
<1>1. arrived \in Seq(Seq(Seq(Int))) /\ Len(arrived) = n
      /\ \A k \in 1..n : arrived[k] = Arrivals(rows[k])
  <2>1. DOMAIN rows = 1..n
    BY LenProperties DEF CopyRows
  <2>2. \A k \in 1..n : Arrivals(rows[k]) \in Seq(Seq(Int))
    BY <1>0, ArrivalsType
  <2> QED
    BY <1>0, <2>1, <2>2
<1> DEFINE all == arrived
<1>2. g[0] = CopyStart /\ g[n] = CopyIn(all, <<>>, <<>>, <<>>)
      /\ \A k \in 0..n : g[k] = CopyIn(SubSeq(all, 1, k), <<>>, <<>>, <<>>)
  <2>1. 0 \in 0..n /\ n \in 0..n
    BY <1>0
  <2> HIDE DEF arrived
  <2>2. SubSeq(arrived, 1, 0) = <<>> /\ SubSeq(arrived, 1, n) = arrived
    BY <1>1, Prefix
  <2>3. \A k \in 0..n : g[k] = CopyIn(SubSeq(arrived, 1, k), <<>>, <<>>, <<>>)
    OBVIOUS
  <2>4. CopyStart = CopyIn(<<>>, <<>>, <<>>, <<>>)
    BY DEF CopyStart, CopyIn
  <2> HIDE DEF g
  <2> QED
    BY <2>1, <2>2, <2>3, <2>4
<1> DEFINE end == ReadRows(s)
<1> HIDE DEF s, g
<1>3. PICK f : CopyReads(f, s) /\ end = f[Len(s)].rows
  <2>1. PICK h \in [0..Len(s) -> CopyState] :
            /\ h[0] = CopyStart
            /\ \A k \in 1..Len(s) : h[k] = CopyStep(h[k - 1], s[k])
            /\ end = h[Len(s)].rows
    BY <1>0, CopyRun
  <2> QED
    BY <2>1 DEF CopyReads
<1> HIDE DEF end
<1>4. ASSUME NEW k \in 1..Len(parts), NEW a \in 0..Len(s), Has(s, a, parts[k]), f[a] = g[k - 1]
      PROVE  f[a + Len(parts[k])] = g[k]
  <2> DEFINE values == rows[k]
             before == SubSeq(all, 1, k - 1)
             part == parts[k]
  <2>1. k \in 1..n /\ k - 1 \in 0..n /\ k \in 0..n
    BY <1>0
  <2>2. values \in Seq(CopyValue) /\ values # <<>> /\ part = CopyRow(values)
    BY <1>0, <2>1
  <2>3. Len(values) # 0
    BY <2>2, EmptySeq
  <2>4. all[k] = Arrivals(values)
    BY <1>1, <2>1
  <2>5. Append(before, all[k]) = SubSeq(all, 1, k)
    <3> HIDE DEF arrived
    <3>1. k \in 1..Len(all)
      BY <1>1, <2>1
    <3> QED
      BY <1>1, <3>1, Prefix
  <2> HIDE DEF all, arrived
  <2>6. f[a] = CopyIn(before, <<>>, <<>>, <<>>) /\ g[k] = CopyIn(Append(before, Arrivals(values)), <<>>, <<>>, <<>>)
    <3>1. f[a] = g[k - 1] /\ g[k - 1] = CopyIn(before, <<>>, <<>>, <<>>)
      BY <1>2, <1>4, <2>1
    <3>2. g[k] = CopyIn(SubSeq(all, 1, k), <<>>, <<>>, <<>>)
      BY <1>2, <2>1
    <3> HIDE DEF before
    <3> QED
      BY <2>4, <2>5, <3>1, <3>2
  <2>7. CopyReads(f, s) /\ s \in Seq(Byte) /\ Has(s, a, part)
    BY <1>0, <1>3, <1>4
  <2> HIDE DEF values, before, part, parts
  <2>8. Has(s, a, CopyRow(values))
    BY <2>2, <2>7
  <2>9. f[a + Len(CopyRow(values))] = CopyIn(Append(before, Arrivals(values)), <<>>, <<>>, <<>>)
    <3>1. f[a] = CopyIn(before, <<>>, <<>>, <<>>) /\ a \in 0..Len(s)
      BY <2>6
    <3>2. CopyReads(f, s) /\ s \in Seq(Byte) /\ values \in Seq(CopyValue) /\ Len(values) # 0
      BY <2>2, <2>3, <2>7
    <3> QED
      BY <2>8, <3>1, <3>2, RowRead
  <2>10. Len(CopyRow(values)) = Len(part)
    BY <2>2
  <2> QED
    BY <2>6, <2>9, <2>10 DEF part
<1> HIDE DEF parts
<1> DEFINE p == 0
<1>5. f[p] = g[0] /\ Has(s, p, FlattenSeq(parts))
  BY <1>0, <1>2, <1>3, HasAll DEF s, CopyReads
<1>6. p + Len(FlattenSeq(parts)) = Len(s)
  BY <1>0, LenProperties DEF s
<1> HIDE DEF p
<1>7. f[p + Len(FlattenSeq(parts))] = g[Len(parts)]
  <2>1. s \in Seq(Byte) /\ parts \in Seq(Seq(Byte))
    BY <1>0
  <2>2. ByParts(Byte, s, parts, p, f, g)
    BY <1>5, <1>4, <2>1 DEF ByParts
  <2> QED
    BY <2>2, ReadParts
<1>8. f[Len(s)] = CopyIn(all, <<>>, <<>>, <<>>)
  BY <1>0, <1>2, <1>6, <1>7
<1>9. end = all
  <2> HIDE DEF all
  <2>1. end = f[Len(s)].rows
    BY <1>3
  <2> QED
    BY <1>8, <2>1, CopyNow
<1> QED
  BY <1>9 DEF end, s, parts

\* What arrives is what was sent: a field by itself.
Arrived(x, field) ==
    CASE x.type = "nil" -> field = Nil
      [] x.type = "text" -> field = x.val
      [] x.type = "bytes" -> field # Nil /\ ParseBytea(field) = x.val

\* Each value arrives as it was: NULL as NULL, text as the text, bytes as a bytea.
LEMMA ValueArrives ==
    ASSUME NEW x \in CopyValue
    PROVE  Arrived(x, Arrives(x))
<1>1. x.val \in Seq(Byte) /\ x.type \in {"nil", "text", "bytes"}
  BY DEF CopyValue
<1> DEFINE b == EncodeBytea(FALSE, x.val)
<1>2. b \in Seq(Byte)
  BY <1>1, EscapePartsType
<1>3. ParseBytea(b) = x.val
  BY <1>1, EscapeFormat
<1> HIDE DEF b
<1>4. b # Nil
  <2>1. Nil[1] = -1 /\ Len(Nil) = 1
    BY DEF Nil
  <2>2. ASSUME b = Nil PROVE FALSE
    <3>1. 1 \in 1..Len(b)
      BY <2>1, <2>2
    <3>2. b[1] \in Byte
      BY <1>2, <3>1, ElementOfSeq
    <3> QED
      BY <2>1, <2>2, <3>2 DEF Byte
  <2> QED
    BY <2>2
<1> QED
  BY <1>1, <1>3, <1>4 DEF Arrived, Arrives, b

\* The same, for all the rows.
LEMMA RowsArrive ==
    ASSUME NEW rows \in CopyRows
    PROVE  LET sent == ReadRows(FlattenSeq([k \in DOMAIN rows |-> CopyRow(rows[k])]))
           IN  /\ Len(sent) = Len(rows)
               /\ \A r \in DOMAIN sent :
                      /\ Len(sent[r]) = Len(rows[r])
                      /\ \A k \in DOMAIN sent[r] : Arrived(rows[r][k], sent[r][k])
<1> DEFINE arrived == [k \in DOMAIN rows |-> Arrivals(rows[k])]
<1>1. Len(rows) \in Nat /\ DOMAIN rows = 1..Len(rows)
      /\ \A k \in 1..Len(rows) : rows[k] \in Seq(CopyValue)
  BY LenProperties, DataType DEF CopyRows
<1>2. Len(arrived) = Len(rows) /\ DOMAIN arrived = 1..Len(rows)
      /\ \A r \in 1..Len(rows) : arrived[r] = Arrivals(rows[r])
  BY <1>1
<1>3. ASSUME NEW r \in 1..Len(rows)
      PROVE  /\ Len(Arrivals(rows[r])) = Len(rows[r])
             /\ \A k \in DOMAIN Arrivals(rows[r]) : Arrived(rows[r][k], Arrivals(rows[r])[k])
  <2> DEFINE values == rows[r]
  <2>1. values \in Seq(CopyValue)
    BY <1>1
  <2> HIDE DEF values
  <2>2. Len(Arrivals(values)) = Len(values) /\ Arrivals(values) \in Seq(Seq(Int))
        /\ \A k \in 1..Len(values) : Arrivals(values)[k] = Arrives(values[k])
    BY <2>1, ArrivalsType
  <2>3. DOMAIN Arrivals(values) = 1..Len(values)
    BY <2>2, LenProperties
  <2>4. \A k \in 1..Len(values) : Arrived(values[k], Arrives(values[k]))
    BY <2>1, ElementOfSeq, ValueArrives
  <2>5. \A k \in DOMAIN Arrivals(values) : Arrived(values[k], Arrivals(values)[k])
    BY <2>2, <2>3, <2>4
  <2> QED
    BY <2>2, <2>5 DEF values
<1>4. ReadRows(FlattenSeq([k \in DOMAIN rows |-> CopyRow(rows[k])])) = arrived
  BY DataRead
<1> HIDE DEF arrived
<1> QED
  BY <1>2, <1>3, <1>4

--------------------------------------------------------------------------------
(* Arrays: parseArray                                                         *)

USE DEF input, parser

InElement == {"element", "quoted", "plain", "after"}

\* Every open bracket has its place in dims, and every place of a closed one, or of
\* one not open yet, has counted something.
DepthInv ==
    /\ pc \in InElement => depth <= Len(dims) /\ \A k \in (depth + 1)..Len(dims) : dims[k] > 0
    /\ pc \in {"close", "done"} =>
           \/ dims = <<>>
           \/ AtEnd /\ \A k \in (depth + 1)..Len(dims) : dims[k] > 0

\* Counting lags behind by the element that was just read, until its delimiter or its
\* bracket: a text that ends there, or opens one bracket too many, is refused.
LengthInv ==
    Len(dims) = 1 =>
        /\ pc \in {"element", "quoted", "plain"} => depth = 1 /\ Len(elems) = dims[1]
        /\ pc = "after" =>
               \/ depth = 1 /\ Len(elems) = dims[1] + 1
               \/ depth = 1 /\ (AtEnd \/ At(LBrace))
               \/ depth = 0 /\ Len(elems) = dims[1]
        /\ pc = "close" => depth = 1 \/ (depth = 0 /\ Len(elems) = dims[1])
        /\ pc = "done" => Len(elems) = dims[1]

\* Before the first element nothing is counted yet.
OpenInv ==
    /\ pc \in {"start", "open"} => dims = <<>> /\ elems = <<>>
    /\ pc = "start" => depth = 0

IInv == TypeOK /\ DepthInv /\ LengthInv /\ OpenInv

\* No delimiter begins with an opening bracket.
NoBracket == \A d \in Delimiters : d[1] # LBrace

DelInv == del \in Seq(Byte) \ {<<>>} /\ del[1] # LBrace

--------------------------------------------------------------------------------

\* Before its first step parseArray has counted nothing.
LEMMA InitInv == ASSUME src \in Seq(Byte), Begins PROVE IInv
<1>1. TypeOK
  BY DEF Begins, TypeOK
<1>2. Len(dims) = 0
  BY DEF Begins
<1> QED
  BY <1>1, <1>2 DEF Begins, IInv, DepthInv, LengthInv, OpenInv, InElement

\* dims[k-1]++
LEMMA CountStep ==
    ASSUME dims \in Seq(Nat), NEW k \in 1..Len(dims), NEW v \in Nat,
           dims' = [dims EXCEPT ![k] = v]
    PROVE  /\ dims' \in Seq(Nat) /\ Len(dims') = Len(dims) /\ Len(dims) \in Nat
           /\ dims'[k] = v
           /\ \A j \in 1..Len(dims) : j # k => dims'[j] = dims[j]
BY ExceptSeq, LenProperties

\* Each place of parseArray keeps the invariant.
LEMMA StartStep == ASSUME IInv, Start PROVE IInv'
BY DEF IInv, TypeOK, DepthInv, LengthInv, OpenInv, InElement, Start, Goes, Fails, At, AtEnd

\* The brackets at the beginning: each is a dimension.
LEMMA OpenStep ==
    ASSUME IInv, Open
    PROVE  IInv'
<1>0. /\ TypeOK /\ pc = "open" /\ dims = <<>> /\ Len(dims) = 0
      /\ UNCHANGED <<src, elems, elem>>
  BY DEF IInv, OpenInv, Open, Goes
<1>1. CASE UNCHANGED <<pc, dims>> /\ depth' = depth + 1 /\ i' = i + 1
  BY <1>0, <1>1 DEF IInv, TypeOK, DepthInv, LengthInv, OpenInv, InElement
<1>2. CASE Goes("close")
  BY <1>0, <1>2 DEF Goes, IInv, TypeOK, DepthInv, LengthInv, OpenInv, InElement
<1>3. CASE dims' = [k \in 1..depth |-> 0] /\ pc' = "element" /\ UNCHANGED <<i, depth>>
  <2>1. dims' \in Seq(Nat) /\ Len(dims') = depth /\ \A k \in 1..depth : dims'[k] = 0
    BY <1>0, <1>3 DEF TypeOK
  <2>2. TypeOK'
    BY <1>0, <1>3, <2>1 DEF TypeOK
  <2>3. elems = <<>> /\ Len(elems) = 0
    BY <1>0 DEF IInv, OpenInv
  <2> QED
    BY <1>0, <1>3, <2>1, <2>2, <2>3
       DEF IInv, TypeOK, DepthInv, LengthInv, OpenInv, InElement
<1> QED
  BY <1>1, <1>2, <1>3 DEF Open

\* A bracket in the place of an element.
LEMMA ElementOpensStep ==
    ASSUME IInv, ElementOpens
    PROVE  IInv'
<1>0. /\ TypeOK /\ pc = "element" /\ At(LBrace) /\ depth \in Nat
      /\ dims \in Seq(Nat) /\ Len(dims) \in Nat /\ depth <= Len(dims)
      /\ \A k \in (depth + 1)..Len(dims) : dims[k] > 0
      /\ UNCHANGED <<src, elems, elem>>
  BY LenProperties DEF IInv, TypeOK, DepthInv, InElement, ElementOpens, Goes
<1>1. CASE TooDeep
  BY <1>0, <1>1 DEF IInv, TypeOK, DepthInv, LengthInv, OpenInv, InElement, ElementOpens,
                    TooDeep, Goes, At, AtEnd
<1>2. CASE ~TooDeep
  <2>1. depth + 1 \in 1..Len(dims)
    BY <1>0, <1>2 DEF TooDeep
  <2>2. /\ depth' = depth + 1 /\ dims' = [dims EXCEPT ![depth + 1] = 0]
        /\ i' = i + 1 /\ pc' = "element"
    BY <1>0, <1>2 DEF ElementOpens
  <2>3. /\ dims' \in Seq(Nat) /\ Len(dims') = Len(dims)
        /\ \A j \in 1..Len(dims) : j # depth + 1 => dims'[j] = dims[j]
    BY <1>0, <2>1, <2>2, CountStep
  <2>4. Len(dims) # 1
    BY <1>0, <2>1 DEF IInv, LengthInv
  <2>5. TypeOK'
    BY <1>0, <2>1, <2>2, <2>3 DEF TypeOK
  <2>6. DepthInv'
    BY <1>0, <2>1, <2>2, <2>3 DEF DepthInv, InElement
  <2> QED
    BY <2>2, <2>3, <2>4, <2>5, <2>6 DEF IInv, LengthInv, OpenInv
<1> QED
  BY <1>1, <1>2

\* An element begins, or the text ends.
LEMMA ElementStartsStep ==
    ASSUME IInv, ElementStarts
    PROVE  IInv'
<1>1. /\ pc = "element" /\ pc' \in {"after", "quoted", "plain"} /\ elem' = <<>>
      /\ pc' = "after" => AtEnd /\ i' = i
      /\ i' \in {i, i + 1}
      /\ UNCHANGED <<src, depth, dims, elems>>
  BY DEF ElementStarts
<1> QED
  BY <1>1 DEF IInv, TypeOK, DepthInv, LengthInv, OpenInv, InElement, AtEnd

\* The next byte.
LEMMA ByteAt == ASSUME TypeOK, ~AtEnd PROVE src[i] \in Byte
BY ElementOfSeq, LenProperties DEF TypeOK, AtEnd

\* The elements, in quotes
LEMMA QuotedStep ==
    ASSUME IInv, Quoted
    PROVE  IInv'
<1>0. TypeOK /\ pc = "quoted" /\ UNCHANGED <<src, depth, dims>>
  BY DEF IInv, Quoted, Goes
<1>1. CASE AtEnd
  BY <1>0, <1>1 DEF Quoted, Goes, IInv, TypeOK, DepthInv, LengthInv, OpenInv, InElement, AtEnd
<1>2. CASE ~AtEnd /\ pc' = "quoted"
  <2>1. src[i] \in Byte
    BY <1>0, <1>2, ByteAt
  <2>2. elem' \in {elem, Append(elem, src[i])} /\ elems' = elems /\ i' = i + 1
    BY <1>2 DEF Quoted
  <2>3. elem' \in Seq(Byte)
    <3>1. elem \in Seq(Byte)
      BY <1>0 DEF TypeOK
    <3>2. Append(elem, src[i]) \in Seq(Byte)
      BY <2>1, <3>1, AppendProperties
    <3> QED
      BY <2>2, <3>1, <3>2
  <2>4. TypeOK'
    BY <1>0, <2>2, <2>3 DEF TypeOK
  <2>5. DepthInv' /\ LengthInv' /\ OpenInv'
    BY <1>0, <1>2, <2>2 DEF IInv, DepthInv, LengthInv, OpenInv, InElement
  <2> QED
    BY <2>4, <2>5 DEF IInv
<1>3. CASE ~AtEnd /\ pc' # "quoted"
  <2>1. elems' = Append(elems, elem) /\ pc' = "after" /\ elem' = elem /\ i' = i + 1
    BY <1>0, <1>3 DEF Quoted
  <2>2. elems' \in Seq(Seq(Byte) \cup {Nil}) /\ Len(elems') = Len(elems) + 1
    BY <1>0, <2>1, AppendProperties DEF TypeOK
  <2> QED
    BY <1>0, <1>3, <2>1, <2>2 DEF IInv, TypeOK, DepthInv, LengthInv, OpenInv, InElement
<1> QED
  BY <1>1, <1>2, <1>3

\* and without.
LEMMA PlainStep ==
    ASSUME IInv, Plain
    PROVE  IInv'
<1>0. TypeOK /\ pc = "plain" /\ UNCHANGED <<src, depth, dims>>
  BY DEF IInv, Plain, Goes, Fails
<1>1. CASE AtEnd
  BY <1>0, <1>1 DEF Plain, Goes, IInv, TypeOK, DepthInv, LengthInv, OpenInv, InElement, AtEnd
<1>2. CASE ~AtEnd /\ pc' = "plain"
  <2>1. src[i] \in Byte
    BY <1>0, <1>2, ByteAt
  <2>2. elem' = Append(elem, src[i]) /\ elems' = elems /\ i' = i + 1
    BY <1>2 DEF Plain, Fails
  <2>3. elem' \in Seq(Byte)
    BY <1>0, <2>1, <2>2, AppendProperties DEF TypeOK
  <2> QED
    BY <1>0, <1>2, <2>2, <2>3 DEF IInv, TypeOK, DepthInv, LengthInv, OpenInv, InElement
<1>3. CASE pc' = "error"
  BY <1>0, <1>3 DEF Plain, Goes, Fails, IInv, TypeOK, DepthInv, LengthInv, OpenInv, InElement
<1>4. CASE ~AtEnd /\ pc' \notin {"plain", "error"}
  <2>1. /\ elems' = Append(elems, IF elem = NULL THEN Nil ELSE elem)
        /\ pc' = "after" /\ elem' = elem /\ i' = i
    BY <1>0, <1>4 DEF Plain, Fails
  <2>2. elems' \in Seq(Seq(Byte) \cup {Nil}) /\ Len(elems') = Len(elems) + 1
    BY <1>0, <2>1, AppendProperties DEF TypeOK
  <2> QED
    BY <1>0, <1>4, <2>1, <2>2 DEF IInv, TypeOK, DepthInv, LengthInv, OpenInv, InElement
<1> QED
  BY <1>1, <1>2, <1>3, <1>4

\* The bracket, or the delimiter, after an element: one more is counted.
LEMMA AfterStep ==
    ASSUME DelInv, IInv, After
    PROVE  IInv'
<1>0. /\ TypeOK /\ pc = "after" /\ depth \in Nat
      /\ dims \in Seq(Nat) /\ Len(dims) \in Nat /\ depth <= Len(dims)
      /\ \A k \in (depth + 1)..Len(dims) : dims[k] > 0
      /\ UNCHANGED <<src, elems, elem>>
  BY LenProperties DEF IInv, TypeOK, DepthInv, InElement, After, Goes, Fails
<1>1. CASE AtEnd
  BY <1>0, <1>1 DEF After, Goes, IInv, TypeOK, DepthInv, LengthInv, OpenInv,
                    InElement, AtEnd
<1>2. CASE ~AtEnd /\ depth > 0 /\ AtDelimiter
  <2>1. depth \in 1..Len(dims) /\ dims[depth] \in Nat
    BY <1>0, <1>2, ElementOfSeq
  <2>2. dims' = [dims EXCEPT ![depth] = dims[depth] + 1] /\ pc' = "element" /\ depth' = depth
    BY <1>2 DEF After, Counted
  <2>3. /\ dims' \in Seq(Nat) /\ Len(dims') = Len(dims) /\ dims'[depth] = dims[depth] + 1
        /\ \A j \in 1..Len(dims) : j # depth => dims'[j] = dims[j]
    BY <1>0, <2>1, <2>2, CountStep
  <2>4. Len(del) \in Nat \ {0} /\ i' = i + Len(del)
    BY <1>2, EmptySeq, LenProperties DEF After, DelInv
  <2>5. ~At(LBrace)
    <3> DEFINE j == i + Len(del) - 1
    <3>1. i \in Int /\ j \in Int /\ i <= j /\ j <= Len(src) /\ i \in Nat \ {0}
      BY <1>0, <1>2, <2>4, LenProperties DEF AtDelimiter, TypeOK
    <3>2. \A k \in i..j : src[k] \in Byte
      BY <1>0, <3>1, ElementOfSeq, LenProperties, SMTT(30) DEF TypeOK
    <3>3. SubSeq(src, i, j)[1] = src[i]
      <4> HIDE DEF j
      <4>1. \A k \in 1..(j - i + 1) : SubSeq(src, i, j)[k] = src[i + k - 1]
        BY <3>1, <3>2, SubSeqProperties
      <4> QED
        BY <3>1, <4>1
    <3>4. src[i] = del[1]
      BY <1>2, <3>3 DEF AtDelimiter
    <3> QED
      BY <3>4 DEF DelInv, At
  <2>6. TypeOK'
    BY <1>0, <2>2, <2>3, <2>4, SMTT(30) DEF TypeOK
  <2>7. DepthInv'
    BY <1>0, <2>1, <2>2, <2>3 DEF DepthInv, InElement
  <2>8. LengthInv'
    BY <1>0, <1>2, <2>1, <2>2, <2>3, <2>5 DEF IInv, LengthInv
  <2> QED
    BY <2>2, <2>6, <2>7, <2>8 DEF IInv, OpenInv
<1>3. CASE ~AtEnd /\ ~(depth > 0 /\ AtDelimiter) /\ depth > 0 /\ At(RBrace)
  <2>1. depth \in 1..Len(dims) /\ dims[depth] \in Nat
    BY <1>0, <1>3, ElementOfSeq
  <2>2. /\ dims' = [dims EXCEPT ![depth] = dims[depth] + 1] /\ pc' = "after"
        /\ depth' = depth - 1 /\ i' = i + 1
    BY <1>0, <1>3 DEF After, CountedLast
  <2>3. /\ dims' \in Seq(Nat) /\ Len(dims') = Len(dims) /\ dims'[depth] = dims[depth] + 1
        /\ \A j \in 1..Len(dims) : j # depth => dims'[j] = dims[j]
    BY <1>0, <2>1, <2>2, CountStep
  <2>4. ~At(LBrace)
    BY <1>3 DEF At, LBrace, RBrace
  <2>5. TypeOK'
    BY <1>0, <2>1, <2>2, <2>3 DEF TypeOK
  <2>6. DepthInv'
    BY <1>0, <2>1, <2>2, <2>3 DEF DepthInv, InElement
  <2>7. LengthInv'
    BY <1>0, <1>3, <2>1, <2>2, <2>3, <2>4 DEF IInv, LengthInv
  <2> QED
    BY <2>2, <2>5, <2>6, <2>7 DEF IInv, OpenInv
<1>4. CASE Fails
  BY <1>0, <1>4 DEF Fails, IInv, TypeOK, DepthInv, LengthInv, OpenInv, InElement
<1> QED
  BY <1>1, <1>2, <1>3, <1>4 DEF After

\* The brackets at the end.
LEMMA CloseStep ==
    ASSUME IInv, Close
    PROVE  IInv'
<1>0. TypeOK /\ pc = "close" /\ UNCHANGED <<src, dims, elems, elem>>
  BY DEF IInv, Close, Goes, Fails
<1>1. CASE ~AtEnd /\ depth > 0 /\ pc' = "close" /\ depth' = depth - 1 /\ i' = i + 1
  <2>1. dims = <<>> /\ Len(dims) = 0
    BY <1>0, <1>1 DEF IInv, DepthInv
  <2> QED
    BY <1>0, <1>1, <2>1 DEF IInv, TypeOK, DepthInv, LengthInv, OpenInv, InElement
<1>2. CASE AtEnd /\ depth = 0 /\ Goes("done")
  BY <1>0, <1>2 DEF Goes, IInv, TypeOK, DepthInv, LengthInv, OpenInv, InElement, AtEnd
<1>3. CASE Fails
  BY <1>0, <1>3 DEF Fails, IInv, TypeOK, DepthInv, LengthInv, OpenInv, InElement
<1> QED
  BY <1>0, <1>1, <1>2, <1>3 DEF Close

--------------------------------------------------------------------------------

\* The delimiter stays.
LEMMA DelStep == ASSUME DelInv, [Next]_vars PROVE DelInv'
BY DEF DelInv, Next, vars, Start, Open, ElementOpens, ElementStarts, Quoted, Plain, After,
       Close, Goes, Fails

\* Every step keeps the invariant.
LEMMA InvStep ==
    ASSUME DelInv, IInv, [Next]_vars
    PROVE  IInv'
<1>1. CASE UNCHANGED vars
  BY <1>1 DEF vars, IInv, TypeOK, DepthInv, LengthInv, OpenInv, InElement, AtEnd, At
<1>2. CASE Next
  BY <1>2, StartStep, OpenStep, ElementOpensStep, ElementStartsStep, QuotedStep, PlainStep,
     AfterStep, CloseStep DEF Next
<1> QED
  BY <1>1, <1>2

\* It holds always, if no delimiter begins with a bracket.
LEMMA Invariance == ASSUME NoBracket PROVE Spec => []IInv
<1>1. Init => DelInv /\ IInv
  BY SourcesAssumption, DelimitersAssumption, InitInv DEF Init, NoBracket, DelInv
<1>2. DelInv /\ IInv /\ [Next]_vars => DelInv' /\ IInv'
  BY DelStep, InvStep
<1> QED
  BY <1>1, <1>2, PTL DEF Spec

\* The types of parseArray's variables, whatever the text.
THEOREM TypeCorrect == ASSUME NoBracket PROVE Spec => []TypeOK
<1>1. IInv => TypeOK
  BY DEF IInv
<1> QED
  BY <1>1, Invariance, PTL

\* Whatever the text, parseArray indexes dims only where it has a length and divides by
\* no length of zero (array.go:798-878).
THEOREM NeverFaults == ASSUME NoBracket PROVE Spec => []NoFault
<1>1. IInv => NoFault
  BY LenProperties DEF IInv, TypeOK, DepthInv, InElement, NoFault
<1> QED
  BY <1>1, Invariance, PTL

\* An array of one dimension has as many elements as its length says, which
\* GenericArray.Scan relies on (array.go:457-465).
THEOREM LengthIsTrue == ASSUME NoBracket PROVE Spec => []DimIsLength
<1>1. IInv => DimIsLength
  BY DEF IInv, LengthInv, DimIsLength
<1> QED
  BY <1>1, Invariance, PTL

--------------------------------------------------------------------------------
(* Arrays: what Value writes, and where parseArray is in it                   *)

\* The text of an element, by the type of its array.
InnerOf(x, delimiter) ==
    IF x = <<>> THEN <<>> ELSE Brackets([k \in DOMAIN x |-> AppendArrayElement(x[k])], delimiter)
PartOf(type, x, delimiter) ==
    CASE type = "nested" -> InnerOf(x, delimiter)
      [] type \in {"generic", "fixed"} -> AppendArrayElement(x)
      [] OTHER -> ElementText(type, x)
PartsOf(type, v, delimiter) == [k \in DOMAIN v |-> PartOf(type, v[k], delimiter)]
SeparatorOf(parts, delimiter, k) == IF k > 1 /\ parts[k - 1] # <<>> THEN delimiter ELSE <<>>
Separated(parts, delimiter) == [k \in DOMAIN parts |-> SeparatorOf(parts, delimiter, k) \o parts[k]]

\* An array is written as its elements, separated and in brackets.
LEMMA ArrayValueIs ==
    ASSUME NEW type, NEW v, NEW delimiter
    PROVE  ArrayValue(type, v, delimiter)
               = IF v = NilArray THEN Nil ELSE Brackets(PartsOf(type, v, delimiter), delimiter)
BY Zenon DEF ArrayValue, PartsOf, PartOf, InnerOf

\* The text of an array, as the concatenation of its separated parts.
LEMMA BracketsIs ==
    ASSUME NEW parts, NEW delimiter
    PROVE  Brackets(parts, delimiter) = <<LBrace>> \o FlattenSeq(Separated(parts, delimiter)) \o <<RBrace>>
BY Zenon DEF Brackets, Separated, SeparatorOf

\* The type of the separated texts.
LEMMA BracketsType ==
    ASSUME NEW parts \in Seq(Seq(Byte)), NEW delimiter \in Seq(Byte)
    PROVE  /\ Separated(parts, delimiter) \in Seq(Seq(Byte))
           /\ Len(Separated(parts, delimiter)) = Len(parts)
           /\ FlattenSeq(Separated(parts, delimiter)) \in Seq(Byte)
           /\ Brackets(parts, delimiter) \in Seq(Byte)
           /\ \A k \in 1..Len(parts) :
                  Separated(parts, delimiter)[k] = SeparatorOf(parts, delimiter, k) \o parts[k]
<1> DEFINE seps == Separated(parts, delimiter)
<1>0. Len(parts) \in Nat /\ DOMAIN parts = 1..Len(parts)
      /\ \A k \in 1..Len(parts) : parts[k] \in Seq(Byte)
  BY LenProperties, ElementOfSeq
<1>1. \A k \in 1..Len(parts) : SeparatorOf(parts, delimiter, k) \o parts[k] \in Seq(Byte)
  <2> TAKE k \in 1..Len(parts)
  <2>1. SeparatorOf(parts, delimiter, k) \in Seq(Byte)
    BY EmptySeq DEF SeparatorOf
  <2> HIDE DEF SeparatorOf
  <2> QED
    BY <1>0, <2>1, ConcatProperties
<1>2. seps \in Seq(Seq(Byte)) /\ Len(seps) = Len(parts)
      /\ \A k \in 1..Len(parts) : seps[k] = SeparatorOf(parts, delimiter, k) \o parts[k]
  <2> HIDE DEF SeparatorOf
  <2> QED
    BY <1>0, <1>1 DEF Separated
<1> HIDE DEF seps
<1>3. FlattenSeq(seps) \in Seq(Byte)
  BY <1>2, FlattenParts
<1>4. Brackets(parts, delimiter) \in Seq(Byte)
  <2> DEFINE w == FlattenSeq(seps)
             l == <<LBrace>>
             r == <<RBrace>>
  <2>1. Brackets(parts, delimiter) = l \o w \o r
    BY BracketsIs DEF seps
  <2>2. l \in Seq(Byte) /\ r \in Seq(Byte)
    BY DEF LBrace, RBrace, Byte
  <2>3. w \in Seq(Byte)
    BY <1>3
  <2> HIDE DEF l, r, w
  <2>4. l \o w \in Seq(Byte)
    BY <2>2, <2>3, ConcatProperties
  <2>5. (l \o w) \o r \in Seq(Byte)
    BY <2>2, <2>4, ConcatProperties
  <2> QED
    BY <2>1, <2>5
<1> QED
  BY <1>2, <1>3, <1>4 DEF seps

\* The bytes of an element in quotes.
ArrayBytes(c) == IF c \in Escaped THEN <<Bslash, c>> ELSE <<c>>
QuotedParts(v) == [k \in DOMAIN v |-> ArrayBytes(v[k])]

\* The types of the bytes of an element, and its quotes around them.
LEMMA QuotedPartsType ==
    ASSUME NEW v \in Seq(Byte)
    PROVE  /\ QuotedParts(v) \in Seq(Seq(Byte)) /\ Len(QuotedParts(v)) = Len(v)
           /\ FlattenSeq(QuotedParts(v)) \in Seq(Byte)
           /\ \A k \in 1..Len(v) : v[k] \in Byte /\ QuotedParts(v)[k] = ArrayBytes(v[k])
           /\ AppendArrayQuotedBytes(v) = <<Quote>> \o FlattenSeq(QuotedParts(v)) \o <<Quote>>
<1>0. Len(v) \in Nat /\ DOMAIN v = 1..Len(v) /\ \A k \in 1..Len(v) : v[k] \in Byte
  BY LenProperties, ElementOfSeq
<1>1. \A c \in Byte : ArrayBytes(c) \in Seq(Byte)
  <2> TAKE c \in Byte
  <2>1. <<Bslash, c>> \in Seq(Byte) /\ <<c>> \in Seq(Byte)
    BY DEF Bslash, Byte
  <2> QED
    BY <2>1 DEF ArrayBytes
<1>2. QuotedParts(v) \in Seq(Seq(Byte)) /\ Len(QuotedParts(v)) = Len(v)
  BY <1>0, <1>1 DEF QuotedParts
<1>3. FlattenSeq(QuotedParts(v)) \in Seq(Byte)
  BY <1>2, FlattenParts
<1>4. AppendArrayQuotedBytes(v) = <<Quote>> \o FlattenSeq(QuotedParts(v)) \o <<Quote>>
  BY Zenon DEF AppendArrayQuotedBytes, Each, QuotedParts, ArrayBytes
<1> QED
  BY <1>0, <1>2, <1>3, <1>4 DEF QuotedParts

\* An element in quotes, of which q has the place of each byte, and one without.
QuotedAt(s, from, to, e, q) ==
    /\ e \in Seq(Byte) /\ q \in [0..Len(e) -> Nat]
    /\ q[0] = from + 1 /\ to = q[Len(e)] + 1 /\ s[from] = Quote /\ s[q[Len(e)]] = Quote
    /\ \A j \in 0..Len(e) : q[j] < to
    /\ \A j \in 1..Len(e) :
           \/ q[j] = q[j - 1] + 1 /\ s[q[j - 1]] = e[j] /\ e[j] \notin {Quote, Bslash}
           \/ q[j] = q[j - 1] + 2 /\ s[q[j - 1]] = Bslash /\ s[q[j - 1] + 1] = e[j]
WordOf(text) == IF text = NULL THEN Nil ELSE text
PlainAt(s, del1, from, to, e) ==
    /\ \A j \in from..(to - 1) : s[j] \notin {RBrace, del1}
    /\ s[from] \notin {LBrace, Quote}
    /\ e = WordOf(SubSeq(s, from, to - 1))

\* An element in its place, and what ends it: a bracket or the delimiter.
ElementIn(s, d, from, to, e) ==
    /\ s \in Seq(Byte) /\ Len(s) \in Nat /\ d \in Seq(Byte) \ {<<>>} /\ d[1] # RBrace
    /\ from \in Nat \ {0} /\ to \in Nat /\ from < to /\ to <= Len(s)
    /\ s[from] \notin {LBrace, RBrace}
    /\ \/ \E q : QuotedAt(s, from, to, e, q)
       \/ PlainAt(s, d[1], from, to, e)
    /\ \/ s[to] = RBrace
       \/ to + Len(d) - 1 <= Len(s) /\ SubSeq(s, to, to + Len(d) - 1) = d

\* A text that is an array of the elements es, each from from[k] to to[k].
ListAt(s, d, es, from, to) ==
    LET n == Len(es)
    IN  /\ s \in Seq(Byte) /\ d \in Seq(Byte) \ {<<>>} /\ d[1] # RBrace
        /\ es \in Seq(Seq(Int)) /\ n \in Nat \ {0}
        /\ from \in [1..n -> Nat] /\ to \in [1..n -> Nat]
        /\ s[1] = LBrace /\ from[1] = 2 /\ to[n] = Len(s) /\ s[Len(s)] = RBrace
        /\ \A k \in 1..n : /\ from[k] < to[k] /\ to[k] <= Len(s) /\ from[k] > 0
                           /\ \/ \E q : QuotedAt(s, from[k], to[k], es[k], q)
                              \/ PlainAt(s, d[1], from[k], to[k], es[k])
        /\ \A k \in 1..(n - 1) :
               /\ from[k + 1] = to[k] + Len(d) /\ to[k] + Len(d) - 1 <= Len(s)
               /\ SubSeq(s, to[k], to[k] + Len(d) - 1) = d

\* Where parseArray is in such a text, with the elements before read and counted.
InQuotes(e, from, to) ==
    \E q : /\ QuotedAt(src, from, to, e, q)
           /\ \E j \in 0..Len(e) :
                  /\ elem = SubSeq(e, 1, j)
                  /\ \/ escape = FALSE /\ i = q[j]
                     \/ escape = TRUE /\ j < Len(e) /\ q[j + 1] = q[j] + 2 /\ i = q[j] + 1
                        /\ src[i] = e[j + 1]
InWord(e, from, to) ==
    /\ PlainAt(src, del[1], from, to, e)
    /\ i \in from..to /\ elem = SubSeq(src, from, i - 1)
InElementAt(e, from, to) ==
    \/ pc = "element" /\ i = from
    \/ pc = "quoted" /\ InQuotes(e, from, to)
    \/ pc = "plain" /\ InWord(e, from, to)
\* What a step within an element does.
ElementGoesOn(e, from, to) ==
    /\ UNCHANGED <<src, del, depth, dims>>
    /\ \/ elems' = elems /\ InElementAt(e, from, to)'
       \/ elems' = Append(elems, e) /\ pc' = "after" /\ i' = to

AtOpening == depth \in {0, 1} /\ i = depth + 1 /\ dims = <<>> /\ elems = <<>>
AtElement(es, from, to) ==
    \E k \in 1..Len(es) : /\ depth = 1 /\ dims = <<k - 1>> /\ elems = SubSeq(es, 1, k - 1)
                          /\ InElementAt(es[k], from[k], to[k])
AtSeparator(es, to) ==
    \E k \in 1..Len(es) : /\ pc = "after" /\ i = to[k]
                          /\ depth = 1 /\ dims = <<k - 1>> /\ elems = SubSeq(es, 1, k)
IsRead(es) == i = Len(src) + 1 /\ depth = 0 /\ dims = <<Len(es)>> /\ elems = es
Place(es, from, to) ==
    \/ pc = "start" /\ AtOpening /\ depth = 0
    \/ pc = "open" /\ AtOpening
    \/ AtElement(es, from, to)
    \/ AtSeparator(es, to)
    \/ pc \in {"after", "close", "done"} /\ IsRead(es)

\* A delimiter is not where its first byte is not.
LEMMA DelimiterFirst ==
    ASSUME src \in Seq(Byte), del \in Seq(Byte) \ {<<>>}, i \in Nat \ {0}, AtDelimiter
    PROVE  src[i] = del[1]
<1> DEFINE j == i + Len(del) - 1
<1>1. Len(del) \in Nat \ {0} /\ Len(src) \in Nat
  BY EmptySeq, LenProperties
<1>2. i \in Int /\ j \in Int /\ i <= j /\ j <= Len(src)
  BY <1>1 DEF AtDelimiter
<1>3. \A k \in i..j : src[k] \in Byte
  BY <1>1, <1>2, ElementOfSeq
<1>4. SubSeq(src, i, j)[1] = src[i]
  <2> HIDE DEF j
  <2>1. \A k \in 1..(j - i + 1) : SubSeq(src, i, j)[k] = src[i + k - 1]
    BY <1>2, <1>3, SubSeqProperties
  <2> QED
    BY <1>2, <2>1
<1> QED
  BY <1>4 DEF AtDelimiter

\* Every element begins and ends within the text, and with no bracket.
LEMMA ListHas ==
    ASSUME NEW s, NEW d, NEW es, NEW from, NEW to, ListAt(s, d, es, from, to)
    PROVE  /\ s \in Seq(Byte) /\ Len(s) \in Nat /\ 1 <= Len(s) /\ s[1] = LBrace
           /\ Len(es) \in Nat \ {0} /\ from[1] = 2
           /\ \A k \in 1..Len(es) :
                  /\ from[k] \in Nat \ {0} /\ to[k] \in Nat /\ from[k] < to[k] /\ to[k] <= Len(s)
                  /\ s[from[k]] \notin {LBrace, RBrace}
                  /\ \/ \E q : QuotedAt(s, from[k], to[k], es[k], q)
                     \/ PlainAt(s, d[1], from[k], to[k], es[k])
<1>1. Len(s) \in Nat /\ Len(es) \in Nat \ {0} /\ s \in Seq(Byte)
  BY LenProperties DEF ListAt
<1>2. ASSUME NEW k \in 1..Len(es)
      PROVE  /\ from[k] \in Nat \ {0} /\ to[k] \in Nat /\ from[k] < to[k] /\ to[k] <= Len(s)
             /\ \/ \E q : QuotedAt(s, from[k], to[k], es[k], q)
                \/ PlainAt(s, d[1], from[k], to[k], es[k])
  <2>1. from[k] \in Nat /\ to[k] \in Nat
    BY DEF ListAt
  <2>2. from[k] < to[k] /\ to[k] <= Len(s) /\ from[k] > 0
    BY DEF ListAt
  <2>3. \/ \E q : QuotedAt(s, from[k], to[k], es[k], q)
        \/ PlainAt(s, d[1], from[k], to[k], es[k])
    BY DEF ListAt
  <2> QED
    BY <2>1, <2>2, <2>3
<1>3. ASSUME NEW k \in 1..Len(es) PROVE s[from[k]] \notin {LBrace, RBrace}
  <2>1. CASE \E q : QuotedAt(s, from[k], to[k], es[k], q)
    BY <2>1 DEF QuotedAt, LBrace, RBrace, Quote
  <2>2. CASE PlainAt(s, d[1], from[k], to[k], es[k])
    <3>1. from[k] \in from[k]..(to[k] - 1)
      BY <1>2
    <3> QED
      BY <2>2, <3>1 DEF PlainAt
  <2> QED
    BY <1>2, <2>1, <2>2
<1>4. 1 \in 1..Len(es)
  BY <1>1
<1>5. 1 <= Len(s)
  BY <1>1, <1>2, <1>4
<1> QED
  BY <1>1, <1>2, <1>3, <1>5 DEF ListAt

\* parseArray begins at the first byte.
LEMMA PlaceStart ==
    ASSUME NEW es, NEW from, NEW to, ListAt(src, del, es, from, to), pc = "start", AtOpening,
           depth = 0, Start
    PROVE  Place(es, from, to)'
<1>1. Len(src) \in Nat /\ 1 <= Len(src) /\ src[1] = LBrace /\ i = 1
  BY ListHas DEF AtOpening
<1>2. pc' = "open" /\ UNCHANGED <<i, depth, dims, elems>>
  BY <1>1 DEF Start, At, AtEnd, Goes
<1> QED
  BY <1>2 DEF Place, AtOpening

\* The opening bracket, and the first element.
LEMMA PlaceOpen ==
    ASSUME NEW es, NEW from, NEW to, ListAt(src, del, es, from, to), pc = "open", AtOpening, Open
    PROVE  Place(es, from, to)'
<1>1. /\ Len(src) \in Nat /\ 1 <= Len(src) /\ src[1] = LBrace /\ 1 \in 1..Len(es)
      /\ from[1] = 2 /\ src[2] \notin {LBrace, RBrace}
  BY ListHas
<1>2. CASE depth = 0
  <2>1. At(LBrace) /\ ~At(RBrace)
    BY <1>1, <1>2 DEF AtOpening, At, AtEnd, LBrace, RBrace
  <2>2. depth' = 1 /\ i' = 2 /\ UNCHANGED <<pc, dims, elems>>
    BY <1>2, <2>1 DEF Open, AtOpening
  <2> QED
    BY <2>2 DEF Place, AtOpening
<1>3. CASE depth = 1
  <2>2. i = 2 /\ ~At(LBrace) /\ ~At(RBrace)
    BY <1>1, <1>3 DEF AtOpening, At
  <2>3. dims' = [k \in 1..1 |-> 0] /\ pc' = "element" /\ UNCHANGED <<i, depth, elems>>
    BY <1>3, <2>2 DEF Open, AtOpening
  <2>4. dims' = <<1 - 1>> /\ elems' = SubSeq(es, 1, 1 - 1)
    <3>1. [k \in 1..1 |-> 0] = <<0>>
      OBVIOUS
    <3>2. SubSeq(es, 1, 0) = <<>>
      BY Prefix DEF ListAt
    <3> QED
      BY <2>3, <3>1, <3>2 DEF AtOpening
  <2>5. AtElement(es, from, to)'
    BY <1>1, <1>3, <2>2, <2>3, <2>4 DEF AtElement, InElementAt
  <2> QED
    BY <2>5 DEF Place
<1> QED
  BY <1>2, <1>3 DEF AtOpening

\* The beginning of an element.
LEMMA ElementBegins ==
    ASSUME NEW e, NEW from, NEW to, ElementIn(src, del, from, to, e), pc = "element", i = from,
           ElementOpens \/ ElementStarts
    PROVE  ElementGoesOn(e, from, to)
<1>1. /\ Len(src) \in Nat /\ i \in Nat \ {0} /\ i < to /\ to <= Len(src) /\ to \in Nat
      /\ src[i] \notin {LBrace, RBrace}
      /\ \/ \E q : QuotedAt(src, from, to, e, q)
         \/ PlainAt(src, del[1], from, to, e)
  BY DEF ElementIn
<1>2. ~AtEnd /\ ~At(LBrace) /\ (At(Quote) <=> src[i] = Quote)
  BY <1>1 DEF AtEnd, At
<1>3. /\ elem' = <<>> /\ escape' = FALSE /\ UNCHANGED <<src, del, depth, dims, elems>>
      /\ IF src[i] = Quote THEN pc' = "quoted" /\ i' = i + 1 ELSE pc' = "plain" /\ i' = i
  BY <1>2 DEF ElementOpens, ElementStarts
<1>4. CASE \E q : QuotedAt(src, from, to, e, q)
  <2>1. PICK q : QuotedAt(src, from, to, e, q)
    BY <1>4
  <2>2. /\ src[i] = Quote /\ q[0] = i + 1 /\ 0 \in 0..Len(e) /\ SubSeq(e, 1, 0) = <<>>
    BY <2>1, LenProperties, Prefix DEF QuotedAt
  <2>3. pc' = "quoted" /\ i' = q[0]
    BY <1>3, <2>2
  <2>4. InQuotes(e, from, to)'
    BY <1>3, <2>1, <2>2, <2>3 DEF InQuotes
  <2>5. InElementAt(e, from, to)'
    BY <1>3, <2>3, <2>4 DEF InElementAt
  <2> QED
    BY <1>3, <2>5 DEF ElementGoesOn
<1>5. CASE PlainAt(src, del[1], from, to, e)
  <2>1. src[i] # Quote
    BY <1>5 DEF PlainAt
  <2>2. pc' = "plain" /\ i' = i
    BY <1>3, <2>1
  <2>3. SubSeq(src, from, i - 1) = <<>>
    BY <1>1, SubSeqEmpty
  <2>4. i \in from..to
    BY <1>1
  <2>5. InWord(e, from, to)'
    BY <1>3, <1>5, <2>2, <2>3, <2>4 DEF InWord
  <2>6. InElementAt(e, from, to)'
    BY <1>3, <2>2, <2>5 DEF InElementAt
  <2> QED
    BY <1>3, <2>6 DEF ElementGoesOn
<1> QED
  BY <1>1, <1>4, <1>5

\* A byte of an element in quotes, or the quote at its end.
LEMMA ElementQuoted ==
    ASSUME NEW e, NEW from, NEW to, ElementIn(src, del, from, to, e), pc = "quoted",
           InQuotes(e, from, to), Quoted
    PROVE  ElementGoesOn(e, from, to)
<1>1. PICK q : /\ QuotedAt(src, from, to, e, q)
               /\ \E j \in 0..Len(e) :
                      /\ elem = SubSeq(e, 1, j)
                      /\ \/ escape = FALSE /\ i = q[j]
                         \/ escape = TRUE /\ j < Len(e) /\ q[j + 1] = q[j] + 2 /\ i = q[j] + 1
                            /\ src[i] = e[j + 1]
  BY DEF InQuotes
<1>2. PICK j \in 0..Len(e) :
          /\ elem = SubSeq(e, 1, j)
          /\ \/ escape = FALSE /\ i = q[j]
             \/ escape = TRUE /\ j < Len(e) /\ q[j + 1] = q[j] + 2 /\ i = q[j] + 1
                /\ src[i] = e[j + 1]
  BY <1>1
<1>3. /\ e \in Seq(Byte) /\ Len(e) \in Nat /\ q \in [0..Len(e) -> Nat] /\ j \in Nat
      /\ to = q[Len(e)] + 1 /\ src[q[Len(e)]] = Quote
      /\ Len(src) \in Nat /\ to \in Nat /\ to <= Len(src)
      /\ \A l \in 0..Len(e) : q[l] < to /\ q[l] \in Nat
  <2>1. Len(src) \in Nat /\ to \in Nat /\ to <= Len(src)
    BY DEF ElementIn
  <2>2. /\ e \in Seq(Byte) /\ q \in [0..Len(e) -> Nat]
        /\ to = q[Len(e)] + 1 /\ src[q[Len(e)]] = Quote
        /\ \A l \in 0..Len(e) : q[l] < to
    BY <1>1 DEF QuotedAt
  <2> QED
    BY <2>1, <2>2, LenProperties, SMTT(30)
<1> DEFINE Stays == UNCHANGED <<src, del, depth, dims>>
           Inside(l) == /\ pc' = "quoted" /\ elems' = elems /\ Stays
                        /\ elem' = SubSeq(e, 1, l)
<1>4. ASSUME NEW l \in 0..Len(e), Inside(l),
             \/ escape' = FALSE /\ i' = q[l]
             \/ escape' = TRUE /\ l < Len(e) /\ q[l + 1] = q[l] + 2 /\ i' = q[l] + 1
                /\ src[i'] = e[l + 1]
      PROVE  ElementGoesOn(e, from, to)
  <2>1. InQuotes(e, from, to)'
    BY <1>1, <1>4 DEF InQuotes
  <2> QED
    BY <1>4, <2>1 DEF ElementGoesOn, InElementAt
<1>5. e \in Seq(Byte) /\ \A l \in 1..Len(e) : Append(SubSeq(e, 1, l - 1), e[l]) = SubSeq(e, 1, l)
  <2> QED
    BY <1>3, Prefix
<1>6. \A l \in 1..Len(e) :
          \/ q[l] = q[l - 1] + 1 /\ src[q[l - 1]] = e[l] /\ e[l] \notin {Quote, Bslash}
          \/ q[l] = q[l - 1] + 2 /\ src[q[l - 1]] = Bslash /\ src[q[l - 1] + 1] = e[l]
  BY <1>1 DEF QuotedAt
<1> HIDE DEF Inside
<1>7. CASE escape = TRUE
  <2> DEFINE l == j + 1
  <2>1. /\ l \in 1..Len(e) /\ l \in 0..Len(e) /\ l - 1 = j /\ q[l] = q[j] + 2
        /\ i = q[j] + 1 /\ src[i] = e[l] /\ i < q[l] /\ q[l] < to /\ i \in Nat
    BY <1>2, <1>3, <1>7, SMTT(30)
  <2>2. ~AtEnd
    BY <1>3, <2>1, SMTT(30) DEF AtEnd
  <2>3. /\ i' = i + 1 /\ UNCHANGED <<src, del, depth, dims>> /\ elem' = Append(elem, src[i])
        /\ escape' = FALSE /\ UNCHANGED <<pc, elems>>
    BY <1>7, <2>2 DEF Quoted
  <2> HIDE DEF l
  <2>4. elem' = SubSeq(e, 1, l)
    BY <1>2, <1>5, <2>1, <2>3
  <2>5. i' = q[l]
    BY <1>3, <2>1, <2>3, SMTT(30)
  <2>6. Inside(l)
    BY <2>3, <2>4 DEF Inside
  <2> QED
    BY <1>4, <2>1, <2>3, <2>5, <2>6
<1>8. CASE escape = FALSE /\ j < Len(e)
  <2> DEFINE l == j + 1
  <2>1. /\ l \in 1..Len(e) /\ l \in 0..Len(e) /\ l - 1 = j /\ i = q[j] /\ q[j] < to /\ i \in Nat
    BY <1>2, <1>3, <1>8, SMTT(30)
  <2>2. ~AtEnd
    BY <1>3, <2>1 DEF AtEnd
  <2> HIDE DEF l
  <2>3. CASE q[l] = q[j] + 1 /\ src[i] = e[l] /\ e[l] \notin {Quote, Bslash}
    <3>1. /\ i' = i + 1 /\ UNCHANGED <<src, del, depth, dims>> /\ elem' = Append(elem, src[i])
          /\ escape' = FALSE /\ UNCHANGED <<pc, elems>>
      BY <2>2, <2>3 DEF Quoted
    <3>2. elem' = SubSeq(e, 1, l)
      BY <1>2, <1>5, <2>1, <2>3, <3>1
    <3>3. i' = q[l]
      BY <2>1, <2>3, <3>1
    <3>4. Inside(l)
      BY <3>1, <3>2 DEF Inside
    <3> QED
      BY <1>4, <2>1, <3>1, <3>3, <3>4
  <2>4. CASE q[l] = q[j] + 2 /\ src[i] = Bslash /\ src[i + 1] = e[l]
    <3>1. /\ i' = i + 1 /\ UNCHANGED <<src, del, depth, dims>> /\ elem' = elem
          /\ escape' = TRUE /\ UNCHANGED <<pc, elems>>
      BY <1>8, <2>2, <2>4 DEF Quoted
    <3>2. Inside(j)
      BY <1>2, <3>1 DEF Inside
    <3>3. q[j + 1] = q[j] + 2 /\ i' = q[j] + 1 /\ src[i'] = e[j + 1]
      BY <2>1, <2>4, <3>1 DEF l
    <3> QED
      BY <1>4, <1>8, <3>1, <3>2, <3>3
  <2> QED
    BY <1>6, <2>1, <2>3, <2>4
<1>9. CASE escape = FALSE /\ j = Len(e)
  <2>1. i = q[Len(e)] /\ src[i] = Quote /\ i + 1 = to /\ i \in Nat /\ elem = e
    BY <1>2, <1>3, <1>9, Prefix
  <2>2. ~AtEnd
    BY <1>3, <2>1 DEF AtEnd
  <2>3. /\ i' = to /\ UNCHANGED <<src, del, depth, dims>>
        /\ elems' = Append(elems, e) /\ pc' = "after"
    <3>1. ~(escape \/ src[i] \notin {Bslash, Quote}) /\ src[i] # Bslash
      BY <1>9, <2>1 DEF Quote, Bslash
    <3> QED
      BY <2>1, <2>2, <3>1 DEF Quoted
  <2> QED
    BY <2>3 DEF ElementGoesOn
<1>10. escape = FALSE \/ escape = TRUE
  BY <1>2
<1>11. j < Len(e) \/ j = Len(e)
  BY <1>3
<1> QED
  BY <1>7, <1>8, <1>9, <1>10, <1>11

\* A part of a sequence, and one more of it.
LEMMA SubSeqGrows ==
    ASSUME NEW M, NEW s \in Seq(M), NEW m \in Nat \ {0}, NEW n \in m..Len(s)
    PROVE  /\ SubSeq(s, m, n) = Append(SubSeq(s, m, n - 1), s[n])
           /\ SubSeq(s, m, n) # <<>>
<1> DEFINE u == SubSeq(s, m, n)
           v == SubSeq(s, m, n - 1)
           w == Append(v, s[n])
<1>1. Len(s) \in Nat /\ n \in Nat /\ m <= n /\ n <= Len(s) /\ \A j \in m..n : s[j] \in M
  BY LenProperties, ElementOfSeq
<1>2. /\ u \in Seq(M) /\ Len(u) = n - m + 1 /\ \A j \in 1..(n - m + 1) : u[j] = s[m + j - 1]
  BY <1>1, SubSeqProperties, SMTT(30)
<1>3. /\ v \in Seq(M) /\ Len(v) = n - m /\ \A j \in 1..(n - m) : v[j] = s[m + j - 1]
  <2> DEFINE l == n - 1
             x == SubSeq(s, m, l)
  <2>1. l \in Int /\ \A j \in m..l : s[j] \in M
    BY <1>1
  <2>2. l - m + 1 = n - m /\ (m <= l => Len(x) = n - m) /\ (~(m <= l) => n - m = 0)
    <3> HIDE DEF l
    <3>1. Len(x) = IF m <= l THEN l - m + 1 ELSE 0
      BY <2>1, SubSeqProperties
    <3> QED
      BY <1>1, <3>1 DEF l
  <2>3. x \in Seq(M) /\ \A j \in 1..(l - m + 1) : x[j] = s[m + j - 1]
    <3> HIDE DEF l
    <3> QED
      BY <2>1, SubSeqProperties
  <2>4. ~(m <= l) => Len(x) = 0
    <3> HIDE DEF l
    <3>1. Len(x) = IF m <= l THEN l - m + 1 ELSE 0
      BY <2>1, SubSeqProperties
    <3> QED
      BY <3>1
  <2> HIDE DEF x
  <2> QED
    BY <1>1, <2>2, <2>3, <2>4 DEF x
<1> HIDE DEF u, v
<1>4. w \in Seq(M) /\ Len(w) = n - m + 1 /\ w[n - m + 1] = s[n]
      /\ \A j \in 1..(n - m) : w[j] = v[j]
  <2>1. s[n] \in M
    BY <1>1
  <2>2. w \in Seq(M) /\ Len(w) = Len(v) + 1 /\ w[Len(v) + 1] = s[n]
        /\ \A j \in 1..Len(v) : w[j] = v[j]
    BY <1>3, <2>1, AppendProperties
  <2> QED
    BY <1>3, <2>2
<1> HIDE DEF w
<1>5. ASSUME NEW j \in 1..Len(u) PROVE u[j] = w[j]
  <2>1. CASE j = n - m + 1
    <3>1. u[j] = s[m + j - 1] /\ m + j - 1 = n
      BY <1>1, <1>2, <2>1
    <3> QED
      BY <1>4, <2>1, <3>1
  <2>2. CASE j # n - m + 1
    <3>1. j \in 1..(n - m) /\ j \in 1..(n - m + 1)
      BY <1>1, <1>2, <2>2
    <3> QED
      BY <1>2, <1>3, <1>4, <3>1
  <2> QED
    BY <2>1, <2>2
<1>6. u = w
  <2>1. Len(u) = Len(w)
    BY <1>2, <1>4
  <2> QED
    BY <1>2, <1>4, <1>5, <2>1, SeqEqual
<1>7. u # <<>>
  BY <1>1, <1>2
<1> QED
  BY <1>6, <1>7 DEF u, v, w

\* A byte of an element without quotes, or what ends it.
LEMMA ElementPlain ==
    ASSUME NEW e, NEW from, NEW to, ElementIn(src, del, from, to, e), pc = "plain",
           InWord(e, from, to), Plain
    PROVE  ElementGoesOn(e, from, to)
<1>1. /\ Len(src) \in Nat /\ from \in Nat \ {0} /\ to \in Nat /\ from < to
      /\ to <= Len(src) /\ src \in Seq(Byte)
  BY DEF ElementIn
<1>2. /\ PlainAt(src, del[1], from, to, e)
      /\ i \in from..to /\ elem = SubSeq(src, from, i - 1) /\ i \in Nat \ {0}
  BY <1>1 DEF InWord
<1>3. ~AtEnd
  BY <1>1, <1>2 DEF AtEnd
<1>4. CASE i < to
  <2>1. src[i] \notin {RBrace, del[1]}
    <3>1. i \in from..(to - 1)
      BY <1>1, <1>2, <1>4
    <3> QED
      BY <1>2, <3>1 DEF PlainAt
  <2>2. ~AtDelimiter /\ ~At(RBrace)
    BY <1>1, <1>2, <2>1, DelimiterFirst DEF At, ElementIn
  <2>3. /\ elem' = Append(elem, src[i]) /\ i' = i + 1
        /\ UNCHANGED <<src, del, pc, depth, dims, elems>>
    BY <1>3, <2>2 DEF Plain
  <2>4. SubSeq(src, from, i) = Append(SubSeq(src, from, i - 1), src[i])
    <3>1. i \in from..Len(src)
      BY <1>1, <1>2, <1>4
    <3>2. SubSeq(src, from, i) = Append(SubSeq(src, from, i - 1), src[i])
      BY <1>1, <3>1, SubSeqGrows
    <3> QED
      BY <3>2
  <2>5. i' \in from..to /\ i' - 1 = i
    BY <1>1, <1>2, <1>4, <2>3
  <2>6. InWord(e, from, to)'
    BY <1>2, <2>3, <2>4, <2>5 DEF InWord
  <2> QED
    BY <2>3, <2>6 DEF ElementGoesOn, InElementAt
<1>5. CASE i = to
  <2>1. AtDelimiter \/ At(RBrace)
    BY <1>3, <1>5 DEF At, AtDelimiter, ElementIn
  <2>2. elem = SubSeq(src, from, to - 1) /\ e = WordOf(elem)
    BY <1>2, <1>5 DEF PlainAt
  <2>3. elem # <<>>
    <3> DEFINE l == to - 1
    <3>1. l \in from..Len(src)
      BY <1>1
    <3> HIDE DEF l
    <3>2. SubSeq(src, from, l) # <<>>
      BY <1>1, <3>1, SubSeqGrows
    <3> QED
      BY <2>2, <3>2 DEF l
  <2>4. /\ elems' = Append(elems, e) /\ pc' = "after"
        /\ UNCHANGED <<src, del, i, depth, dims>>
    BY <1>3, <2>1, <2>2, <2>3 DEF Plain, WordOf
  <2> QED
    BY <1>5, <2>4 DEF ElementGoesOn
<1> QED
  BY <1>1, <1>2, <1>4, <1>5

\* A step of parseArray within an element.
LEMMA ElementStep ==
    ASSUME NEW e, NEW from, NEW to, ElementIn(src, del, from, to, e), InElementAt(e, from, to), Next
    PROVE  ElementGoesOn(e, from, to)
<1>1. CASE pc = "element" /\ i = from
  <2>1. ElementOpens \/ ElementStarts
    BY <1>1 DEF Next, Start, Open, Quoted, Plain, After, Close
  <2> QED
    BY <1>1, <2>1, ElementBegins
<1>2. CASE pc = "quoted" /\ InQuotes(e, from, to)
  <2>1. Quoted
    BY <1>2 DEF Next, Start, Open, ElementOpens, ElementStarts, Plain, After, Close
  <2> QED
    BY <1>2, <2>1, ElementQuoted
<1>3. CASE pc = "plain" /\ InWord(e, from, to)
  <2>1. Plain
    BY <1>3 DEF Next, Start, Open, ElementOpens, ElementStarts, Quoted, After, Close
  <2> QED
    BY <1>3, <2>1, ElementPlain
<1> QED
  BY <1>1, <1>2, <1>3 DEF InElementAt

\* Every element of a list is in its place.
LEMMA ListElements ==
    ASSUME NEW s, NEW d, NEW es, NEW from, NEW to, ListAt(s, d, es, from, to)
    PROVE  \A k \in 1..Len(es) : ElementIn(s, d, from[k], to[k], es[k])
<1> TAKE k \in 1..Len(es)
<1>1. /\ s \in Seq(Byte) /\ Len(s) \in Nat /\ Len(es) \in Nat \ {0}
      /\ from[k] \in Nat \ {0} /\ to[k] \in Nat /\ from[k] < to[k] /\ to[k] <= Len(s)
      /\ s[from[k]] \notin {LBrace, RBrace}
      /\ \/ \E q : QuotedAt(s, from[k], to[k], es[k], q)
         \/ PlainAt(s, d[1], from[k], to[k], es[k])
  BY ListHas
<1>2. \/ s[to[k]] = RBrace
      \/ to[k] + Len(d) - 1 <= Len(s) /\ SubSeq(s, to[k], to[k] + Len(d) - 1) = d
  <2>1. CASE k = Len(es)
    BY <2>1 DEF ListAt
  <2>2. CASE k # Len(es)
    <3>1. k \in 1..(Len(es) - 1)
      BY <1>1, <2>2
    <3> QED
      BY <3>1 DEF ListAt
  <2> QED
    BY <2>1, <2>2
<1>3. d \in Seq(Byte) \ {<<>>} /\ d[1] # RBrace
  BY DEF ListAt
<1> QED
  BY <1>1, <1>2, <1>3 DEF ElementIn

\* A step within an element leads on in it, or to its end.
LEMMA PlaceElement ==
    ASSUME NEW es, NEW from, NEW to, ListAt(src, del, es, from, to), AtElement(es, from, to), Next
    PROVE  Place(es, from, to)'
<1>1. PICK k \in 1..Len(es) : /\ depth = 1 /\ dims = <<k - 1>> /\ elems = SubSeq(es, 1, k - 1)
                              /\ InElementAt(es[k], from[k], to[k])
  BY DEF AtElement
<1>2. ElementGoesOn(es[k], from[k], to[k])
  BY <1>1, ListElements, ElementStep
<1>3. CASE elems' = elems /\ InElementAt(es[k], from[k], to[k])'
  <2>1. AtElement(es, from, to)'
    BY <1>1, <1>2, <1>3 DEF ElementGoesOn, AtElement
  <2> QED
    BY <2>1 DEF Place
<1>4. CASE elems' = Append(elems, es[k]) /\ pc' = "after" /\ i' = to[k]
  <2>1. elems' = SubSeq(es, 1, k)
    BY <1>1, <1>4, Prefix, SMTT(30) DEF ListAt
  <2>2. AtSeparator(es, to)'
    BY <1>1, <1>2, <1>4, <2>1 DEF ElementGoesOn, AtSeparator
  <2> QED
    BY <2>2 DEF Place
<1> QED
  BY <1>2, <1>3, <1>4 DEF ElementGoesOn

\* One more is counted.
LEMMA CountsOne ==
    ASSUME NEW n \in Nat
    PROVE  [<<n>> EXCEPT ![1] = n + 1] = <<n + 1>>
OBVIOUS

\* What separates an element from the next, and the bracket after the last.
LEMMA PlaceAfter ==
    ASSUME NEW es, NEW from, NEW to, ListAt(src, del, es, from, to), AtSeparator(es, to), After
    PROVE  Place(es, from, to)'
<1>1. PICK k \in 1..Len(es) : /\ pc = "after" /\ i = to[k]
                              /\ depth = 1 /\ dims = <<k - 1>> /\ elems = SubSeq(es, 1, k)
  BY DEF AtSeparator
<1>2. /\ Len(src) \in Nat /\ from[k] \in Nat \ {0} /\ to[k] \in Nat /\ from[k] < to[k]
      /\ to[k] <= Len(src) /\ src \in Seq(Byte) /\ Len(es) \in Nat /\ i \in Nat \ {0}
  BY <1>1, ListHas
<1>3. ~AtEnd
  BY <1>1, <1>2 DEF AtEnd
<1>4. [dims EXCEPT ![1] = (k - 1) + 1] = <<k>> /\ dims[1] = k - 1
  <2>1. k - 1 \in Nat /\ (k - 1) + 1 = k
    BY <1>2
  <2> QED
    BY <1>1, <2>1, CountsOne
<1>5. CASE k = Len(es)
  <2>1. src[i] = RBrace /\ i = Len(src) /\ elems = es
    BY <1>1, <1>5, Prefix DEF ListAt
  <2>2. ~AtDelimiter
    BY <1>2, <2>1, DelimiterFirst DEF ListAt
  <2>3. At(RBrace)
    BY <1>3, <2>1 DEF At
  <2>4. /\ dims' = [dims EXCEPT ![1] = CountedLast(dims[1])]
        /\ depth' = 0 /\ i' = i + 1 /\ UNCHANGED <<src, pc, elems>>
    BY <1>1, <1>3, <2>2, <2>3 DEF After
  <2>5. dims' = <<Len(es)>>
    BY <1>4, <1>5, <2>4 DEF CountedLast
  <2>6. IsRead(es)' /\ pc' = "after"
    BY <1>1, <2>1, <2>4, <2>5 DEF IsRead
  <2> QED
    BY <2>6 DEF Place
<1>6. CASE k # Len(es)
  <2>1. k \in 1..(Len(es) - 1) /\ k + 1 \in 1..Len(es) /\ (k + 1) - 1 = k
    BY <1>2, <1>6
  <2>2. AtDelimiter /\ from[k + 1] = to[k] + Len(del)
    BY <1>1, <2>1 DEF ListAt, AtDelimiter
  <2>3. /\ dims' = [dims EXCEPT ![1] = Counted(dims[1])] /\ i' = from[k + 1] /\ pc' = "element"
        /\ UNCHANGED <<src, depth, elems>>
    BY <1>1, <1>3, <2>2 DEF After
  <2>4. dims' = <<k>>
    BY <1>4, <2>3 DEF Counted
  <2>5. AtElement(es, from, to)'
    BY <1>1, <2>1, <2>3, <2>4 DEF AtElement, InElementAt
  <2> QED
    BY <2>5 DEF Place
<1> QED
  BY <1>5, <1>6

\* The end.
LEMMA PlaceEnds ==
    ASSUME NEW es, NEW from, NEW to, ListAt(src, del, es, from, to), IsRead(es), pc # "done",
           pc \in {"after", "close", "done"}, After \/ Close
    PROVE  Place(es, from, to)'
<1>1. AtEnd /\ Len(dims) = 1 /\ dims[1] = Len(es) /\ Len(es) \in Nat \ {0}
  BY ListHas DEF AtEnd, IsRead
<1>2. \A k \in 1..Len(dims) : Divides(dims[k], Len(elems))
  BY <1>1 DEF Divides, IsRead
<1>3. pc' \in {"close", "done"} /\ UNCHANGED <<src, i, depth, dims, elems>>
  <2>1. CASE After
    BY <1>1, <2>1 DEF After, Goes
  <2>2. CASE Close
    BY <1>1, <1>2, <2>2 DEF Close, Goes, IsRead
  <2> QED
    BY <2>1, <2>2
<1>4. IsRead(es)'
  BY <1>3 DEF IsRead
<1> QED
  BY <1>3, <1>4 DEF Place

\* Every step of parseArray.
LEMMA PlaceStep ==
    ASSUME NEW es, NEW from, NEW to, ListAt(src, del, es, from, to), Place(es, from, to), Next
    PROVE  Place(es, from, to)' /\ UNCHANGED <<src, del>>
<1>1. UNCHANGED <<src, del>>
  BY DEF Next, Start, Open, ElementOpens, ElementStarts, Quoted, Plain, After, Close, Goes, Fails
<1>2. CASE pc = "start" /\ AtOpening /\ depth = 0
  <2>1. Start
    BY <1>2 DEF Next, Open, ElementOpens, ElementStarts, Quoted, Plain, After, Close
  <2> QED
    BY <1>1, <1>2, <2>1, PlaceStart
<1>3. CASE pc = "open" /\ AtOpening
  <2>1. Open
    BY <1>3 DEF Next, Start, ElementOpens, ElementStarts, Quoted, Plain, After, Close
  <2> QED
    BY <1>1, <1>3, <2>1, PlaceOpen
<1>4. CASE AtElement(es, from, to)
  BY <1>1, <1>4, PlaceElement
<1>5. CASE AtSeparator(es, to)
  <2>1. pc = "after"
    BY <1>5 DEF AtSeparator
  <2>2. After
    BY <2>1 DEF Next, Start, Open, ElementOpens, ElementStarts, Quoted, Plain, Close
  <2> QED
    BY <1>1, <1>5, <2>2, PlaceAfter
<1>6. CASE pc \in {"after", "close", "done"} /\ IsRead(es)
  <2>1. (After \/ Close) /\ pc # "done"
    BY <1>6 DEF Next, Start, Open, ElementOpens, ElementStarts, Quoted, Plain, After, Close
  <2> QED
    BY <1>1, <1>6, <2>1, PlaceEnds
<1> QED
  BY <1>2, <1>3, <1>4, <1>5, <1>6 DEF Place

\* A text between two bytes.
LEMMA Wrapped ==
    ASSUME NEW w \in Seq(Byte), NEW l \in Seq(Byte), NEW r \in Seq(Byte), Len(l) = 1, Len(r) = 1,
           NEW s, s = l \o w \o r
    PROVE  /\ s \in Seq(Byte) /\ Len(w) \in Nat /\ Len(s) = Len(w) + 2
           /\ s[1] = l[1] /\ s[Len(w) + 2] = r[1] /\ Has(s, 1, w)
<1>1. Len(w) \in Nat
  BY LenProperties
<1>2. w \in Seq(Byte) /\ l \in Seq(Byte) /\ r \in Seq(Byte) /\ s = l \o w \o r
  OBVIOUS
<1>3. /\ s \in Seq(Byte) /\ Len(s) = Len(l) + Len(w) + Len(r)
      /\ Has(s, 0, l) /\ Has(s, Len(l), w) /\ Has(s, Len(l) + Len(w), r)
  BY <1>2, HasThree
<1>4. s[0 + 1] = l[1] /\ s[Len(l) + Len(w) + 1] = r[1]
  BY <1>1, <1>3 DEF Has
<1>5. Len(l) + Len(w) + 1 = Len(w) + 2 /\ Len(l) + Len(w) + Len(r) = Len(w) + 2 /\ 0 + 1 = 1
  BY <1>1
<1> QED
  BY <1>1, <1>3, <1>4, <1>5

\* What has quotes around it is between them.
LEMMA QuotesHas ==
    ASSUME NEW w \in Seq(Byte), NEW s, s = <<Quote>> \o w \o <<Quote>>
    PROVE  /\ s \in Seq(Byte) /\ Len(w) \in Nat /\ Len(s) = Len(w) + 2
           /\ s[1] = Quote /\ s[Len(w) + 2] = Quote /\ Has(s, 1, w)
<1> DEFINE l == <<Quote>>
<1>1. l \in Seq(Byte) /\ Len(l) = 1 /\ l[1] = Quote
  BY DEF Quote, Byte
<1>2. s = l \o w \o l
  OBVIOUS
<1> HIDE DEF l
<1>3. /\ s \in Seq(Byte) /\ Len(w) \in Nat /\ Len(s) = Len(w) + 2
      /\ s[1] = l[1] /\ s[Len(w) + 2] = l[1] /\ Has(s, 1, w)
  BY <1>1, <1>2, Wrapped
<1> QED
  BY <1>1, <1>3

\* A part is the bytes where it is.
LEMMA HasIs ==
    ASSUME NEW M, NEW s \in Seq(M), NEW part \in Seq(M), NEW a, Has(s, a, part)
    PROVE  SubSeq(s, a + 1, a + Len(part)) = part
<1> DEFINE m == a + 1
           n == a + Len(part)
           u == SubSeq(s, m, n)
<1>1. /\ a \in Nat /\ Len(part) \in Nat /\ Len(s) \in Nat /\ m \in Int /\ n \in Int /\ n <= Len(s)
      /\ \A j \in m..n : s[j] \in M
  BY LenProperties, ElementOfSeq DEF Has
<1>2. n - m + 1 = Len(part) /\ (m <= n \/ Len(part) = 0) /\ (Len(part) = 0 => ~(m <= n))
  BY <1>1
<1>3. /\ u \in Seq(M) /\ Len(u) = (IF m <= n THEN n - m + 1 ELSE 0)
      /\ \A j \in 1..(n - m + 1) : u[j] = s[m + j - 1]
  <2> HIDE DEF m, n
  <2> QED
    BY <1>1, SubSeqProperties
<1>4. Len(u) = Len(part)
  <2> HIDE DEF m, n, u
  <2> QED
    BY <1>2, <1>3
<1>5. ASSUME NEW j \in 1..Len(part) PROVE u[j] = part[j]
  <2>1. m + j - 1 = a + j
    BY <1>1
  <2>2. u[j] = s[m + j - 1]
    <3> HIDE DEF m, n, u
    <3> QED
      BY <1>2, <1>3
  <2>3. s[a + j] = part[j]
    BY DEF Has
  <2> HIDE DEF m, u
  <2> QED
    BY <2>1, <2>2, <2>3
<1> HIDE DEF u
<1>6. u = part
  BY <1>3, <1>4, <1>5, SeqEqual
<1> QED
  BY <1>6 DEF u

\* The texts of an element: in quotes, with quotes and backslashes escaped, or a word.
QuotedText(text, e, parts) ==
    /\ e \in Seq(Byte) /\ parts \in Seq(Seq(Byte)) /\ Len(parts) = Len(e)
    /\ text = <<Quote>> \o FlattenSeq(parts) \o <<Quote>>
    /\ \A j \in 1..Len(e) : \/ parts[j] = <<e[j]>> /\ e[j] \notin {Quote, Bslash}
                            \/ parts[j] = <<Bslash, e[j]>>
WordText(text, e, del1) ==
    /\ text \in Seq(Byte) \ {<<>>} /\ text[1] \notin {LBrace, Quote}
    /\ \A j \in 1..Len(text) : text[j] \notin {RBrace, del1}
    /\ e = WordOf(text)
TextOf(text, e, del1) == (\E parts : QuotedText(text, e, parts)) \/ WordText(text, e, del1)

\* Bytes are integers.
LEMMA BytesAreInts == ASSUME NEW v \in Seq(Byte) PROVE v \in Seq(Int)
<1>1. Byte \subseteq Int
  BY DEF Byte
<1> HIDE DEF Byte
<1> QED
  BY <1>1, SeqMonotonic

\* The text of an element is not empty, and what it reads as is a text.
LEMMA TextType ==
    ASSUME NEW text, NEW e, NEW del1, TextOf(text, e, del1)
    PROVE  text \in Seq(Byte) /\ Len(text) \in Nat \ {0} /\ text # <<>> /\ e \in Seq(Int)
<1>1. CASE \E parts : QuotedText(text, e, parts)
  <2>1. PICK parts : QuotedText(text, e, parts)
    BY <1>1
  <2> DEFINE w == FlattenSeq(parts)
  <2>2. w \in Seq(Byte) /\ text = <<Quote>> \o w \o <<Quote>> /\ e \in Seq(Byte)
    BY <2>1, FlattenParts DEF QuotedText
  <2> HIDE DEF w
  <2>3. text \in Seq(Byte) /\ Len(w) \in Nat /\ Len(text) = Len(w) + 2
    BY <2>2, QuotesHas
  <2>4. Len(text) # 0
    BY <2>3
  <2>5. e \in Seq(Int)
    BY <2>2, BytesAreInts
  <2> QED
    BY <2>3, <2>4, <2>5, EmptySeq
<1>2. CASE WordText(text, e, del1)
  <2>1. text \in Seq(Byte) /\ text # <<>>
    BY <1>2 DEF WordText
  <2>2. Len(text) \in Nat \ {0}
    BY <2>1, EmptySeq, LenProperties
  <2>3. text \in Seq(Int) /\ Nil \in Seq(Int)
    BY <2>1, BytesAreInts DEF Nil
  <2>4. e \in Seq(Int)
    BY <1>2, <2>3 DEF WordText, WordOf
  <2> QED
    BY <2>1, <2>2, <2>4
<1> QED
  BY <1>1, <1>2 DEF TextOf

\* Where the text of an element in quotes is, is the element.
LEMMA QuotedPlace ==
    ASSUME NEW s \in Seq(Byte), NEW a, NEW text, NEW e, NEW parts, QuotedText(text, e, parts),
           Has(s, a, text)
    PROVE  \E q : QuotedAt(s, a + 1, a + 1 + Len(text), e, q)
<1> DEFINE w == FlattenSeq(parts)
           m == Len(e)
<1>0. /\ e \in Seq(Byte) /\ m \in Nat /\ parts \in Seq(Seq(Byte)) /\ Len(parts) = m
      /\ text = <<Quote>> \o w \o <<Quote>>
      /\ \A j \in 1..m : \/ parts[j] = <<e[j]>> /\ e[j] \notin {Quote, Bslash}
                         \/ parts[j] = <<Bslash, e[j]>>
      /\ a \in Nat
  BY LenProperties DEF QuotedText, Has
<1>1. PICK pos : Ends(parts, pos)
  BY <1>0, FlattenParts
<1>2. w \in Seq(Byte)
  BY <1>0, FlattenParts
<1>3. /\ pos \in [0..m -> Nat] /\ pos[0] = 0 /\ pos[m] = Len(w)
      /\ \A j \in 1..m : pos[j] = pos[j - 1] + Len(parts[j]) /\ Has(w, pos[j - 1], parts[j])
  BY <1>0, <1>1 DEF Ends
<1> HIDE DEF w
<1>4. /\ text \in Seq(Byte) /\ Len(w) \in Nat /\ Len(text) = Len(w) + 2
      /\ text[1] = Quote /\ text[Len(w) + 2] = Quote /\ Has(text, 1, w)
  BY <1>0, <1>2, QuotesHas
<1>5. /\ s[a + 1] = Quote /\ s[a + Len(w) + 2] = Quote
      /\ \A l \in 1..Len(w) : s[a + 1 + l] = w[l]
  <2>0. Len(text) = Len(w) + 2
    BY <1>4
  <2>1. \A l \in 1..Len(w) + 2 : s[a + l] = text[l]
    BY <2>0 DEF Has
  <2>4. \A l \in 1..Len(w) : text[1 + l] = w[l]
    BY <1>4 DEF Has
  <2>5. Len(w) \in Nat /\ a \in Nat
    BY <1>0, <1>4
  <2>2. \A l \in 1..Len(w) : 1 + l \in 1..Len(w) + 2 /\ text[1 + l] = w[l] /\ a + (1 + l) = a + 1 + l
    BY <2>4, <2>5
  <2>3. 1 \in 1..Len(w) + 2 /\ Len(w) + 2 \in 1..Len(w) + 2 /\ a + (Len(w) + 2) = a + Len(w) + 2
    BY <1>0, <1>4
  <2> QED
    BY <1>4, <2>1, <2>2, <2>3
<1> DEFINE q == [j \in 0..m |-> a + 2 + pos[j]]
<1>6. /\ q \in [0..m -> Nat] /\ \A j \in 0..m : q[j] = a + 2 + pos[j]
  BY <1>0, <1>3
<1> HIDE DEF q
<1>7. \A j \in 0..m : pos[j] \in Nat /\ pos[j] <= Len(w)
  <2> TAKE j \in 0..m
  <2>1. CASE j = 0
    BY <1>3, <1>4, <2>1
  <2>2. CASE j # 0
    <3>1. j \in 1..m /\ j - 1 \in 0..m
      BY <1>0, <2>2
    <3>2. pos[j] = pos[j - 1] + Len(parts[j]) /\ pos[j - 1] + Len(parts[j]) <= Len(w)
      BY <1>3, <3>1 DEF Has
    <3> QED
      BY <1>3, <3>2
  <2> QED
    BY <2>1, <2>2
<1>8. q[0] = (a + 1) + 1 /\ a + 1 + Len(text) = q[m] + 1 /\ s[q[m]] = Quote
  <2>1. 0 \in 0..m /\ m \in 0..m
    BY <1>0
  <2>2. q[0] = a + 2 + 0 /\ q[m] = a + 2 + Len(w)
    BY <1>3, <1>6, <2>1
  <2>3. /\ a + 2 + Len(w) = a + Len(w) + 2 /\ a + 2 + 0 = (a + 1) + 1
        /\ a + 1 + Len(text) = (a + 2 + Len(w)) + 1
    BY <1>0, <1>4
  <2>4. s[a + Len(w) + 2] = Quote
    BY <1>5
  <2> QED
    BY <2>2, <2>3, <2>4
<1>9. \A j \in 0..m : q[j] < a + 1 + Len(text)
  <2> TAKE j \in 0..m
  <2>1. q[j] = a + 2 + pos[j] /\ pos[j] \in Nat /\ pos[j] <= Len(w)
    BY <1>6, <1>7
  <2>2. a \in Nat /\ Len(w) \in Nat /\ Len(text) = Len(w) + 2
    BY <1>0, <1>4
  <2> QED
    BY <2>1, <2>2
<1>10. ASSUME NEW j \in 1..m
       PROVE  \/ q[j] = q[j - 1] + 1 /\ s[q[j - 1]] = e[j] /\ e[j] \notin {Quote, Bslash}
              \/ q[j] = q[j - 1] + 2 /\ s[q[j - 1]] = Bslash /\ s[q[j - 1] + 1] = e[j]
  <2> DEFINE b == pos[j - 1]
  <2>1. /\ j - 1 \in 0..m /\ j \in 0..m /\ b \in Nat /\ pos[j] = b + Len(parts[j])
        /\ b + Len(parts[j]) <= Len(w) /\ \A l \in 1..Len(parts[j]) : w[b + l] = parts[j][l]
    BY <1>0, <1>3, <1>7, SMTT(30) DEF Has
  <2>2. q[j - 1] = a + 2 + b /\ q[j] = a + 2 + pos[j]
    BY <1>6, <2>1
  <2> HIDE DEF b
  <2>3. CASE parts[j] = <<e[j]>> /\ e[j] \notin {Quote, Bslash}
    <3>1. Len(parts[j]) = 1 /\ parts[j][1] = e[j] /\ 1 \in 1..Len(parts[j])
      BY <2>3
    <3>2. w[b + 1] = e[j] /\ b + 1 \in 1..Len(w) /\ a + 1 + (b + 1) = q[j - 1]
      BY <1>0, <1>4, <2>1, <2>2, <3>1
    <3>3. s[a + 1 + (b + 1)] = e[j]
      BY <1>5, <3>2
    <3>4. q[j] = q[j - 1] + 1
      BY <1>0, <2>1, <2>2, <3>1
    <3> QED
      BY <2>3, <3>2, <3>3, <3>4
  <2>4. CASE parts[j] = <<Bslash, e[j]>>
    <3>1. /\ Len(parts[j]) = 2 /\ parts[j][1] = Bslash /\ parts[j][2] = e[j]
          /\ 1 \in 1..Len(parts[j]) /\ 2 \in 1..Len(parts[j])
      BY <2>4
    <3>5. w[b + 1] = Bslash /\ w[b + 2] = e[j]
      BY <2>1, <3>1
    <3>6. b + 2 <= Len(w) /\ b \in Nat /\ Len(w) \in Nat /\ a \in Nat
      BY <1>0, <1>4, <2>1, <3>1
    <3>2. /\ w[b + 1] = Bslash /\ b + 1 \in 1..Len(w) /\ a + 1 + (b + 1) = q[j - 1]
          /\ w[b + 2] = e[j] /\ b + 2 \in 1..Len(w) /\ a + 1 + (b + 2) = q[j - 1] + 1
      BY <2>2, <3>5, <3>6
    <3>3. s[a + 1 + (b + 1)] = Bslash /\ s[a + 1 + (b + 2)] = e[j]
      BY <1>5, <3>2
    <3>4. q[j] = q[j - 1] + 2
      BY <1>0, <2>1, <2>2, <3>1
    <3> QED
      BY <3>2, <3>3, <3>4
  <2> QED
    BY <1>0, <2>3, <2>4
<1>11. QuotedAt(s, a + 1, a + 1 + Len(text), e, q)
  BY <1>0, <1>5, <1>6, <1>8, <1>9, <1>10 DEF QuotedAt
<1> QED
  BY <1>11

\* Where a word is, is the element.
LEMMA WordPlace ==
    ASSUME NEW s \in Seq(Byte), NEW a, NEW text, NEW e, NEW del1, WordText(text, e, del1),
           Has(s, a, text)
    PROVE  PlainAt(s, del1, a + 1, a + 1 + Len(text), e)
<1>1. text \in Seq(Byte) /\ Len(text) \in Nat \ {0} /\ a \in Nat
  BY TextType DEF TextOf, WordText, Has
<1>2. \A l \in 1..Len(text) : s[a + l] = text[l]
  BY DEF Has
<1>3. s[a + 1] \notin {LBrace, Quote}
  BY <1>1, <1>2 DEF WordText
<1>4. ASSUME NEW j \in (a + 1)..((a + 1 + Len(text)) - 1) PROVE s[j] \notin {RBrace, del1}
  <2> DEFINE l == j - a
  <2>1. l \in 1..Len(text) /\ a + l = j
    BY <1>1
  <2> HIDE DEF l
  <2> QED
    BY <1>2, <2>1 DEF WordText
<1>5. (a + 1 + Len(text)) - 1 = a + Len(text)
  BY <1>1
<1>6. SubSeq(s, a + 1, a + Len(text)) = text
  BY <1>1, HasIs
<1>7. e = WordOf(SubSeq(s, a + 1, (a + 1 + Len(text)) - 1))
  BY <1>5, <1>6 DEF WordText
<1> QED
  BY <1>3, <1>4, <1>7 DEF PlainAt

\* Texts of elements, and what they are the texts of.
TextsOf(texts, es, d) ==
    /\ d \in Seq(Byte) \ {<<>>} /\ d[1] # RBrace
    /\ texts \in Seq(Seq(Byte)) /\ Len(texts) \in Nat \ {0}
    /\ es \in Seq(Seq(Int)) /\ Len(es) = Len(texts)
    /\ \A k \in 1..Len(texts) : TextOf(texts[k], es[k], d[1])

\* What has brackets around it is between them.
LEMMA BracketsHas ==
    ASSUME NEW w \in Seq(Byte), NEW s, s = <<LBrace>> \o w \o <<RBrace>>
    PROVE  /\ s \in Seq(Byte) /\ Len(w) \in Nat /\ Len(s) = Len(w) + 2
           /\ s[1] = LBrace /\ s[Len(w) + 2] = RBrace /\ Has(s, 1, w)
<1> DEFINE l == <<LBrace>>
           r == <<RBrace>>
<1>1. /\ l \in Seq(Byte) /\ Len(l) = 1 /\ l[1] = LBrace
      /\ r \in Seq(Byte) /\ Len(r) = 1 /\ r[1] = RBrace
  BY DEF LBrace, RBrace, Byte
<1>2. s = l \o w \o r
  OBVIOUS
<1> HIDE DEF l, r
<1>3. /\ s \in Seq(Byte) /\ Len(w) \in Nat /\ Len(s) = Len(w) + 2
      /\ s[1] = l[1] /\ s[Len(w) + 2] = r[1] /\ Has(s, 1, w)
  BY <1>1, <1>2, Wrapped
<1> QED
  BY <1>1, <1>3

\* Where each separated text is in the whole.
Laid(s, texts, d, pos) ==
    /\ s \in Seq(Byte) /\ pos \in [0..Len(texts) -> Nat] /\ pos[0] = 0
    /\ Len(s) = pos[Len(texts)] + 2 /\ s[1] = LBrace /\ s[Len(s)] = RBrace
    /\ \A k \in 1..Len(texts) :
           LET sep == SeparatorOf(texts, d, k)
           IN  /\ sep \in Seq(Byte) /\ Len(sep) \in Nat /\ Len(texts[k]) \in Nat
               /\ pos[k] = pos[k - 1] + Len(sep) + Len(texts[k]) /\ pos[k] + 1 < Len(s)
               /\ Has(s, 1 + pos[k - 1], sep) /\ Has(s, 1 + pos[k - 1] + Len(sep), texts[k])

\* In the text of an array each part is where the one before it and a delimiter end.
LEMMA Layout ==
    ASSUME NEW texts \in Seq(Seq(Byte)), Len(texts) # 0, NEW d \in Seq(Byte),
           NEW s, s = Brackets(texts, d)
    PROVE  \E pos : Laid(s, texts, d, pos)
<1> DEFINE seps == Separated(texts, d)
           n == Len(texts)
           w == FlattenSeq(seps)
<1>1. /\ seps \in Seq(Seq(Byte)) /\ Len(seps) = n /\ w \in Seq(Byte) /\ n \in Nat
      /\ \A k \in 1..n : seps[k] = SeparatorOf(texts, d, k) \o texts[k]
  BY BracketsType, LenProperties
<1>2. s = <<LBrace>> \o w \o <<RBrace>>
  BY BracketsIs
<1>3. PICK pos : Ends(seps, pos)
  BY <1>1, FlattenParts
<1>4. /\ pos \in [0..n -> Nat] /\ pos[0] = 0 /\ pos[n] = Len(w)
      /\ \A k \in 1..n : pos[k] = pos[k - 1] + Len(seps[k]) /\ Has(w, pos[k - 1], seps[k])
  BY <1>1, <1>3 DEF Ends
<1> HIDE DEF w, seps
<1>5. /\ s \in Seq(Byte) /\ Len(w) \in Nat /\ Len(s) = Len(w) + 2
      /\ s[1] = LBrace /\ s[Len(w) + 2] = RBrace /\ Has(s, 1, w)
  BY <1>1, <1>2, BracketsHas
<1>6. ASSUME NEW k \in 1..n, NEW sep, sep = SeparatorOf(texts, d, k)
      PROVE  /\ sep \in Seq(Byte) /\ Len(sep) \in Nat /\ Len(texts[k]) \in Nat
             /\ pos[k] = pos[k - 1] + Len(sep) + Len(texts[k]) /\ pos[k] + 1 < Len(s)
             /\ Has(s, 1 + pos[k - 1], sep) /\ Has(s, 1 + pos[k - 1] + Len(sep), texts[k])
  <2> DEFINE a == pos[k - 1]
             t == texts[k]
             x == seps[k]
             p == 1 + a
  <2>1. sep \in Seq(Byte) /\ t \in Seq(Byte) /\ x \in Seq(Byte) /\ x = sep \o t
    <3>1. sep \in {d, <<>>} /\ <<>> \in Seq(Byte)
      BY <1>6, EmptySeq DEF SeparatorOf
    <3>2. t \in Seq(Byte) /\ x \in Seq(Byte) /\ x = sep \o t
      BY <1>1, <1>6, ElementOfSeq
    <3> QED
      BY <3>1, <3>2
  <2>9. pos[k] = a + Len(x) /\ Has(w, a, x)
    BY <1>4
  <2>2. a \in Nat /\ pos[k] = a + Len(x) /\ Has(w, a, x)
    BY <2>9 DEF Has
  <2> HIDE DEF a, t, x
  <2>3. Has(s, p, x)
    <3>1. Within(Byte, s, w, x, 1, a, p)
      BY <1>1, <1>5, <2>1, <2>2 DEF Within
    <3> QED
      BY <3>1, HasInner
  <2> HIDE DEF p
  <2>4. Has(s, p, sep) /\ Has(s, p + Len(sep), t) /\ Len(sep \o t) = Len(sep) + Len(t)
    BY <1>5, <2>1, <2>3, HasBoth
  <2>5. Len(sep) \in Nat /\ Len(t) \in Nat
    BY <2>1, LenProperties
  <2>6. a + Len(x) <= Len(w)
    BY <2>2 DEF Has
  <2>7. Len(x) = Len(sep) + Len(t)
    BY <2>1, <2>4
  <2>8. pos[k] = a + Len(sep) + Len(t) /\ pos[k] + 1 < Len(s)
    BY <1>5, <2>2, <2>5, <2>6, <2>7
  <2> QED
    BY <2>1, <2>4, <2>5, <2>8 DEF a, t, p
<1>7. Len(s) = pos[n] + 2 /\ s[Len(s)] = RBrace
  BY <1>4, <1>5
<1> QED
  BY <1>4, <1>5, <1>6, <1>7 DEF Laid

\* Where the parts of an array are, and the delimiters between them.
PartsAt(s, texts, d, from, to) ==
    LET n == Len(texts)
    IN  /\ s \in Seq(Byte) /\ Len(s) \in Nat /\ n \in Nat \ {0} /\ Len(d) \in Nat \ {0}
        /\ from \in [1..n -> Nat] /\ to \in [1..n -> Nat]
        /\ s[1] = LBrace /\ from[1] = 2 /\ to[n] = Len(s) /\ s[Len(s)] = RBrace
        /\ \A k \in 1..n : /\ from[k] > 0 /\ to[k] <= Len(s) /\ Len(texts[k]) \in Nat \ {0}
                           /\ to[k] = from[k] + Len(texts[k]) /\ from[k] < to[k]
                           /\ \E a : a + 1 = from[k] /\ Has(s, a, texts[k])
        /\ \A k \in 1..(n - 1) :
               /\ from[k + 1] = to[k] + Len(d) /\ to[k] + Len(d) - 1 <= Len(s)
               /\ SubSeq(s, to[k], to[k] + Len(d) - 1) = d

\* The parts of an array are separated by the delimiter, if none is empty.
LEMMA Separations ==
    ASSUME NEW texts \in Seq(Seq(Byte)), Len(texts) # 0, \A k \in 1..Len(texts) : texts[k] # <<>>,
           NEW d \in Seq(Byte) \ {<<>>}, NEW s, s = Brackets(texts, d)
    PROVE  \E from, to : PartsAt(s, texts, d, from, to)
<1> DEFINE n == Len(texts)
<1>0. /\ d \in Seq(Byte) /\ d # <<>> /\ Len(d) \in Nat \ {0}
      /\ texts \in Seq(Seq(Byte)) /\ n \in Nat \ {0} /\ Len(texts) = n
  BY EmptySeq, LenProperties
<1>1. PICK pos : Laid(s, texts, d, pos)
  BY <1>0, Layout
<1>2. /\ s \in Seq(Byte) /\ Len(s) \in Nat /\ pos \in [0..n -> Nat] /\ pos[0] = 0
      /\ Len(s) = pos[n] + 2 /\ s[1] = LBrace /\ s[Len(s)] = RBrace
  BY <1>0, <1>1, LenProperties DEF Laid
<1>3. ASSUME NEW k \in 1..n
      PROVE  texts[k] \in Seq(Byte) /\ Len(texts[k]) \in Nat \ {0} /\ texts[k] # <<>>
  <2>1. texts[k] \in Seq(Byte) /\ texts[k] # <<>>
    BY ElementOfSeq
  <2> QED
    BY <2>1, EmptySeq, LenProperties
<1>4. ASSUME NEW k \in 1..n
      PROVE  SeparatorOf(texts, d, k) = IF k = 1 THEN <<>> ELSE d
  <2>1. k # 1 => k - 1 \in 1..n /\ k > 1
    BY <1>0
  <2>2. k # 1 => texts[k - 1] # <<>>
    BY <1>3, <2>1
  <2> QED
    BY <2>1, <2>2 DEF SeparatorOf
<1> DEFINE to == [k \in 1..n |-> 2 + pos[k]]
           from == [k \in 1..n |-> 2 + pos[k] - Len(texts[k])]
<1>5. ASSUME NEW k \in 1..n
      PROVE  /\ to[k] = 2 + pos[k] /\ from[k] = 2 + pos[k] - Len(texts[k])
             /\ pos[k] \in Nat /\ pos[k - 1] \in Nat /\ pos[k] + 1 < Len(s)
             /\ k = 1 => pos[k] = Len(texts[k]) /\ Has(s, 1, texts[k])
             /\ k # 1 => /\ pos[k] = pos[k - 1] + Len(d) + Len(texts[k])
                         /\ Has(s, 1 + pos[k - 1], d) /\ Has(s, 1 + pos[k - 1] + Len(d), texts[k])
  <2>1. k \in 0..n /\ k - 1 \in 0..n /\ Len(texts[k]) \in Nat
    BY <1>0, <1>3
  <2>2. pos[k] \in Nat /\ pos[k - 1] \in Nat
    BY <1>2, <2>1
  <2> DEFINE sep == SeparatorOf(texts, d, k)
  <2>3. /\ pos[k] = pos[k - 1] + Len(sep) + Len(texts[k]) /\ pos[k] + 1 < Len(s)
        /\ Has(s, 1 + pos[k - 1], sep) /\ Has(s, 1 + pos[k - 1] + Len(sep), texts[k])
    BY <1>0, <1>1 DEF Laid
  <2>4. sep = IF k = 1 THEN <<>> ELSE d
    BY <1>4
  <2> HIDE DEF sep
  <2>5. CASE k = 1
    <3>1. Len(sep) = 0 /\ pos[k - 1] = 0
      BY <1>2, <2>4, <2>5, EmptySeq
    <3>2. 1 + 0 + 0 = 1 /\ 0 + 0 + Len(texts[k]) = Len(texts[k])
      BY <2>1
    <3> QED
      BY <2>2, <2>3, <2>5, <3>1, <3>2
  <2>6. CASE k # 1
    BY <2>2, <2>3, <2>4, <2>6
  <2> QED
    BY <2>5, <2>6
<1> HIDE DEF to, from
<1>l. Len(d) \in Nat /\ Len(s) \in Nat
  BY <1>0, <1>2
<1>6. ASSUME NEW k \in 1..n
      PROVE  /\ from[k] \in Nat /\ to[k] \in Nat /\ from[k] > 0 /\ to[k] <= Len(s)
             /\ to[k] = from[k] + Len(texts[k]) /\ from[k] < to[k]
             /\ \E a : a + 1 = from[k] /\ Has(s, a, texts[k])
  <2>1. Len(texts[k]) \in Nat \ {0}
    BY <1>3
  <2>2. /\ to[k] = 2 + pos[k] /\ from[k] = 2 + pos[k] - Len(texts[k])
        /\ pos[k] \in Nat /\ pos[k - 1] \in Nat /\ pos[k] + 1 < Len(s)
    BY <1>5
  <2>3. CASE k = 1
    <3>1. pos[k] = Len(texts[k]) /\ Has(s, 1, texts[k])
      BY <1>5, <2>3
    <3>2. 1 + 1 = from[k]
      BY <2>1, <2>2, <3>1
    <3>3. /\ from[k] \in Nat /\ to[k] \in Nat /\ from[k] > 0 /\ to[k] <= Len(s)
          /\ to[k] = from[k] + Len(texts[k]) /\ from[k] < to[k]
      BY <1>2, <2>1, <2>2, <3>1, SMTT(30)
    <3> QED
      BY <3>1, <3>2, <3>3
  <2>4. CASE k # 1
    <3>1. /\ pos[k] = pos[k - 1] + Len(d) + Len(texts[k])
          /\ Has(s, 1 + pos[k - 1] + Len(d), texts[k])
      BY <1>5, <2>4
    <3>4. /\ 2 + pos[k] - Len(texts[k]) = 1 + pos[k - 1] + Len(d) + 1
          /\ 2 + pos[k] <= Len(s)
          /\ 2 + pos[k] = (1 + pos[k - 1] + Len(d) + 1) + Len(texts[k])
      <4> DEFINE m == Len(d)
                 t == Len(texts[k])
                 p == pos[k]
                 b == pos[k - 1]
                 z == Len(s)
      <4>1. m \in Nat /\ t \in Nat /\ p \in Nat /\ b \in Nat /\ z \in Nat
        BY <1>l, <2>1, <2>2
      <4>2. p = b + m + t /\ p + 1 < z
        BY <2>2, <3>1
      <4> HIDE DEF m, t, p, b, z
      <4>3. 2 + p - t = 1 + b + m + 1 /\ 2 + p <= z /\ 2 + p = (1 + b + m + 1) + t
        BY <4>1, <4>2
      <4> QED
        BY <4>3 DEF m, t, p, b, z
    <3>2. 1 + pos[k - 1] + Len(d) + 1 = from[k]
      BY <2>2, <3>4
    <3>5. from[k] \in Nat /\ from[k] > 0
      <4> DEFINE m == Len(d)
                 b == pos[k - 1]
                 x == from[k]
      <4>1. m \in Nat /\ b \in Nat /\ 1 + b + m + 1 = x
        BY <1>l, <2>2, <3>2
      <4> HIDE DEF m, b, x
      <4>2. x \in Nat /\ x > 0
        BY <4>1
      <4> QED
        BY <4>2 DEF x
    <3>6. to[k] = from[k] + Len(texts[k]) /\ to[k] <= Len(s)
      BY <2>2, <3>2, <3>4
    <3>3. /\ from[k] \in Nat /\ to[k] \in Nat /\ from[k] > 0 /\ to[k] <= Len(s)
          /\ to[k] = from[k] + Len(texts[k]) /\ from[k] < to[k]
      BY <2>1, <3>5, <3>6
    <3> QED
      BY <3>1, <3>2, <3>3
  <2> QED
    BY <2>3, <2>4
<1>8. from[1] = 2 /\ to[n] = Len(s)
  <2>1. 1 \in 1..n /\ n \in 1..n
    BY <1>0
  <2>2. /\ from[1] = 2 + pos[1] - Len(texts[1]) /\ pos[1] = Len(texts[1]) /\ to[n] = 2 + pos[n]
        /\ pos[1] \in Nat /\ pos[n] \in Nat
    BY <1>5, <2>1
  <2> QED
    BY <1>2, <2>2
<1>9. ASSUME NEW k \in 1..(n - 1)
      PROVE  /\ from[k + 1] = to[k] + Len(d) /\ to[k] + Len(d) - 1 <= Len(s)
             /\ SubSeq(s, to[k], to[k] + Len(d) - 1) = d
  <2> DEFINE j == k + 1
  <2>1. j \in 1..n /\ k \in 1..n /\ j # 1 /\ j - 1 = k
    BY <1>0
  <2> HIDE DEF j
  <2>2. /\ pos[j] = pos[k] + Len(d) + Len(texts[j]) /\ Has(s, 1 + pos[k], d)
        /\ from[j] = 2 + pos[j] - Len(texts[j]) /\ to[k] = 2 + pos[k] /\ pos[k] \in Nat
        /\ pos[j] + 1 < Len(s) /\ pos[j] \in Nat /\ Len(texts[j]) \in Nat
    BY <1>3, <1>5, <2>1
  <2>7. /\ 2 + pos[j] - Len(texts[j]) = 2 + pos[k] + Len(d)
        /\ 2 + pos[k] + Len(d) - 1 <= Len(s)
        /\ 2 + pos[k] = 1 + pos[k] + 1 /\ 2 + pos[k] + Len(d) - 1 = 1 + pos[k] + Len(d)
    <3> DEFINE m == Len(d)
               t == Len(texts[j])
               p == pos[j]
               b == pos[k]
               z == Len(s)
    <3>1. /\ m \in Nat /\ t \in Nat /\ p \in Nat /\ b \in Nat /\ z \in Nat
          /\ p = b + m + t /\ p + 1 < z
      BY <1>l, <2>2
    <3> HIDE DEF m, t, p, b, z
    <3>2. /\ 2 + p - t = 2 + b + m /\ 2 + b + m - 1 <= z
          /\ 2 + b = 1 + b + 1 /\ 2 + b + m - 1 = 1 + b + m
      BY <3>1
    <3> QED
      BY <3>2 DEF m, t, p, b, z
  <2>3. from[j] = to[k] + Len(d) /\ to[k] + Len(d) - 1 <= Len(s)
    BY <2>2, <2>7
  <2>4. SubSeq(s, 1 + pos[k] + 1, 1 + pos[k] + Len(d)) = d
    BY <1>0, <1>2, <2>2, HasIs
  <2>5. to[k] = 1 + pos[k] + 1 /\ to[k] + Len(d) - 1 = 1 + pos[k] + Len(d)
    BY <2>2, <2>7
  <2>6. SubSeq(s, to[k], to[k] + Len(d) - 1) = d
    BY <2>4, <2>5
  <2> QED
    BY <2>3, <2>6 DEF j
<1>10. from \in [1..n -> Nat] /\ to \in [1..n -> Nat]
  <2>1. from = [k \in 1..n |-> from[k]] /\ to = [k \in 1..n |-> to[k]]
    BY DEF from, to
  <2> QED
    BY <1>6, <2>1
<1>11. PartsAt(s, texts, d, from, to)
  BY <1>0, <1>2, <1>3, <1>6, <1>8, <1>9, <1>10 DEF PartsAt
<1> QED
  BY <1>11

\* The text of an array is one of the elements of which its parts are the texts.
LEMMA ListWritten ==
    ASSUME NEW texts, NEW es, NEW d, TextsOf(texts, es, d), NEW s, s = Brackets(texts, d)
    PROVE  \E from, to : ListAt(s, d, es, from, to)
<1> DEFINE n == Len(es)
<1>0. /\ d \in Seq(Byte) \ {<<>>} /\ d[1] # RBrace
      /\ texts \in Seq(Seq(Byte)) /\ n \in Nat \ {0} /\ Len(texts) = n /\ es \in Seq(Seq(Int))
      /\ \A k \in 1..n : TextOf(texts[k], es[k], d[1])
  BY DEF TextsOf
<1>3. ASSUME NEW k \in 1..n
      PROVE  texts[k] # <<>> /\ TextOf(texts[k], es[k], d[1])
  BY <1>0, TextType
<1>4. PICK from, to : PartsAt(s, texts, d, from, to)
  BY <1>0, <1>3, Separations
<1>5. /\ s \in Seq(Byte) /\ from \in [1..n -> Nat] /\ to \in [1..n -> Nat]
      /\ s[1] = LBrace /\ from[1] = 2 /\ to[n] = Len(s) /\ s[Len(s)] = RBrace
  BY <1>0, <1>4 DEF PartsAt
<1>6. ASSUME NEW k \in 1..n
      PROVE  /\ from[k] > 0 /\ to[k] <= Len(s) /\ from[k] \in Nat /\ to[k] \in Nat
             /\ to[k] = from[k] + Len(texts[k]) /\ from[k] < to[k]
             /\ \E a : a + 1 = from[k] /\ Has(s, a, texts[k])
  BY <1>0, <1>4, <1>5 DEF PartsAt
<1>7. ASSUME NEW k \in 1..n
      PROVE  \/ \E q : QuotedAt(s, from[k], to[k], es[k], q)
             \/ PlainAt(s, d[1], from[k], to[k], es[k])
  <2>1. PICK a : a + 1 = from[k] /\ Has(s, a, texts[k])
    BY <1>6
  <2>2. to[k] = a + 1 + Len(texts[k]) /\ from[k] = a + 1
    BY <1>6, <2>1
  <2>3. TextOf(texts[k], es[k], d[1])
    BY <1>3
  <2>4. CASE \E parts : QuotedText(texts[k], es[k], parts)
    <3>1. \E q : QuotedAt(s, a + 1, a + 1 + Len(texts[k]), es[k], q)
      BY <1>5, <2>1, <2>4, QuotedPlace
    <3> QED
      BY <2>2, <3>1
  <2>5. CASE WordText(texts[k], es[k], d[1])
    <3>1. PlainAt(s, d[1], a + 1, a + 1 + Len(texts[k]), es[k])
      BY <1>5, <2>1, <2>5, WordPlace
    <3> QED
      BY <2>2, <3>1
  <2> QED
    BY <2>3, <2>4, <2>5 DEF TextOf
<1>8. \A k \in 1..(n - 1) :
          /\ from[k + 1] = to[k] + Len(d) /\ to[k] + Len(d) - 1 <= Len(s)
          /\ SubSeq(s, to[k], to[k] + Len(d) - 1) = d
  BY <1>0, <1>4, Zenon DEF PartsAt
<1>9. \A k \in 1..n : /\ from[k] < to[k] /\ to[k] <= Len(s) /\ from[k] > 0
                      /\ \/ \E q : QuotedAt(s, from[k], to[k], es[k], q)
                         \/ PlainAt(s, d[1], from[k], to[k], es[k])
  BY <1>6, <1>7
<1>10. ListAt(s, d, es, from, to)
  BY <1>0, <1>5, <1>8, <1>9, Zenon DEF ListAt
<1> QED
  BY <1>10

\* What parseArray makes of the text of an element.
ReadText(type, x) ==
    CASE type = "bytea" -> EncodeBytea(TRUE, x)
      [] type \in {"string", "generic", "fixed"} -> x
      [] OTHER -> ElementText(type, x)

\* No word of an array begins with what separates its elements.
FitsWords(type, d) ==
    /\ d \in Seq(Byte) \ {<<>>} /\ d[1] \notin {LBrace, RBrace}
    /\ IF type \in GenericTypes THEN \A k \in 1..4 : d[1] # NULL[k] ELSE d[1] = Comma

ReadsBack(type, x, d) ==
    /\ TextOf(PartOf(type, x, d), ReadText(type, x), d[1])
    /\ ScanElement(type, ReadText(type, x)) = {x}

\* No text is NULL.
LEMMA NotNil ==
    ASSUME NEW s \in Seq(Byte)
    PROVE  s # Nil
<1>1. SUFFICES ASSUME s = Nil PROVE FALSE
  OBVIOUS
<1>2. Len(s) = 1 /\ s[1] = -1
  BY <1>1 DEF Nil
<1>3. s[1] \in Byte
  BY <1>2, ElementOfSeq
<1> QED
  BY <1>2, <1>3 DEF Byte

\* In quotes is the element.
LEMMA QuotedIs ==
    ASSUME NEW x \in Seq(Byte), NEW del1
    PROVE  TextOf(AppendArrayQuotedBytes(x), x, del1)
<1> DEFINE parts == QuotedParts(x)
           text == AppendArrayQuotedBytes(x)
<1>1. /\ parts \in Seq(Seq(Byte)) /\ Len(parts) = Len(x)
      /\ \A k \in 1..Len(x) : parts[k] = ArrayBytes(x[k])
      /\ text = <<Quote>> \o FlattenSeq(parts) \o <<Quote>>
  BY QuotedPartsType
<1> HIDE DEF parts, text
<1>2. \A j \in 1..Len(x) : \/ parts[j] = <<x[j]>> /\ x[j] \notin {Quote, Bslash}
                           \/ parts[j] = <<Bslash, x[j]>>
  BY <1>1 DEF ArrayBytes, Escaped
<1>3. QuotedText(text, x, parts)
  BY <1>1, <1>2 DEF QuotedText
<1> QED
  BY <1>3 DEF TextOf, text

\* A number is written in one way.
LEMMA NumberReadsBack ==
    ASSUME NEW type \in {"int32", "int64", "float32", "float64"}, NEW x \in ArrayElement(type),
           NEW d, FitsWords(type, d)
    PROVE  ReadsBack(type, x, d)
<1>1. /\ PartOf(type, x, d) = NumberText(x) /\ ReadText(type, x) = NumberText(x)
      /\ \A e : ScanElement(type, e)
                    = {n.val : n \in {m \in Numbers : m.text = e /\ type \in m.types}}
      /\ x \in {n.val : n \in {m \in Numbers : type \in m.types}}
      /\ d[1] = Comma
  BY DEF PartOf, ReadText, ElementText, ScanElement, ArrayElement, FitsWords, GenericTypes
<1>2. PICK m \in Numbers : m.val = x /\ type \in m.types
  BY <1>1
<1> DEFINE t == m.text
<1>3. NumberText(x) = t
  <2> DEFINE c == CHOOSE n \in Numbers : n.val = x
  <2>1. c \in Numbers /\ c.val = x
    BY <1>2
  <2> HIDE DEF c
  <2>2. c = m
    BY <1>2, <2>1, NumbersAssumption
  <2> QED
    BY <2>2 DEF NumberText, c
<1>4. t \in Seq(Byte \ {Comma, Quote, LBrace, RBrace}) /\ t # <<>> /\ t # NULL
  BY <1>2, NumbersAssumption
<1>5. {n.val : n \in {k \in Numbers : k.text = t /\ type \in k.types}} = {x}
  BY <1>2, NumbersAssumption
<1> HIDE DEF t
<1>6. WordText(t, t, Comma)
  <2>1. t \in Seq(Byte)
    <3>1. Byte \ {Comma, Quote, LBrace, RBrace} \subseteq Byte
      OBVIOUS
    <3> QED
      BY <1>4, <3>1, SeqMonotonic
  <2>2. Len(t) \in Nat \ {0}
    BY <1>4, <2>1, EmptySeq, LenProperties
  <2>3. \A j \in 1..Len(t) : t[j] \in Byte \ {Comma, Quote, LBrace, RBrace}
    BY <1>4, ElementOfSeq
  <2>4. t[1] \notin {LBrace, Quote} /\ \A j \in 1..Len(t) : t[j] \notin {RBrace, Comma}
    BY <2>2, <2>3
  <2>5. t = WordOf(t)
    BY <1>4 DEF WordOf
  <2> QED
    BY <1>4, <2>1, <2>4, <2>5 DEF WordText
<1> QED
  BY <1>1, <1>3, <1>5, <1>6 DEF ReadsBack, TextOf

\* A bool is read back as it was,
LEMMA BoolReadsBack ==
    ASSUME NEW type \in {"bool"}, NEW x \in ArrayElement(type), NEW d, FitsWords(type, d)
    PROVE  ReadsBack(type, x, d)
<1> DEFINE t == IF x = <<1>> THEN <<116>> ELSE <<102>>
<1>1. /\ PartOf(type, x, d) = t /\ ReadText(type, x) = t
      /\ x \in {<<0>>, <<1>>} /\ d[1] = Comma
  <2>2. PartOf(type, x, d) = t
    BY DEF PartOf, ElementText
  <2>3. ReadText(type, x) = t
    BY DEF ReadText, ElementText
  <2>4. x \in {<<0>>, <<1>>}
    BY DEF ArrayElement, GenericTypes
  <2>5. d[1] = Comma
    BY DEF FitsWords, GenericTypes
  <2> HIDE DEF t
  <2> QED
    BY <2>2, <2>3, <2>4, <2>5
<1>2. /\ <<0>> # <<1>> /\ <<102>> # <<116>>
  OBVIOUS
<1>3. \A e : ScanElement(type, e)
                 = IF e = <<116>> THEN {<<1>>} ELSE IF e = <<102>> THEN {<<0>>} ELSE {}
  BY DEF ScanElement, GenericTypes
<1>4. t \in {<<102>>, <<116>>} /\ ScanElement(type, t) = {x}
  <2>1. CASE x = <<1>>
    BY <1>3, <2>1
  <2>2. CASE x = <<0>>
    BY <1>2, <1>3, <2>2
  <2> QED
    BY <1>1, <2>1, <2>2
<1> HIDE DEF t
<1>5. t \in Seq(Byte) /\ Len(t) = 1 /\ t[1] \in {102, 116}
  <2>0. 102 \in Byte /\ 116 \in Byte
    BY DEF Byte
  <2>1. <<102>> \in Seq(Byte) /\ <<116>> \in Seq(Byte)
    BY <2>0
  <2>2. CASE t = <<102>>
    BY <2>1, <2>2
  <2>3. CASE t = <<116>>
    BY <2>1, <2>3
  <2> QED
    BY <1>4, <2>2, <2>3
<1>6. WordText(t, t, Comma)
  <2>1. t # <<>>
    BY <1>5, EmptySeq, SMTT(30)
  <2>2. t # NULL
    BY <1>5 DEF NULL
  <2>3. t[1] \notin {LBrace, Quote, RBrace, Comma}
    BY <1>5 DEF LBrace, Quote, RBrace, Comma
  <2>4. \A j \in 1..Len(t) : j = 1
    BY <1>5
  <2> QED
    BY <1>5, <2>1, <2>2, <2>3, <2>4 DEF WordText, WordOf
<1> QED
  BY <1>1, <1>4, <1>6 DEF ReadsBack, TextOf

\* and so is a string,
LEMMA StringReadsBack ==
    ASSUME NEW type \in {"string"}, NEW x \in Seq(Byte), NEW d
    PROVE  ReadsBack(type, x, d)
<1>1. /\ PartOf(type, x, d) = AppendArrayQuotedBytes(x) /\ ReadText(type, x) = x
      /\ ScanElement(type, x) = {x} \ {Nil}
  BY DEF PartOf, ReadText, ElementText, ScanElement, GenericTypes
<1>2. TextOf(AppendArrayQuotedBytes(x), x, d[1])
  BY QuotedIs
<1>3. x # Nil
  BY NotNil
<1> QED
  BY <1>1, <1>2, <1>3 DEF ReadsBack

\* and what GenericArray has made a text of, or NULL.
LEMMA GenericReadsBack ==
    ASSUME NEW type \in {"generic", "fixed"}, NEW x \in Seq(Byte) \cup {Nil}, NEW d,
           FitsWords(type, d)
    PROVE  ReadsBack(type, x, d)
<1>1. /\ PartOf(type, x, d) = AppendArrayElement(x) /\ ReadText(type, x) = x
      /\ ScanElement(type, x) = {x}
  BY DEF PartOf, ReadText, ElementText, ScanElement, GenericTypes
<1>2. CASE x = Nil
  <2>1. AppendArrayElement(x) = NULL
    BY <1>2 DEF AppendArrayElement
  <2>2. /\ NULL \in Seq(Byte) /\ Len(NULL) = 4 /\ NULL # <<>>
        /\ \A j \in 1..4 : NULL[j] \in {78, 85, 76}
    BY DEF NULL, Byte
  <2>3. \A j \in 1..4 : NULL[j] # d[1]
    BY <1>1 DEF FitsWords, GenericTypes
  <2>4. \A j \in 1..4 : NULL[j] \notin {LBrace, Quote, RBrace}
    BY <2>2, SMTT(30) DEF LBrace, Quote, RBrace
  <2>5. 1 \in 1..4
    OBVIOUS
  <2>6. x = WordOf(NULL)
    BY <1>2 DEF WordOf
  <2>7. WordText(NULL, x, d[1])
    BY <2>2, <2>3, <2>4, <2>5, <2>6 DEF WordText
  <2> QED
    BY <1>1, <2>1, <2>7 DEF ReadsBack, TextOf
<1>3. CASE x # Nil
  <2>1. AppendArrayElement(x) = AppendArrayQuotedBytes(x)
    BY <1>3 DEF AppendArrayElement
  <2>2. TextOf(AppendArrayQuotedBytes(x), x, d[1])
    BY <1>3, QuotedIs
  <2> QED
    BY <1>1, <2>1, <2>2 DEF ReadsBack
<1> QED
  BY <1>2, <1>3

\* A text of which the first byte is escaped.
FirstParts(e) == [j \in 1..Len(e) |-> IF j = 1 THEN <<Bslash, e[j]>> ELSE <<e[j]>>]

\* What such a text is made of.
LEMMA FirstEscaped ==
    ASSUME NEW e \in Seq(Byte), Len(e) # 0, NEW parts, parts = FirstParts(e),
           NEW w, w = FlattenSeq(parts)
    PROVE  /\ parts \in Seq(Seq(Byte)) /\ Len(parts) = Len(e) /\ w \in Seq(Byte)
           /\ Len(w) = Len(e) + 1 /\ w[1] = Bslash /\ \A j \in 1..Len(e) : w[j + 1] = e[j]
<1> DEFINE n == Len(e)
<1>0. n \in Nat \ {0} /\ \A j \in 1..n : e[j] \in Byte
  BY LenProperties, ElementOfSeq
<1>1. ASSUME NEW j \in 1..n
      PROVE  /\ parts[j] \in Seq(Byte) /\ Len(parts[j]) = (IF j = 1 THEN 2 ELSE 1)
             /\ j = 1 => parts[j][1] = Bslash /\ parts[j][2] = e[j]
             /\ j # 1 => parts[j][1] = e[j]
  <2> DEFINE b == e[j]
  <2>1. b \in Byte /\ Bslash \in Byte /\ parts[j] = IF j = 1 THEN <<Bslash, b>> ELSE <<b>>
    BY <1>0 DEF FirstParts, Bslash, Byte
  <2> HIDE DEF b
  <2>2. CASE j = 1
    BY <2>1, <2>2 DEF b
  <2>3. CASE j # 1
    BY <2>1, <2>3 DEF b
  <2> QED
    BY <2>2, <2>3
<1>2. parts \in Seq(Seq(Byte)) /\ Len(parts) = n
  <2>1. DOMAIN parts = 1..n /\ parts = [j \in 1..n |-> parts[j]]
    BY DEF FirstParts
  <2> QED
    BY <1>0, <1>1, <2>1
<1>3. PICK pos : Ends(parts, pos)
  BY <1>2, FlattenParts
<1>4. w \in Seq(Byte)
  BY <1>2, FlattenParts
<1>5. /\ pos[0] = 0 /\ pos[n] = Len(w) /\ pos \in [0..n -> Nat]
      /\ \A j \in 1..n : pos[j] = pos[j - 1] + Len(parts[j]) /\ Has(w, pos[j - 1], parts[j])
  BY <1>2, <1>3 DEF Ends
<1>6. \A j \in 0..n : pos[j] = IF j = 0 THEN 0 ELSE j + 1
  <2> DEFINE T == {j \in 0..n : pos[j] = IF j = 0 THEN 0 ELSE j + 1}
  <2>1. 0 \in T
    BY <1>0, <1>5
  <2>2. ASSUME NEW j \in 1..n, j - 1 \in T PROVE j \in T
    <3>1. j \in 0..n /\ pos[j - 1] = (IF j = 1 THEN 0 ELSE j) /\ pos[j] = pos[j - 1] + Len(parts[j])
      BY <1>0, <1>5, <2>2
    <3>2. Len(parts[j]) = IF j = 1 THEN 2 ELSE 1
      BY <1>1
    <3>3. pos[j] = j + 1
      BY <3>1, <3>2
    <3> QED
      BY <3>1, <3>3
  <2> HIDE DEF T
  <2>3. \A j \in 0..n : j \in T
    BY <1>0, <2>1, <2>2, UpTo
  <2> QED
    BY <2>3 DEF T
<1>7. Len(w) = n + 1
  <2>1. n \in 0..n /\ n # 0
    BY <1>0
  <2> QED
    BY <1>5, <1>6, <2>1
<1>8. ASSUME NEW j \in 1..n
      PROVE  w[j + 1] = e[j] /\ (j = 1 => w[1] = Bslash)
  <2>1. \A l \in 1..Len(parts[j]) : w[pos[j - 1] + l] = parts[j][l]
    BY <1>5 DEF Has
  <2>2. CASE j = 1
    <3>1. pos[j - 1] = 0 /\ 1 \in 1..Len(parts[j]) /\ 2 \in 1..Len(parts[j])
      BY <1>1, <1>5, <2>2
    <3>2. w[0 + 1] = Bslash /\ w[0 + 2] = e[j]
      BY <1>1, <2>1, <2>2, <3>1
    <3> QED
      BY <2>2, <3>2
  <2>3. CASE j # 1
    <3>1. j - 1 \in 0..n /\ j - 1 # 0 /\ j - 1 + 1 = j
      BY <1>0, <2>3
    <3>2. pos[j - 1] = j /\ 1 \in 1..Len(parts[j])
      BY <1>1, <1>6, <2>3, <3>1
    <3>3. w[j + 1] = e[j]
      BY <1>1, <2>1, <2>3, <3>2
    <3> QED
      BY <2>3, <3>3
  <2> QED
    BY <2>2, <2>3
<1>9. 1 \in 1..n
  BY <1>0
<1> QED
  BY <1>2, <1>4, <1>7, <1>8, <1>9

\* No digit is a quote or a backslash.
HexDigit == {c \in Byte : IsHex(c)}

\* The digits of a bytea in hex
LEMMA HexDigits ==
    ASSUME NEW x \in Seq(Byte)
    PROVE  FlattenSeq(HexParts(x)) \in Seq(HexDigit)
<1>1. ASSUME NEW b \in Byte PROVE Hex(b) \in Seq(HexDigit)
  <2> DEFINE u == Digit(b \div 16)
             v == Digit(b % 16)
  <2>1. u \in HexDigit /\ v \in HexDigit
    BY HexByte, HexNibble DEF HexDigit
  <2> HIDE DEF u, v
  <2>2. <<u, v>> \in Seq(HexDigit)
    BY <2>1
  <2> QED
    BY <2>2 DEF Hex, u, v
<1>2. /\ Len(HexParts(x)) = Len(x) /\ Len(x) \in Nat
      /\ \A k \in 1..Len(x) : x[k] \in Byte /\ HexParts(x)[k] = Hex(x[k])
      /\ HexParts(x) \in Seq(Seq(Byte))
  BY HexPartsType, LenProperties
<1>3. HexParts(x) \in Seq(Seq(HexDigit))
  <2>1. \A k \in 1..Len(x) : HexParts(x)[k] \in Seq(HexDigit)
    BY <1>1, <1>2
  <2>2. HexParts(x) = [k \in 1..Len(x) |-> HexParts(x)[k]]
    BY <1>2
  <2> HIDE DEF HexDigit
  <2> QED
    BY <1>2, <2>1, <2>2
<1> QED
  BY <1>3, FlattenParts

\* are no quotes and no backslashes.
LEMMA HexText ==
    ASSUME NEW h \in Seq(HexDigit)
    PROVE  h \in Seq(Byte) /\ \A j \in 1..Len(h) : h[j] \notin {Quote, Bslash}
<1>1. HexDigit \subseteq Byte /\ \A c \in HexDigit : c \notin {Quote, Bslash}
  BY SMTT(30) DEF HexDigit, IsHex, IsDigit, Quote, Bslash
<1> HIDE DEF HexDigit
<1> QED
  BY <1>1, SeqMonotonic, ElementOfSeq

\* The text of a bytea in an array: its backslash is escaped, and it is in quotes.
LEMMA ByteaPrefix ==
    ASSUME NEW h \in Seq(Byte)
    PROVE  LET e == <<Bslash, 120>> \o h
               b3 == <<Bslash, Bslash, 120>>
           IN  /\ e \in Seq(Byte) /\ Len(e) = Len(h) + 2 /\ e[1] = Bslash /\ e[2] = 120
               /\ b3 \o h \in Seq(Byte) /\ Len(b3 \o h) = Len(e) + 1 /\ (b3 \o h)[1] = Bslash
               /\ \A j \in 1..Len(e) : (b3 \o h)[j + 1] = e[j]
               /\ \A j \in 1..Len(e) : j > 2 => j - 2 \in 1..Len(h) /\ e[j] = h[j - 2]
<1> DEFINE b2 == <<Bslash, 120>>
           b3 == <<Bslash, Bslash, 120>>
           e == b2 \o h
           u == b3 \o h
<1>1. /\ b2 \in Seq(Byte) /\ Len(b2) = 2 /\ b2[1] = Bslash /\ b2[2] = 120
      /\ b3 \in Seq(Byte) /\ Len(b3) = 3 /\ b3[1] = Bslash /\ b3[2] = Bslash /\ b3[3] = 120
  BY DEF Bslash, Byte
<1> HIDE DEF b2, b3
<1>2. /\ e \in Seq(Byte) /\ Len(e) = 2 + Len(h) /\ Len(h) \in Nat
      /\ \A k \in 1..2 + Len(h) : e[k] = IF k <= 2 THEN b2[k] ELSE h[k - 2]
  <2>1. /\ e \in Seq(Byte) /\ Len(e) = Len(b2) + Len(h)
        /\ \A k \in 1..Len(b2) + Len(h) : e[k] = IF k <= Len(b2) THEN b2[k] ELSE h[k - Len(b2)]
    <3>1. b2 \in Seq(Byte) /\ h \in Seq(Byte) /\ e = b2 \o h
      BY <1>1
    <3> HIDE DEF e
    <3>2. /\ b2 \o h \in Seq(Byte) /\ Len(b2 \o h) = Len(b2) + Len(h)
          /\ \A k \in 1..Len(b2) + Len(h) :
                 (b2 \o h)[k] = IF k <= Len(b2) THEN b2[k] ELSE h[k - Len(b2)]
      BY <3>1, ConcatProperties
    <3> QED
      BY <3>1, <3>2
  <2>2. Len(b2) = 2 /\ Len(h) \in Nat
    BY <1>1, LenProperties
  <2> HIDE DEF e
  <2> QED
    BY <2>1, <2>2
<1>3. /\ u \in Seq(Byte) /\ Len(u) = 3 + Len(h)
      /\ \A k \in 1..3 + Len(h) : u[k] = IF k <= 3 THEN b3[k] ELSE h[k - 3]
  <2>1. /\ u \in Seq(Byte) /\ Len(u) = Len(b3) + Len(h)
        /\ \A k \in 1..Len(b3) + Len(h) : u[k] = IF k <= Len(b3) THEN b3[k] ELSE h[k - Len(b3)]
    <3>1. b3 \in Seq(Byte) /\ h \in Seq(Byte) /\ u = b3 \o h
      BY <1>1
    <3> HIDE DEF u
    <3>2. /\ b3 \o h \in Seq(Byte) /\ Len(b3 \o h) = Len(b3) + Len(h)
          /\ \A k \in 1..Len(b3) + Len(h) :
                 (b3 \o h)[k] = IF k <= Len(b3) THEN b3[k] ELSE h[k - Len(b3)]
      BY <3>1, ConcatProperties
    <3> QED
      BY <3>1, <3>2
  <2>2. Len(b3) = 3
    BY <1>1
  <2> HIDE DEF u
  <2> QED
    BY <2>1, <2>2
<1> HIDE DEF e, u
<1>4. e[1] = Bslash /\ e[2] = 120 /\ u[1] = Bslash
  BY <1>1, <1>2, <1>3
<1>5. ASSUME NEW j \in 1..Len(e)
      PROVE  u[j + 1] = e[j] /\ (j > 2 => j - 2 \in 1..Len(h) /\ e[j] = h[j - 2])
  <2>1. CASE j = 1
    BY <1>1, <1>2, <1>3, <2>1
  <2>2. CASE j = 2
    BY <1>1, <1>2, <1>3, <2>2
  <2>3. CASE j \notin {1, 2}
    <3>1. /\ j > 2 /\ j - 2 \in 1..Len(h) /\ j \in 1..2 + Len(h) /\ ~(j <= 2)
          /\ j + 1 \in 1..3 + Len(h) /\ ~(j + 1 <= 3) /\ j + 1 - 3 = j - 2
      BY <1>2, <2>3
    <3>2. e[j] = h[j - 2] /\ u[j + 1] = h[j + 1 - 3]
      BY <1>2, <1>3, <3>1
    <3> QED
      BY <3>1, <3>2
  <2> QED
    BY <2>1, <2>2, <2>3
<1>6. Len(e) = Len(h) + 2 /\ Len(u) = Len(e) + 1
  BY <1>2, <1>3
<1> QED
  BY <1>2, <1>3, <1>4, <1>5, <1>6 DEF e, u, b2, b3

\* The text of a bytea is read by parseArray as what encodeBytea has made,
LEMMA ByteaQuoted ==
    ASSUME NEW x \in Seq(Byte), NEW del1
    PROVE  /\ TextOf(ElementText("bytea", x), EncodeBytea(TRUE, x), del1)
           /\ EncodeBytea(TRUE, x) \in Seq(Byte)
<1> DEFINE h == FlattenSeq(HexParts(x))
           b2 == <<Bslash, 120>>
           b3 == <<Bslash, Bslash, 120>>
           q1 == <<Quote>>
           q4 == <<Quote, Bslash, Bslash, 120>>
           e == b2 \o h
           u == b3 \o h
           parts == FirstParts(e)
           w == FlattenSeq(parts)
<1>1. h \in Seq(Byte) /\ \A j \in 1..Len(h) : h[j] \notin {Quote, Bslash}
  BY HexDigits, HexText
<1>2. EncodeBytea(TRUE, x) = e
  BY DEF EncodeBytea, Each, HexParts
<1>3. ElementText("bytea", x) = q4 \o h \o q1
  BY Zenon DEF ElementText, Each, HexParts
<1> HIDE DEF h
<1>4. /\ e \in Seq(Byte) /\ Len(e) = Len(h) + 2 /\ e[1] = Bslash /\ e[2] = 120
      /\ u \in Seq(Byte) /\ Len(u) = Len(e) + 1 /\ u[1] = Bslash
      /\ \A j \in 1..Len(e) : u[j + 1] = e[j]
      /\ \A j \in 1..Len(e) : j > 2 => j - 2 \in 1..Len(h) /\ e[j] = h[j - 2]
  BY <1>1, ByteaPrefix
<1>5. /\ b3 \in Seq(Byte) /\ q1 \in Seq(Byte) /\ q4 = q1 \o b3
  <2>1. Quote \in Byte /\ Bslash \in Byte /\ 120 \in Byte
    BY DEF Quote, Bslash, Byte
  <2>2. q1 \in Seq(Byte) /\ b3 \in Seq(Byte)
    BY <2>1
  <2> DEFINE a == Quote
             b == Bslash
             c == 120
  <2>3. <<a>> \o <<b, b, c>> = <<a, b, b, c>>
    <3> HIDE DEF a, b, c
    <3>1. a \in Byte /\ b \in Byte /\ c \in Byte
      BY <2>1 DEF a, b, c
    <3>2. /\ Append(<<>>, a) = <<a>> /\ Append(<<a>>, b) = <<a, b>>
          /\ Append(<<a, b>>, b) = <<a, b, b>> /\ Append(<<a, b, b>>, c) = <<a, b, b, c>>
          /\ <<a>> \o <<b, b, c>> = <<a, b, b, c>>
      BY <3>1, Appends
    <3> QED
      BY <3>2
  <2> QED
    BY <2>2, <2>3
<1> HIDE DEF b2, b3, q1, q4, e, u
<1>6. Len(h) \in Nat /\ Len(e) # 0 /\ Len(e) \in Nat
  BY <1>1, <1>4, LenProperties
<1>7. /\ parts \in Seq(Seq(Byte)) /\ Len(parts) = Len(e) /\ w \in Seq(Byte)
      /\ Len(w) = Len(e) + 1 /\ w[1] = Bslash /\ \A j \in 1..Len(e) : w[j + 1] = e[j]
  BY <1>4, <1>6, FirstEscaped, SMTT(30)
<1>8. \A j \in 1..Len(e) : \/ parts[j] = <<e[j]>> /\ e[j] \notin {Quote, Bslash}
                           \/ parts[j] = <<Bslash, e[j]>>
  <2> TAKE j \in 1..Len(e)
  <2>1. parts[j] = IF j = 1 THEN <<Bslash, e[j]>> ELSE <<e[j]>>
    BY DEF FirstParts
  <2>2. j # 1 => e[j] \notin {Quote, Bslash}
    <3>1. CASE j = 2
      BY <1>4, <3>1 DEF Quote, Bslash
    <3>2. CASE j > 2
      BY <1>1, <1>4, <3>2, SMTT(30)
    <3> QED
      BY <1>6, <3>1, <3>2
  <2> HIDE DEF parts
  <2> QED
    BY <2>1, <2>2
<1> HIDE DEF parts, w
<1>9. u = w
  <2>1. ASSUME NEW j \in 1..Len(u) PROVE u[j] = w[j]
    <3>1. CASE j = 1
      BY <1>4, <1>7, <3>1
    <3>2. CASE j # 1
      <4> DEFINE l == j - 1
      <4>1. l \in 1..Len(e) /\ l + 1 = j
        BY <1>4, <1>6, <3>2
      <4> HIDE DEF l
      <4>2. u[l + 1] = w[l + 1]
        BY <1>4, <1>7, <4>1
      <4> QED
        BY <4>1, <4>2
    <3> QED
      BY <3>1, <3>2
  <2> QED
    BY <1>4, <1>7, <2>1, SeqEqual
<1>10. ElementText("bytea", x) = q1 \o w \o q1
  <2>1. u = b3 \o h
    BY DEF u
  <2>2. (q1 \o b3) \o h = q1 \o (b3 \o h)
    BY <1>1, <1>5, ConcatAssociative, SMTT(30)
  <2>3. q4 \o h = q1 \o w
    BY <1>5, <1>9, <2>1, <2>2
  <2> QED
    BY <1>3, <2>3, Zenon
<1>11. QuotedText(q1 \o w \o q1, e, parts)
  BY <1>4, <1>7, <1>8 DEF QuotedText, q1, w
<1> QED
  BY <1>2, <1>4, <1>10, <1>11, Zenon DEF TextOf

\* which is read back as the bytes they were.
LEMMA ByteaReadsBack ==
    ASSUME NEW type \in {"bytea"}, NEW x \in Seq(Byte), NEW d
    PROVE  ReadsBack(type, x, d)
<1> DEFINE e == EncodeBytea(TRUE, x)
           t == ElementText("bytea", x)
<1>1. PartOf(type, x, d) = t
  BY Zenon DEF PartOf, GenericTypes
<1>2. ReadText(type, x) = e
  BY Zenon DEF ReadText
<1>3. TextOf(t, e, d[1]) /\ e \in Seq(Byte)
  BY ByteaQuoted
<1>4. e # Nil /\ ParseBytea(e) = x /\ x # Error
  BY <1>3, NotNil, NotError, HexFormat
<1> HIDE DEF e, t
<1>5. ScanElement(type, e) = {x}
  <2>1. ScanElement(type, e) = IF e = Nil THEN {Nil} ELSE {ParseBytea(e)} \ {Error}
    BY DEF ScanElement, GenericTypes
  <2>2. {x} \ {Error} = {x}
    BY <1>4
  <2> QED
    BY <1>4, <2>1, <2>2, Zenon
<1> QED
  BY <1>1, <1>2, <1>3, <1>5, Zenon DEF ReadsBack

\* Each element of an array is read as it was.
LEMMA ElementReadsBack ==
    ASSUME NEW type \in ArrayTypes \ {"nested"}, NEW x \in ArrayElement(type), NEW d,
           FitsWords(type, d)
    PROVE  ReadsBack(type, x, d)
<1>1. CASE type \in {"int32", "int64", "float32", "float64"}
  BY <1>1, NumberReadsBack
<1>2. CASE type = "bool"
  BY <1>2, BoolReadsBack
<1>3. CASE type = "string"
  <2>1. x \in Seq(Byte)
    BY <1>3 DEF ArrayElement, GenericTypes
  <2> QED
    BY <1>3, <2>1, StringReadsBack
<1>4. CASE type = "bytea"
  <2>1. x \in Seq(Byte)
    BY <1>4 DEF ArrayElement, GenericTypes
  <2> QED
    BY <1>4, <2>1, ByteaReadsBack
<1>5. CASE type \in {"generic", "fixed"}
  <2>1. x \in Seq(Byte) \cup {Nil}
    BY <1>5 DEF ArrayElement, GenericTypes
  <2> QED
    BY <1>5, <2>1, GenericReadsBack
<1> QED
  BY <1>1, <1>2, <1>3, <1>4, <1>5 DEF ArrayTypes, LinearTypes, GenericTypes

ReadsOf(type, v) == [k \in DOMAIN v |-> ReadText(type, v[k])]

\* The texts of the elements of an array.
LEMMA ArrayTexts ==
    ASSUME NEW type \in ArrayTypes \ {"nested"}, NEW v \in Seq(ArrayElement(type)), NEW d,
           FitsWords(type, d)
    PROVE  /\ Len(v) \in Nat
           /\ PartsOf(type, v, d) \in Seq(Seq(Byte)) /\ Len(PartsOf(type, v, d)) = Len(v)
           /\ v # <<>> => TextsOf(PartsOf(type, v, d), ReadsOf(type, v), d)
<1> DEFINE texts == PartsOf(type, v, d)
           es == ReadsOf(type, v)
           n == Len(v)
           M == ArrayElement(type)
<1>0. n \in Nat /\ DOMAIN v = 1..n /\ v \in Seq(M)
  BY LenProperties
<1>1. ASSUME NEW k \in 1..n
      PROVE  /\ texts[k] = PartOf(type, v[k], d) /\ es[k] = ReadText(type, v[k])
             /\ ReadsBack(type, v[k], d)
  <2>1. v[k] \in M
    <3> HIDE DEF M
    <3> QED
      BY <1>0, ElementOfSeq
  <2>2. ReadsBack(type, v[k], d)
    BY <2>1, ElementReadsBack
  <2>3. texts[k] = PartOf(type, v[k], d) /\ es[k] = ReadText(type, v[k])
    BY <1>0 DEF PartsOf, ReadsOf
  <2> QED
    BY <2>2, <2>3
<1>2. /\ DOMAIN texts = 1..n /\ texts = [k \in 1..n |-> texts[k]]
      /\ DOMAIN es = 1..n /\ es = [k \in 1..n |-> es[k]]
  BY <1>0 DEF PartsOf, ReadsOf
<1> HIDE DEF texts, es, M
<1>3. \A k \in 1..n : TextOf(texts[k], es[k], d[1])
  BY <1>1 DEF ReadsBack
<1>4. \A k \in 1..n : texts[k] \in Seq(Byte) /\ es[k] \in Seq(Int)
  BY <1>3, TextType
<1>5. texts \in Seq(Seq(Byte)) /\ Len(texts) = n
  BY <1>0, <1>2, <1>4
<1>6. es \in Seq(Seq(Int)) /\ Len(es) = n
  BY <1>0, <1>2, <1>4
<1>7. ASSUME v # <<>> PROVE TextsOf(texts, es, d)
  <2>1. n # 0
    <3>1. v \in Seq(M)
      BY <1>0
    <3> QED
      BY <1>7, <3>1, EmptySeq
  <2>2. d \in Seq(Byte) \ {<<>>} /\ d[1] # RBrace
    BY DEF FitsWords
  <2> QED
    BY <1>0, <1>3, <1>5, <1>6, <2>1, <2>2 DEF TextsOf
<1> QED
  BY <1>0, <1>5, <1>7 DEF texts, es

\* What Scan makes of the texts of an array is the array, or an error if it is of
\* another length than the Go array.
LEMMA ScanReads ==
    ASSUME NEW type \in ArrayTypes \ {"nested"}, NEW v \in Seq(ArrayElement(type)), NEW d,
           FitsWords(type, d), NEW length, length = IF v = <<>> THEN <<>> ELSE <<Len(v)>>
    PROVE  ScanArray(type, length, ReadsOf(type, v))
               = IF type = "fixed" /\ Len(v) # FixedLength THEN {} ELSE {v}
<1> DEFINE texts == ReadsOf(type, v)
           n == Len(v)
           M == ArrayElement(type)
           scanned == [k \in DOMAIN texts |-> ScanElement(type, texts[k])]
           dim == IF length = <<>> THEN 0 ELSE length[1]
           value == [k \in DOMAIN texts |-> CHOOSE w \in scanned[k] : TRUE]
<1>0. n \in Nat /\ DOMAIN v = 1..n /\ v \in Seq(M) /\ v = [k \in 1..n |-> v[k]]
  BY LenProperties
<1>1. ASSUME NEW k \in 1..n PROVE ScanElement(type, ReadText(type, v[k])) = {v[k]}
  <2>1. v[k] \in M
    <3> HIDE DEF M
    <3> QED
      BY <1>0, ElementOfSeq
  <2> QED
    BY <2>1, ElementReadsBack DEF ReadsBack
<1>2. DOMAIN texts = 1..n /\ \A k \in 1..n : texts[k] = ReadText(type, v[k])
  BY <1>0 DEF ReadsOf
<1> HIDE DEF texts, M
<1>3. \A k \in 1..n : scanned[k] = {v[k]}
  BY <1>1, <1>2
<1>4. value = v
  <2>1. \A k \in 1..n : (CHOOSE w \in scanned[k] : TRUE) = v[k]
    BY <1>3
  <2> HIDE DEF scanned
  <2> QED
    BY <1>0, <1>2, <2>1
<1>5. dim = n /\ ~(Len(length) > 1)
  <2>1. CASE v = <<>>
    <3>1. length = <<>> /\ n = 0 /\ Len(<<>>) = 0
      BY <2>1
    <3> QED
      BY <3>1
  <2>2. CASE v # <<>>
    <3>1. length = <<n>>
      BY <2>2
    <3>2. Len(<<n>>) = 1 /\ <<n>>[1] = n /\ <<n>> # <<>>
      OBVIOUS
    <3> QED
      BY <3>1, <3>2
  <2> QED
    BY <2>1, <2>2
<1>6. ~\E k \in DOMAIN texts : scanned[k] = {}
  BY <1>2, <1>3
<1>7. SubSeq(value, 1, dim) = v
  <2>1. SubSeq(v, 1, n) = v
    BY <1>0, Prefix
  <2> HIDE DEF value, dim
  <2> QED
    BY <1>4, <1>5, <2>1
<1>8. ScanArray(type, length, texts)
          = IF \/ Len(length) > 1
               \/ type = "fixed" /\ dim # FixedLength
               \/ \E k \in DOMAIN texts : scanned[k] = {}
            THEN {}
            ELSE IF type \in GenericTypes THEN {SubSeq(value, 1, dim)} ELSE {value}
  BY Zenon DEF ScanArray
<1> HIDE DEF scanned, dim, value
<1>9. ScanArray(type, length, texts)
          = IF type = "fixed" /\ n # FixedLength THEN {} ELSE {v}
  BY <1>4, <1>5, <1>6, <1>7, <1>8, Zenon
<1> QED
  BY <1>9 DEF texts

--------------------------------------------------------------------------------

\* Where parseArray is in the text of an empty array.
EmptyPlace ==
    /\ src = <<LBrace, RBrace>> /\ dims = <<>> /\ elems = <<>>
    /\ \/ pc \in {"start", "open"} /\ i = 1 /\ depth = 0
       \/ pc \in {"open", "close"} /\ i = 2 /\ depth = 1
       \/ pc \in {"close", "done"} /\ i = 3 /\ depth = 0

\* parseArray goes through an array without elements.
LEMMA EmptyStep == ASSUME EmptyPlace, Next PROVE EmptyPlace'
<1>1. /\ Len(src) = 2 /\ src[1] = LBrace /\ src[2] = RBrace /\ LBrace # RBrace
      /\ dims = <<>> /\ elems = <<>> /\ src = <<LBrace, RBrace>> /\ Len(dims) = 0
  BY DEF EmptyPlace, LBrace, RBrace
<1>a. /\ pc = "start" => i = 1 /\ depth = 0
      /\ pc = "open" /\ i = 1 => depth = 0
      /\ pc = "open" /\ i = 2 => depth = 1
      /\ pc = "open" => i \in {1, 2}
      /\ pc = "close" /\ i = 2 => depth = 1
      /\ pc = "close" /\ i = 3 => depth = 0
      /\ pc = "close" => i \in {2, 3}
      /\ pc \in {"start", "open", "close", "done"}
  BY DEF EmptyPlace
<1>2. CASE pc = "start"
  <2>0. Start
    BY <1>2 DEF Next, Open, ElementOpens, ElementStarts, Quoted, Plain, After, Close
  <2>1. Start /\ i = 1 /\ depth = 0
    BY <1>a, <1>2, <2>0
  <2>2. At(LBrace)
    BY <1>1, <2>1 DEF At, AtEnd
  <2>3. pc' = "open" /\ UNCHANGED <<src, i, depth, dims, elems>>
    BY <2>1, <2>2 DEF Start, Goes
  <2> QED
    BY <1>1, <2>1, <2>3 DEF EmptyPlace
<1>3. CASE pc = "open"
  <2>1. Open
    BY <1>3 DEF Next, Start, ElementOpens, ElementStarts, Quoted, Plain, After, Close
  <2>2. CASE i = 1
    <3>1. At(LBrace) /\ ~At(RBrace) /\ depth = 0
      BY <1>a, <1>1, <1>3, <2>2 DEF At, AtEnd
    <3>2. depth' = 1 /\ i' = 2 /\ UNCHANGED <<src, pc, dims, elems>>
      <4>1. depth' = depth + 1 /\ i' = i + 1 /\ UNCHANGED <<src, pc, dims, elems>>
        BY <2>1, <3>1 DEF Open
      <4> QED
        BY <2>2, <3>1, <4>1
    <3> QED
      BY <1>1, <1>3, <3>2 DEF EmptyPlace
  <2>3. CASE i = 2
    <3>1. At(RBrace) /\ ~At(LBrace) /\ depth = 1
      BY <1>a, <1>1, <1>3, <2>3 DEF At, AtEnd
    <3>2. pc' = "close" /\ UNCHANGED <<src, i, depth, dims, elems>>
      BY <2>1, <3>1 DEF Open, Goes
    <3> QED
      BY <1>1, <2>3, <3>1, <3>2 DEF EmptyPlace
  <2> QED
    BY <1>a, <1>3, <2>2, <2>3
<1>4. CASE pc = "close"
  <2>1. Close
    BY <1>4 DEF Next, Start, Open, ElementOpens, ElementStarts, Quoted, Plain, After
  <2>2. CASE i = 2
    <3>1. At(RBrace) /\ ~AtEnd /\ depth = 1
      BY <1>a, <1>1, <1>4, <2>2 DEF At, AtEnd
    <3>2. depth' = 0 /\ i' = 3 /\ UNCHANGED <<src, pc, dims, elems>>
      <4>1. depth' = depth - 1 /\ i' = i + 1 /\ UNCHANGED <<src, pc, dims, elems>>
        BY <2>1, <3>1 DEF Close
      <4> QED
        BY <2>2, <3>1, <4>1
    <3> QED
      BY <1>1, <1>4, <3>2 DEF EmptyPlace
  <2>3. CASE i = 3
    <3>1. AtEnd /\ depth = 0
      BY <1>a, <1>1, <1>4, <2>3 DEF AtEnd
    <3>2. \A k \in 1..Len(dims) : Divides(dims[k], Len(elems))
      BY <1>1
    <3>3. Goes("done")
      BY <2>1, <3>1, <3>2 DEF Close
    <3> QED
      BY <1>1, <2>3, <3>1, <3>3 DEF EmptyPlace, Goes
  <2> QED
    BY <1>a, <1>4, <2>2, <2>3
<1>5. CASE pc = "done"
  BY <1>5 DEF Next, Start, Open, ElementOpens, ElementStarts, Quoted, Plain, After, Close
<1> QED
  BY <1>a, <1>2, <1>3, <1>4, <1>5

\* Nothing separates the elements of an array that has none.
LEMMA EmptyWritten ==
    ASSUME NEW d
    PROVE  Brackets(<<>>, d) = <<LBrace, RBrace>>
<1>1. Separated(<<>>, d) = <<>>
  <2>1. DOMAIN <<>> = {}
    OBVIOUS
  <2> QED
    BY <2>1 DEF Separated
<1>2. FlattenSeq(<<>>) = <<>>
  BY DEF FlattenSeq
<1> DEFINE l == <<LBrace>>
           r == <<RBrace>>
           u == <<LBrace, RBrace>>
<1>3. /\ l \in Seq(Byte) /\ Len(l) = 1 /\ l[1] = LBrace
      /\ r \in Seq(Byte) /\ Len(r) = 1 /\ r[1] = RBrace
      /\ u \in Seq(Byte) /\ Len(u) = 2 /\ u[1] = LBrace /\ u[2] = RBrace
  BY DEF LBrace, RBrace, Byte
<1>4. Brackets(<<>>, d) = (l \o <<>>) \o r
  BY <1>1, <1>2, BracketsIs
<1> HIDE DEF l, r, u
<1>5. l \o <<>> = l
  BY <1>3, ConcatEmptySeq
<1>6. l \o r = u
  <2>1. Len(u) = Len(l) + Len(r)
    BY <1>3
  <2>2. \A k \in 1..Len(l) + Len(r) : u[k] = IF k <= Len(l) THEN l[k] ELSE r[k - Len(l)]
    BY <1>3
  <2> QED
    BY <1>3, <2>1, <2>2, ConcatIs
<1> QED
  BY <1>4, <1>5, <1>6 DEF u

--------------------------------------------------------------------------------
(* Every format, as a conversation                                            *)

\* What is given is one of the values of its kind.
TextInv ==
    /\ given.kind = "copy" => given.val \in CopyRows
    /\ given.kind = "bytea" => given.val \in Seq(Byte) /\ given.hex \in BOOLEAN
    /\ given.kind \in {"identifier", "literal"} => given.val \in Seq(Byte)
    /\ src = Written(given, del)

\* At first nothing has been read.
LEMMA TextInit == FInit => TextInv /\ TextRoundTrip
<1> SUFFICES ASSUME FInit PROVE TextInv /\ TextRoundTrip
  OBVIOUS
<1>1. src = Written(given, del) /\ read = "no"
  BY DEF FInit
<1>2. CASE \E r \in Rows : given = [kind |-> "copy", val |-> r]
  <2>1. given.kind = "copy" /\ given.val \in Rows
    BY <1>2
  <2> QED
    BY <1>1, <2>1, RowsAssumption DEF TextInv, TextRoundTrip, CopyRows
<1>3. CASE \E h \in BOOLEAN, b \in Byteas : given = [kind |-> "bytea", hex |-> h, val |-> b]
  <2>1. given.kind = "bytea" /\ given.val \in Byteas /\ given.hex \in BOOLEAN
    BY <1>3
  <2> QED
    BY <1>1, <2>1, BytesAssumption DEF TextInv, TextRoundTrip
<1>4. CASE \E k \in {"identifier", "literal"}, n \in Names : given = [kind |-> k, val |-> n]
  <2>1. given.kind \in {"identifier", "literal"} /\ given.val \in Names
    BY <1>4
  <2> QED
    BY <1>1, <2>1, BytesAssumption DEF TextInv, TextRoundTrip
<1>5. CASE given.kind \in {"array", "text", "settings", "entry", "written_time", "server_time"}
  BY <1>1, <1>5 DEF TextInv, TextRoundTrip
<1> QED
  <2>1. CASE \/ \E a \in GivenArrays : given = [kind |-> "array", type |-> a.type, val |-> a.val]
             \/ \E a \in NestedArrays : given = [kind |-> "array", type |-> "nested", val |-> a]
             \/ \E t \in ReadAs, s \in Sources : given = [kind |-> "text", type |-> t, val |-> s]
             \/ \E s \in Settings : given = [kind |-> "settings", val |-> s]
             \/ \E e \in Entries : given = [kind |-> "entry", val |-> e]
             \/ \E k \in {"written_time", "server_time"}, t \in Timestamps :
                    given = [kind |-> k, val |-> t]
    <3>1. given.kind \in {"array", "text", "settings", "entry", "written_time", "server_time"}
      BY <2>1
    <3> QED
      BY <1>5, <3>1
  <2> QED
    BY <1>2, <1>3, <1>4, <2>1 DEF FInit

\* No step changes what is given, nor what is written of it.
LEMMA GivenStep ==
    ASSUME [FNext]_fvars
    PROVE  UNCHANGED <<given, src, del>>
<1>1. Next => UNCHANGED <<src, del>>
  BY DEF Next, Start, Open, ElementOpens, ElementStarts, Quoted, Plain, After, Close, Goes, Fails,
         input
<1>2. Parses => UNCHANGED <<given, src, del>>
  BY <1>1 DEF Parses
<1>3. \A v : Reads(v) => UNCHANGED <<given, src, del>>
  BY DEF Reads, vars, input
<1>4. Refuses => UNCHANGED <<given, src, del>>
  BY DEF Refuses, vars, input
<1>5. ScanNull \/ Scan => UNCHANGED <<given, src, del>>
  BY <1>3, <1>4 DEF ScanNull, Scan
<1>6. ReadCopy \/ ReadBytea \/ ReadName \/ ReadSettings \/ ReadEntry \/ ReadTime
          => UNCHANGED <<given, src, del>>
  BY <1>3, <1>4 DEF ReadCopy, ReadBytea, ReadName, ReadSettings, ReadEntry, ReadTime
<1>7. UNCHANGED fvars => UNCHANGED <<given, src, del>>
  BY DEF fvars, vars, input
<1> QED
  BY <1>2, <1>5, <1>6, <1>7 DEF FNext

\* Whatever is read, is what was given.
LEMMA TextStep ==
    ASSUME TextInv, TextRoundTrip, [FNext]_fvars
    PROVE  TextInv' /\ TextRoundTrip'
<1>1. UNCHANGED <<given, src, del>>
  BY GivenStep
<1>2. TextInv'
  <2>1. given' = given /\ src' = src /\ del' = del
    BY <1>1
  <2>2. src' = Written(given', del')
    BY <2>1, Zenon DEF TextInv
  <2>3. src' = Written(given, del)'
    BY <2>2
  <2>4. /\ given'.kind = "copy" => given'.val \in CopyRows
        /\ given'.kind = "bytea" => given'.val \in Seq(Byte) /\ given'.hex \in BOOLEAN
        /\ given'.kind \in {"identifier", "literal"} => given'.val \in Seq(Byte)
    BY <2>1, Zenon DEF TextInv
  <2> QED
    BY <2>3, <2>4, Zenon DEF TextInv
<1>3. CASE UNCHANGED <<result, read>>
  <2>1. given' = given /\ result' = result /\ read' = read
    BY <1>1, <1>3
  <2>2. CopyArrives => CopyArrives'
    BY <2>1, Zenon DEF CopyArrives
  <2> QED
    BY <1>2, <2>1, <2>2 DEF TextRoundTrip
<1>4. CASE ReadCopy
  <2> DEFINE rows == given.val
  <2>1. given.kind = "copy" /\ result' = ReadRows(src)
    BY <1>4 DEF ReadCopy, Reads
  <2>2. rows \in CopyRows /\ src = FlattenSeq([k \in DOMAIN rows |-> CopyRow(rows[k])])
    BY <2>1 DEF TextInv, Written
  <2>3. result' = ReadRows(FlattenSeq([k \in DOMAIN rows |-> CopyRow(rows[k])]))
    BY <2>1, <2>2
  <2>4. /\ Len(result') = Len(rows)
        /\ \A r \in DOMAIN result' :
               /\ Len(result'[r]) = Len(rows[r])
               /\ \A k \in DOMAIN result'[r] : Arrived(rows[r][k], result'[r][k])
    <3> HIDE DEF rows
    <3> QED
      BY <2>2, <2>3, RowsArrive
  <2>5. CopyArrives'
    BY <1>1, <2>4 DEF CopyArrives, Arrived
  <2> QED
    BY <1>1, <1>2, <2>1, <2>5 DEF TextRoundTrip
<1>5. CASE ReadBytea
  <2> DEFINE v == given.val
  <2>1. given.kind = "bytea" /\ v \in Seq(Byte) /\ src = EncodeBytea(given.hex, v)
        /\ given.hex \in BOOLEAN
    BY <1>5 DEF ReadBytea, TextInv, Written
  <2>2. ParseBytea(src) = v
    <3>1. CASE given.hex = TRUE
      BY <2>1, <3>1, HexFormat, Zenon
    <3>2. CASE given.hex = FALSE
      BY <2>1, <3>2, EscapeFormat, Zenon
    <3> QED
      BY <2>1, <3>1, <3>2, Zenon
  <2>3. v # Error
    BY <2>1, NotError
  <2>4. read' = "yes" /\ result' = v
    BY <1>5, <2>2, <2>3 DEF ReadBytea, Reads
  <2> QED
    BY <1>1, <1>2, <2>1, <2>4 DEF TextRoundTrip
<1>6. CASE ReadName
  <2> DEFINE v == given.val
  <2>1. given.kind \in {"identifier", "literal"} /\ v \in Seq(Byte)
    BY <1>6 DEF ReadName, TextInv
  <2>2. CASE given.kind = "identifier"
    <3>1. src = QuoteIdentifier(v) /\ result' = ReadQuoted(src, Quote, FALSE)
      BY <1>6, <2>2 DEF ReadName, Reads, TextInv, Written
    <3>2. result' = BeforeZero(v)
      BY <2>1, <3>1, IdentifierRead
    <3> QED
      BY <1>1, <1>2, <2>2, <3>2 DEF TextRoundTrip
  <2>3. CASE given.kind = "literal"
    <3>1. src = QuoteLiteral(v)
      BY <2>3 DEF TextInv, Written
    <3>2. Contains(src, 0) <=> Contains(v, 0)
      BY <2>1, <3>1, LiteralHolds
    <3>3. CASE Contains(src, 0)
      <4>1. read' = "failed"
        BY <1>6, <2>3, <3>3 DEF ReadName, Refuses
      <4> QED
        BY <1>1, <1>2, <2>3, <3>2, <3>3, <4>1 DEF TextRoundTrip
    <3>4. CASE ~Contains(src, 0)
      <4>1. result' = ReadLiteral(src)
        BY <1>6, <2>3, <3>4 DEF ReadName, Reads
      <4>2. result' = v
        BY <2>1, <3>1, <4>1, LiteralRead
      <4> QED
        BY <1>1, <1>2, <2>3, <3>2, <3>4, <4>2 DEF TextRoundTrip
    <3> QED
      BY <3>3, <3>4
  <2> QED
    BY <2>1, <2>2, <2>3
<1>7. CASE ScanNull \/ Scan \/ ReadSettings \/ ReadEntry \/ ReadTime
  <2>1. given.kind \in {"array", "text", "settings", "entry", "written_time", "server_time"}
    BY <1>7 DEF ScanNull, Scan, ReadSettings, ReadEntry, ReadTime, IsArray
  <2> QED
    BY <1>1, <1>2, <2>1 DEF TextRoundTrip
<1>8. Parses \/ UNCHANGED fvars => UNCHANGED <<result, read>>
  BY DEF Parses, fvars
<1> QED
  BY <1>2, <1>3, <1>4, <1>5, <1>6, <1>7, <1>8 DEF FNext

\* Whatever has been read of COPY data, of a bytea or of a quoted name or literal is what
\* was written, but for a zero byte in a name, which ends it, and in a literal, which
\* makes it an error: for every row, every text and every byte (encode.go:207-260 and
\* 617-690, copy.go:278-289, conn.go:1236-1290).
THEOREM TextArrives == FSpec => []TextRoundTrip
<1>1. TextInv /\ TextRoundTrip /\ [FNext]_fvars => TextInv' /\ TextRoundTrip'
  BY TextStep
<1> QED
  BY <1>1, TextInit, PTL DEF FSpec

\* No delimiter begins with a bracket, or like a byte of NULL.
PlainDelimiters ==
    \A d \in Delimiters : d[1] \notin {LBrace, RBrace} /\ \A k \in 1..4 : d[1] # NULL[k]

\* Where parseArray is in what Value has written of v.
OnArray(type, v) ==
    IF v = NilArray THEN src = Nil /\ pc = "start"
    ELSE IF v = <<>> THEN EmptyPlace
    ELSE \E from, to : LET es == ReadsOf(type, v)
                       IN  ListAt(src, del, es, from, to) /\ Place(es, from, to)

IsLinear == given.kind = "array" /\ given.type # "nested"
ArrayInv ==
    IsLinear => /\ given.type \in ArrayTypes \ {"nested"}
                /\ given.val \in Seq(ArrayElement(given.type)) \cup {NilArray}
                /\ FitsWords(given.type, del)
                /\ OnArray(given.type, given.val)
LinearRoundTrip == IsLinear => ArrayRoundTrip

\* The text of an array is one, and parseArray is at its beginning.
LEMMA WrittenOn ==
    ASSUME NEW type \in ArrayTypes \ {"nested"},
           NEW v \in Seq(ArrayElement(type)) \cup {NilArray},
           FitsWords(type, del), src = ArrayValue(type, v, del), Begins
    PROVE  OnArray(type, v)
<1> DEFINE texts == PartsOf(type, v, del)
           es == ReadsOf(type, v)
<1>1. CASE v = NilArray
  <2>1. src = Nil
    BY <1>1, ArrayValueIs
  <2> QED
    BY <1>1, <2>1 DEF OnArray, Begins
<1>2. CASE v # NilArray
  <2>1. v \in Seq(ArrayElement(type)) /\ src = Brackets(texts, del)
    BY <1>2, ArrayValueIs
  <2>2. CASE v = <<>>
    <3>1. texts = <<>>
      <4>1. DOMAIN <<>> = {}
        OBVIOUS
      <4> QED
        BY <2>2, <4>1 DEF PartsOf
    <3>2. src = <<LBrace, RBrace>>
      BY <2>1, <3>1, EmptyWritten
    <3>3. EmptyPlace
      BY <3>2 DEF EmptyPlace, Begins
    <3> QED
      BY <1>2, <2>2, <3>3 DEF OnArray
  <2>3. CASE v # <<>>
    <3>1. TextsOf(texts, es, del)
      BY <2>1, <2>3, ArrayTexts
    <3> HIDE DEF texts, es
    <3>2. PICK from, to : ListAt(src, del, es, from, to)
      BY <2>1, <3>1, ListWritten
    <3>3. Place(es, from, to)
      BY DEF Place, AtOpening, Begins
    <3> QED
      BY <1>2, <2>3, <3>2, <3>3 DEF OnArray, es
  <2> QED
    BY <2>2, <2>3
<1> QED
  BY <1>1, <1>2

\* At first parseArray is at the beginning of what Value has written.
LEMMA ArrayInit == ASSUME PlainDelimiters, FInit PROVE ArrayInv /\ LinearRoundTrip
<1>1. src = Written(given, del) /\ Begins /\ read = "no"
  BY DEF FInit
<1>2. LinearRoundTrip
  BY <1>1 DEF LinearRoundTrip, ArrayRoundTrip
<1>3. ASSUME IsLinear PROVE ArrayInv
  <2>1. PICK a \in GivenArrays : given = [kind |-> "array", type |-> a.type, val |-> a.val]
    BY <1>3 DEF FInit, IsLinear
  <2>2. given.type = a.type /\ given.val = a.val /\ given.kind = "array"
    BY <2>1
  <2>3. /\ given.type \in ArrayTypes \ {"nested"}
        /\ given.val \in Seq(ArrayElement(given.type)) \cup {NilArray}
    BY <2>1, <2>2, ArraysAssumption
  <2>4. del \in IF given.type \in GenericTypes THEN Delimiters ELSE {<<Comma>>}
    BY <2>2 DEF FInit, IsArray
  <2>5. FitsWords(given.type, del)
    <3>1. CASE given.type \in GenericTypes
      BY <2>4, <3>1, DelimitersAssumption DEF PlainDelimiters, FitsWords
    <3>2. CASE given.type \notin GenericTypes
      <4>1. del = <<Comma>>
        BY <2>4, <3>2
      <4>2. Comma \in Byte /\ Comma \notin {LBrace, RBrace}
        BY DEF Comma, Byte, LBrace, RBrace
      <4>3. del \in Seq(Byte) \ {<<>>} /\ del[1] = Comma
        BY <4>1, <4>2
      <4> QED
        BY <3>2, <4>2, <4>3 DEF FitsWords
    <3> QED
      BY <3>1, <3>2
  <2>6. src = ArrayValue(given.type, given.val, del)
    BY <1>1, <2>2, Zenon DEF Written
  <2>7. OnArray(given.type, given.val)
    BY <1>1, <2>3, <2>5, <2>6, WrittenOn
  <2> QED
    BY <2>3, <2>5, <2>7 DEF ArrayInv
<1> QED
  BY <1>2, <1>3 DEF ArrayInv

\* A step of parseArray goes on in the text,
LEMMA OnArrayStep ==
    ASSUME NEW type, NEW v, OnArray(type, v), src # Nil, Next
    PROVE  OnArray(type, v)' /\ UNCHANGED <<src, del>>
<1>0. UNCHANGED <<src, del>>
  BY DEF Next, Start, Open, ElementOpens, ElementStarts, Quoted, Plain, After, Close, Goes, Fails
<1>1. v # NilArray
  BY DEF OnArray
<1>2. CASE v = <<>>
  <2>1. EmptyPlace'
    BY <1>1, <1>2, EmptyStep DEF OnArray
  <2> QED
    BY <1>0, <1>1, <1>2, <2>1 DEF OnArray
<1>3. CASE v # <<>>
  <2> DEFINE es == ReadsOf(type, v)
  <2>1. PICK from, to : ListAt(src, del, es, from, to) /\ Place(es, from, to)
    BY <1>1, <1>3 DEF OnArray
  <2> HIDE DEF es
  <2>2. Place(es, from, to)'
    BY <2>1, PlaceStep
  <2>3. ListAt(src, del, es, from, to)'
    <3>1. src' = src /\ del' = del
      BY <1>0
    <3> QED
      BY <2>1, <3>1
  <2>4. v # NilArray /\ v # <<>>
    BY <1>1, <1>3
  <2> QED
    BY <1>0, <2>2, <2>3, <2>4, Zenon DEF OnArray, es
<1> QED
  BY <1>0, <1>2, <1>3

\* and any other leaves it where it is.
LEMMA OnArrayStays ==
    ASSUME NEW type, NEW v, OnArray(type, v), UNCHANGED vars
    PROVE  OnArray(type, v)'
<1>1. /\ src' = src /\ del' = del /\ i' = i /\ pc' = pc /\ depth' = depth /\ dims' = dims
      /\ elems' = elems /\ elem' = elem /\ escape' = escape
  BY DEF vars
<1>2. CASE v = NilArray
  BY <1>1, <1>2 DEF OnArray
<1>3. CASE v # NilArray /\ v = <<>>
  BY <1>1, <1>3 DEF OnArray, EmptyPlace
<1>4. CASE v # NilArray /\ v # <<>>
  <2> DEFINE es == ReadsOf(type, v)
  <2>1. PICK from, to : ListAt(src, del, es, from, to) /\ Place(es, from, to)
    BY <1>4 DEF OnArray
  <2> HIDE DEF es
  <2>2. Place(es, from, to)'
    BY <1>1, <2>1 DEF Place, AtOpening, AtElement, AtSeparator, IsRead, InElementAt, InQuotes, InWord
  <2>3. ListAt(src, del, es, from, to)'
    BY <1>1, <2>1
  <2> QED
    BY <1>4, <2>2, <2>3 DEF OnArray, es
<1> QED
  BY <1>2, <1>3, <1>4

\* What has been parsed to its end is the array.
LEMMA ArrayScanned ==
    ASSUME ArrayInv, IsLinear, Scan
    PROVE  /\ given.val # NilArray /\ Len(given.val) \in Nat
           /\ IF given.type = "fixed" /\ Len(given.val) # FixedLength
              THEN read' = "failed"
              ELSE read' = "yes" /\ result' = given.val
<1> DEFINE type == given.type
           v == given.val
           es == ReadsOf(type, v)
           values == ScanArray(type, dims, elems)
<1>1. /\ type \in ArrayTypes \ {"nested"} /\ v \in Seq(ArrayElement(type)) \cup {NilArray}
      /\ FitsWords(type, del) /\ OnArray(type, v)
  BY DEF ArrayInv
<1>2. pc \in {"error", "done"}
  BY DEF Scan
<1>3. v # NilArray
  BY <1>1, <1>2 DEF OnArray
<1>4. v \in Seq(ArrayElement(type))
  BY <1>1, <1>3
<1>5. pc = "done" /\ elems = es /\ dims = IF v = <<>> THEN <<>> ELSE <<Len(v)>>
  <2>1. CASE v = <<>>
    <3>1. EmptyPlace
      BY <1>1, <1>3, <2>1 DEF OnArray
    <3>2. es = <<>>
      <4>1. DOMAIN <<>> = {}
        OBVIOUS
      <4> QED
        BY <2>1, <4>1 DEF ReadsOf
    <3> QED
      BY <1>2, <2>1, <3>1, <3>2 DEF EmptyPlace
  <2>2. CASE v # <<>>
    <3>1. PICK from, to : ListAt(src, del, es, from, to) /\ Place(es, from, to)
      BY <1>1, <1>3, <2>2 DEF OnArray
    <3>2. Len(es) = Len(v)
      <4>1. TextsOf(PartsOf(type, v, del), es, del) /\ Len(PartsOf(type, v, del)) = Len(v)
        BY <1>1, <1>4, <2>2, ArrayTexts
      <4> QED
        BY <4>1 DEF TextsOf
    <3> HIDE DEF es
    <3>3. pc = "done" /\ IsRead(es)
      BY <1>2, <3>1 DEF Place, AtElement, AtSeparator, InElementAt
    <3> QED
      BY <2>2, <3>2, <3>3 DEF IsRead
  <2> QED
    BY <2>1, <2>2
<1>6. values = IF type = "fixed" /\ Len(v) # FixedLength THEN {} ELSE {v}
  <2>1. ScanArray(type, dims, es) = IF type = "fixed" /\ Len(v) # FixedLength THEN {} ELSE {v}
    BY <1>1, <1>4, <1>5, ScanReads
  <2> QED
    BY <1>5, <2>1
<1>7. IF values = {} THEN Refuses ELSE \E w \in values : Reads(w)
  BY <1>5 DEF Scan, IsLinear
<1>8. Len(v) \in Nat
  BY <1>1, <1>4, ArrayTexts
<1> HIDE DEF type, v, values, es
<1>9. CASE type = "fixed" /\ Len(v) # FixedLength
  BY <1>3, <1>6, <1>7, <1>8, <1>9 DEF Refuses, type, v
<1>10. CASE ~(type = "fixed" /\ Len(v) # FixedLength)
  <2>1. values = {v}
    BY <1>6, <1>10
  <2>2. Reads(v)
    BY <1>7, <2>1
  <2> QED
    BY <1>3, <1>8, <1>10, <2>2 DEF Reads, type, v
<1> QED
  BY <1>9, <1>10

\* Every step keeps it in its place, and Scan reads what was given.
LEMMA ArrayStep ==
    ASSUME ArrayInv, LinearRoundTrip, [FNext]_fvars
    PROVE  ArrayInv' /\ LinearRoundTrip'
<1>1. given' = given /\ src' = src /\ del' = del
  BY GivenStep
<1>2. CASE ~IsLinear
  <2>1. ~IsLinear'
    BY <1>1, <1>2 DEF IsLinear
  <2> QED
    BY <2>1 DEF ArrayInv, LinearRoundTrip
<1>3. CASE IsLinear
  <2>1. PICK type, v : type = given.type /\ v = given.val
    OBVIOUS
  <2>2. /\ type \in ArrayTypes \ {"nested"} /\ v \in Seq(ArrayElement(type)) \cup {NilArray}
        /\ FitsWords(type, del) /\ OnArray(type, v)
    BY <1>3, <2>1 DEF ArrayInv
  <2>3. type = given'.type /\ v = given'.val
    BY <1>1, <2>1
  <2>4. OnArray(type, v)' => ArrayInv'
    <3>1. FitsWords(type, del)'
      BY <1>1, <2>2
    <3>2. OnArray(type, v)' => OnArray(given.type, given.val)'
      BY <2>3
    <3>3. /\ given'.type \in ArrayTypes \ {"nested"}
          /\ given'.val \in Seq(ArrayElement(given'.type)) \cup {NilArray}
          /\ FitsWords(given.type, del)'
      BY <2>2, <2>3, <3>1
    <3> QED
      BY <3>2, <3>3 DEF ArrayInv
  <2>5. ArrayRoundTrip
    BY <1>3 DEF LinearRoundTrip
  <2>6. CASE Parses
    <3>1. OnArray(type, v)'
      BY <2>2, <2>6, OnArrayStep DEF Parses
    <3>2. given' = given /\ result' = result /\ read' = read
      BY <2>6 DEF Parses
    <3>3. ArrayRoundTrip'
      BY <2>5, <3>2 DEF ArrayRoundTrip
    <3> QED
      BY <2>4, <3>1, <3>3 DEF LinearRoundTrip
  <2>7. CASE UNCHANGED fvars
    <3>1. OnArray(type, v)'
      BY <2>2, <2>7, OnArrayStays DEF fvars
    <3>2. given' = given /\ result' = result /\ read' = read
      BY <2>7 DEF fvars
    <3>3. ArrayRoundTrip'
      BY <2>5, <3>2 DEF ArrayRoundTrip
    <3> QED
      BY <2>4, <3>1, <3>3 DEF LinearRoundTrip
  <2>8. CASE ScanNull
    <3>1. /\ UNCHANGED vars /\ src = Nil
          /\ IF given.type = "fixed" THEN read' = "failed"
             ELSE read' = "yes" /\ result' = NilArray
      BY <2>8 DEF ScanNull, Reads, Refuses
    <3>2. OnArray(type, v)'
      BY <2>2, <3>1, OnArrayStays
    <3>3. v = NilArray
      <4>1. CASE v = <<>>
        <5>1. v # NilArray => Len(src) = 2
          BY <2>2, <4>1 DEF OnArray, EmptyPlace
        <5>2. Len(Nil) = 1
          BY DEF Nil
        <5> QED
          BY <3>1, <5>1, <5>2
      <4>2. CASE v # <<>> /\ v # NilArray
        <5>1. src \in Seq(Byte)
          BY <2>2, <4>2 DEF OnArray, ListAt
        <5> QED
          BY <3>1, <5>1, NotNil
      <4> QED
        BY <4>1, <4>2
    <3>4. ArrayRoundTrip'
      BY <1>1, <1>3, <2>1, <3>1, <3>3 DEF ArrayRoundTrip, IsLinear
    <3> QED
      BY <2>4, <3>2, <3>4 DEF LinearRoundTrip
  <2>9. CASE Scan
    <3>1. UNCHANGED vars
      BY <1>3, <2>9 DEF Scan, Reads, Refuses, IsLinear
    <3>2. OnArray(type, v)'
      BY <2>2, <3>1, OnArrayStays
    <3>3. /\ given.val # NilArray /\ Len(given.val) \in Nat
          /\ IF given.type = "fixed" /\ Len(given.val) # FixedLength
             THEN read' = "failed"
             ELSE read' = "yes" /\ result' = given.val
      BY <1>3, <2>9, ArrayScanned
    <3>4. ArrayRoundTrip'
      BY <1>1, <1>3, <3>3 DEF ArrayRoundTrip, IsLinear
    <3> QED
      BY <2>4, <3>2, <3>4 DEF LinearRoundTrip
  <2>10. CASE ReadCopy \/ ReadBytea \/ ReadName \/ ReadSettings \/ ReadEntry \/ ReadTime
    BY <1>3, <2>10
       DEF IsLinear, ReadCopy, ReadBytea, ReadName, ReadSettings, ReadEntry, ReadTime
  <2> QED
    BY <2>6, <2>7, <2>8, <2>9, <2>10 DEF FNext
<1> QED
  BY <1>2, <1>3

\* An array that Value has written is read back as it was, for every array of one
\* dimension, or refused where a Go array cannot hold it: every type of element, every
\* byte in an element, every delimiter that is no bracket and no byte of NULL (array.go:
\* the Value and Scan of each type, appendArray, appendArrayElement,
\* appendArrayQuotedBytes, parseArray, scanLinearArray).
THEOREM ArraysArrive == ASSUME PlainDelimiters PROVE FSpec => [](IsLinear => ArrayRoundTrip)
<1>1. FInit => ArrayInv /\ LinearRoundTrip
  BY ArrayInit
<1>2. ArrayInv /\ LinearRoundTrip /\ [FNext]_fvars => ArrayInv' /\ LinearRoundTrip'
  BY ArrayStep
<1>3. LinearRoundTrip => (IsLinear => ArrayRoundTrip)
  BY DEF LinearRoundTrip
<1> QED
  BY <1>1, <1>2, <1>3, PTL DEF FSpec

\* parseArray runs over the text of an array, and over nothing else.
FaultInv ==
    IF IsArray /\ src # Nil THEN DelInv /\ IInv ELSE pc = "start"

\* The text of an array is bytes, whatever its elements are.
LEMMA LinearType ==
    ASSUME NEW type \in ArrayTypes \ {"nested"}, NEW v \in Seq(ArrayElement(type)), NEW d
    PROVE  PartsOf(type, v, d) \in Seq(Seq(Byte))
<1> DEFINE c == <<Comma>>
<1>1. FitsWords(type, c)
  <2>1. Comma \in Byte /\ Comma \notin {LBrace, RBrace} /\ \A k \in 1..4 : Comma # NULL[k]
    BY DEF Comma, Byte, LBrace, RBrace, NULL
  <2>2. c \in Seq(Byte) \ {<<>>} /\ c[1] = Comma
    BY <2>1
  <2> HIDE DEF c
  <2> QED
    BY <2>1, <2>2 DEF FitsWords
<1> HIDE DEF c
<1>2. PartsOf(type, v, c) \in Seq(Seq(Byte))
  BY <1>1, ArrayTexts
<1>3. \A x : PartOf(type, x, d) = PartOf(type, x, c)
  <2>1. type # "nested"
    OBVIOUS
  <2> QED
    BY <2>1, Zenon DEF PartOf
<1>4. PartsOf(type, v, d) = PartsOf(type, v, c)
  BY <1>3 DEF PartsOf
<1> QED
  BY <1>2, <1>4

\* The parts of an array of arrays are texts.
LEMMA NestedType ==
    ASSUME NEW v \in Seq(Seq(Seq(Byte) \cup {Nil})), NEW d \in Seq(Byte)
    PROVE  PartsOf("nested", v, d) \in Seq(Seq(Byte))
<1> DEFINE M == Seq(Byte) \cup {Nil}
<1>1. ASSUME NEW x \in Seq(M) PROVE InnerOf(x, d) \in Seq(Byte)
  <2> DEFINE parts == [k \in DOMAIN x |-> AppendArrayElement(x[k])]
  <2>1. parts \in Seq(Seq(Byte))
    <3>1. ArrayElement("generic") = M
      BY Zenon DEF ArrayElement, GenericTypes
    <3>2. PartsOf("generic", x, d) \in Seq(Seq(Byte))
      <4>1. "generic" \in ArrayTypes \ {"nested"}
        BY DEF ArrayTypes, GenericTypes
      <4> HIDE DEF M
      <4> QED
        BY <1>1, <3>1, <4>1, LinearType, Zenon
    <3>3. \A y : PartOf("generic", y, d) = AppendArrayElement(y)
      BY Zenon DEF PartOf
    <3> QED
      BY <3>2, <3>3, Zenon DEF PartsOf
  <2> HIDE DEF parts
  <2>2. Brackets(parts, d) \in Seq(Byte)
    BY <2>1, BracketsType
  <2>3. InnerOf(x, d) = IF x = <<>> THEN <<>> ELSE Brackets(parts, d)
    BY Zenon DEF InnerOf, parts
  <2> QED
    BY <2>2, <2>3, EmptySeq
<1>2. \A x : PartOf("nested", x, d) = InnerOf(x, d)
  BY Zenon DEF PartOf
<1>3. /\ Len(v) \in Nat /\ DOMAIN v = 1..Len(v)
      /\ \A k \in 1..Len(v) : v[k] \in Seq(M)
  BY LenProperties, ElementOfSeq
<1> HIDE DEF M
<1>4. PartsOf("nested", v, d) = [k \in 1..Len(v) |-> InnerOf(v[k], d)]
  BY <1>2, <1>3, Zenon DEF PartsOf
<1>5. \A k \in 1..Len(v) : InnerOf(v[k], d) \in Seq(Byte)
  BY <1>1, <1>3
<1>6. [k \in 1..Len(v) |-> InnerOf(v[k], d)] \in Seq(Seq(Byte))
  BY <1>3, <1>5
<1> QED
  BY <1>4, <1>6, Zenon

\* At first parseArray has its invariant, if it has a text,
LEMMA FaultInit == ASSUME NoBracket, FInit PROVE FaultInv
<1>1. src = Written(given, del) /\ Begins /\ pc = "start"
  BY DEF FInit, Begins
<1>2. CASE IsArray /\ src # Nil
  <2>1. DelInv /\ del \in Seq(Byte)
    <3>1. del \in Delimiters \/ del = <<Comma>>
      BY <1>2 DEF FInit
    <3>2. CASE del \in Delimiters
      BY <3>2, DelimitersAssumption DEF NoBracket, DelInv
    <3>3. CASE del = <<Comma>>
      <4>1. Comma \in Byte /\ Comma # LBrace
        BY DEF Comma, Byte, LBrace
      <4> QED
        BY <3>3, <4>1 DEF DelInv
    <3> QED
      BY <3>1, <3>2, <3>3
  <2>2. src \in Seq(Byte)
    <3>1. CASE given.kind = "text"
      <4>1. src = given.val
        BY <1>1, <3>1, Zenon DEF Written
      <4>2. given.val \in Sources
        BY <3>1 DEF FInit
      <4> QED
        BY <4>1, <4>2, SourcesAssumption
    <3>2. CASE given.kind = "array"
      <4>1. src = ArrayValue(given.type, given.val, del)
        BY <1>1, <3>2, Zenon DEF Written
      <4>2. given.val # NilArray /\ src = Brackets(PartsOf(given.type, given.val, del), del)
        BY <1>2, <4>1, ArrayValueIs
      <4>3. PartsOf(given.type, given.val, del) \in Seq(Seq(Byte))
        <5>1. CASE \E a \in GivenArrays : given = [kind |-> "array", type |-> a.type, val |-> a.val]
          <6>1. PICK a \in GivenArrays : given = [kind |-> "array", type |-> a.type, val |-> a.val]
            BY <5>1
          <6>2. /\ given.type \in ArrayTypes \ {"nested"}
                /\ given.val \in Seq(ArrayElement(given.type)) \cup {NilArray}
            BY <6>1, ArraysAssumption
          <6> QED
            BY <4>2, <6>2, LinearType
        <5>2. CASE \E a \in NestedArrays : given = [kind |-> "array", type |-> "nested", val |-> a]
          <6>1. given.type = "nested" /\ given.val \in Seq(Seq(Seq(Byte) \cup {Nil}))
            BY <5>2, ArraysAssumption
          <6> QED
            BY <2>1, <6>1, NestedType, Zenon
        <5> QED
          BY <3>2, <5>1, <5>2 DEF FInit
      <4> QED
        BY <2>1, <4>2, <4>3, BracketsType
    <3> QED
      BY <1>2, <3>1, <3>2 DEF IsArray
  <2>3. IInv
    BY <1>1, <2>2, InitInv
  <2> QED
    BY <1>2, <2>1, <2>3 DEF FaultInv
<1> QED
  BY <1>1, <1>2 DEF FaultInv

\* and every step keeps it.
LEMMA FaultStep == ASSUME FaultInv, [FNext]_fvars PROVE FaultInv'
<1>1. given' = given /\ src' = src
  BY GivenStep
<1>2. IsArray' = IsArray
  BY <1>1 DEF IsArray
<1>3. CASE Parses
  <2>1. IsArray /\ src # Nil /\ Next
    BY <1>3 DEF Parses
  <2>2. DelInv' /\ IInv'
    BY <2>1, DelStep, InvStep DEF FaultInv
  <2> QED
    BY <1>1, <1>2, <2>1, <2>2 DEF FaultInv
<1>4. CASE UNCHANGED vars
  <2>1. pc' = pc
    BY <1>4 DEF vars
  <2>2. DelInv /\ IInv => DelInv' /\ IInv'
    BY <1>4, DelStep, InvStep
  <2> QED
    BY <1>1, <1>2, <2>1, <2>2 DEF FaultInv
<1>5. ~Parses => UNCHANGED vars
  BY DEF FNext, fvars, ScanNull, Scan, ReadCopy, ReadBytea, ReadName, ReadSettings, ReadEntry,
         ReadTime, Reads, Refuses
<1> QED
  BY <1>3, <1>4, <1>5

\* Whatever text an array is read from, and whatever array Value has written it from,
\* arrays of arrays too, parseArray does not fault in the driver's own use of it
\* (array.go:798-878).
THEOREM ReadersNeverFault == ASSUME NoBracket PROVE FSpec => []NoFault
<1>1. FInit => FaultInv
  BY FaultInit
<1>2. FaultInv /\ [FNext]_fvars => FaultInv'
  BY FaultStep
<1>3. FaultInv => NoFault
  <2>1. IInv => NoFault
    BY LenProperties DEF IInv, TypeOK, DepthInv, InElement, NoFault
  <2>2. pc = "start" => NoFault
    BY DEF NoFault
  <2> QED
    BY <2>1, <2>2 DEF FaultInv
<1> QED
  BY <1>1, <1>2, <1>3, PTL DEF FSpec

--------------------------------------------------------------------------------
(* Arrays of arrays                                                           *)

\* What a part has from m to n is what the whole has there.
IsSub(w, s, x, y) == w = SubSeq(s, x, y)
PartFromTo(s, part, a, m, n, x, y, w) ==
    /\ x = a + m /\ y = a + n /\ IsSub(w, part, m, n)
    /\ s \in Seq(Byte) /\ part \in Seq(Byte) /\ Has(s, a, part)
    /\ m \in Nat \ {0} /\ n \in Nat /\ n <= Len(part)
\* A stretch of a part is a stretch of the whole.
LEMMA HasSub ==
    ASSUME NEW s, NEW part, NEW a, NEW m, NEW n, NEW x, NEW y,
           NEW w, PartFromTo(s, part, a, m, n, x, y, w)
    PROVE  IsSub(w, s, x, y)
<1> DEFINE u == SubSeq(s, x, y)
<1>0. /\ s \in Seq(Byte) /\ part \in Seq(Byte) /\ Has(s, a, part)
      /\ m \in Nat \ {0} /\ n \in Nat /\ n <= Len(part) /\ x = a + m /\ y = a + n
      /\ w = SubSeq(part, m, n)
  BY DEF PartFromTo, IsSub
<1>1. /\ a \in Nat /\ Len(part) \in Nat /\ Len(s) \in Nat /\ x \in Int /\ y \in Int
      /\ a + Len(part) <= Len(s) /\ x >= 1 /\ y <= Len(s)
  BY <1>0, LenProperties DEF Has
<1>2. (\A j \in x..y : s[j] \in Byte) /\ (\A j \in m..n : part[j] \in Byte)
  <2>1. \A j \in 1..Len(s) : s[j] \in Byte
    BY <1>0, ElementOfSeq
  <2>2. \A j \in 1..Len(part) : part[j] \in Byte
    BY <1>0, ElementOfSeq
  <2>3. \A j \in x..y : j \in 1..Len(s)
    BY <1>1
  <2>4. \A j \in m..n : j \in 1..Len(part)
    BY <1>0, <1>1
  <2> QED
    BY <2>1, <2>2, <2>3, <2>4
<1>3. y - x + 1 = n - m + 1 /\ (x <= y <=> m <= n)
  BY <1>0, <1>1
<1>4. /\ u \in Seq(Byte) /\ Len(u) = (IF x <= y THEN y - x + 1 ELSE 0)
      /\ \A j \in 1..(y - x + 1) : u[j] = s[x + j - 1]
  BY <1>1, <1>2, SubSeqProperties
<1>5. /\ w \in Seq(Byte) /\ Len(w) = (IF m <= n THEN n - m + 1 ELSE 0)
      /\ \A j \in 1..(n - m + 1) : w[j] = part[m + j - 1]
  BY <1>0, <1>2, SubSeqProperties
<1>6. Len(u) = Len(w)
  <2> HIDE DEF u
  <2> QED
    BY <1>0, <1>3, <1>4, <1>5
<1>7. ASSUME NEW j \in 1..Len(u) PROVE u[j] = w[j]
  <2>1. m <= n /\ j \in 1..(n - m + 1)
    <3> HIDE DEF u
    <3> QED
      BY <1>0, <1>3, <1>4
  <2>2. u[j] = s[x + j - 1] /\ w[j] = part[m + j - 1]
    <3> HIDE DEF u
    <3> QED
      BY <1>0, <1>3, <1>4, <1>5, <2>1
  <2>3. x + j - 1 = a + (m + j - 1) /\ m + j - 1 \in 1..Len(part)
    BY <1>0, <1>1, <2>1
  <2>4. s[a + (m + j - 1)] = part[m + j - 1]
    BY <1>0, <2>3 DEF Has
  <2> HIDE DEF u
  <2> QED
    BY <2>2, <2>3, <2>4
<1> HIDE DEF u
<1>8. u = w
  BY <1>4, <1>5, <1>6, <1>7, SeqEqual
<1> QED
  BY <1>8 DEF u, IsSub

\* Where a part is, its elements are too: in quotes,
LEMMA QuotedMoves ==
    ASSUME NEW s, NEW part, NEW a, Has(s, a, part), Len(part) \in Nat,
           NEW f \in Nat \ {0}, NEW t \in Nat, f < t, t <= Len(part),
           NEW e, NEW q, QuotedAt(part, f, t, e, q), Len(e) \in Nat
    PROVE  QuotedAt(s, a + f, a + t, e, [j \in 0..Len(e) |-> a + q[j]])
<1> DEFINE r == [j \in 0..Len(e) |-> a + q[j]]
           n == Len(e)
<1>1. /\ e \in Seq(Byte) /\ q \in [0..n -> Nat] /\ a \in Nat
      /\ q[0] = f + 1 /\ t = q[n] + 1 /\ part[f] = Quote /\ part[q[n]] = Quote
      /\ \A j \in 0..n : q[j] < t
      /\ \A j \in 1..n :
             \/ q[j] = q[j - 1] + 1 /\ part[q[j - 1]] = e[j] /\ e[j] \notin {Quote, Bslash}
             \/ q[j] = q[j - 1] + 2 /\ part[q[j - 1]] = Bslash /\ part[q[j - 1] + 1] = e[j]
  BY DEF QuotedAt, Has
<1>2. \A l \in 1..Len(part) : s[a + l] = part[l]
  BY DEF Has
<1>3. \A j \in 0..n : q[j] \in Nat /\ r[j] = a + q[j]
  BY <1>1
<1>4. ASSUME NEW j \in 0..n PROVE q[j] \in 1..Len(part)
  <2>1. CASE j = 0
    BY <1>1, <2>1
  <2>2. CASE j # 0
    <3>1. j \in 1..n /\ j - 1 \in 0..n
      BY <2>2
    <3>2. q[j - 1] \in Nat /\ q[j] \in Nat /\ q[j] < t
      BY <1>1, <3>1
    <3>3. q[j] = q[j - 1] + 1 \/ q[j] = q[j - 1] + 2
      BY <1>1, <3>1
    <3> QED
      BY <3>2, <3>3, SMTT(30)
  <2> QED
    BY <2>1, <2>2
<1>5. n \in 0..n /\ 0 \in 0..n /\ f \in 1..Len(part)
  OBVIOUS
<1>6. /\ r[0] = a + f + 1 /\ a + t = r[n] + 1 /\ s[a + f] = Quote /\ s[r[n]] = Quote
  <2>1. q[n] \in Nat /\ r[n] = a + q[n] /\ r[0] = a + q[0]
    BY <1>3, <1>5
  <2>2. s[a + f] = part[f] /\ s[a + q[n]] = part[q[n]]
    BY <1>2, <1>4, <1>5
  <2> HIDE DEF r, n
  <2> QED
    BY <1>1, <2>1, <2>2, SMTT(30)
<1>7. ASSUME NEW j \in 0..n PROVE r[j] < a + t
  BY <1>1, <1>3
<1>8. ASSUME NEW j \in 1..n
      PROVE  \/ r[j] = r[j - 1] + 1 /\ s[r[j - 1]] = e[j] /\ e[j] \notin {Quote, Bslash}
             \/ r[j] = r[j - 1] + 2 /\ s[r[j - 1]] = Bslash /\ s[r[j - 1] + 1] = e[j]
  <2> DEFINE l == j - 1
  <2>1. j \in 0..n /\ l \in 0..n
    OBVIOUS
  <2>2. /\ q[j] \in 1..Len(part) /\ q[l] \in 1..Len(part)
        /\ r[j] = a + q[j] /\ r[l] = a + q[l] /\ s[a + q[l]] = part[q[l]]
    BY <1>2, <1>3, <1>4, <2>1
  <2>3. \/ q[j] = q[l] + 1 /\ part[q[l]] = e[j] /\ e[j] \notin {Quote, Bslash}
        \/ q[j] = q[l] + 2 /\ part[q[l]] = Bslash /\ part[q[l] + 1] = e[j]
    BY <1>1
  <2> HIDE DEF l, r
  <2>4. CASE q[j] = q[l] + 1 /\ part[q[l]] = e[j] /\ e[j] \notin {Quote, Bslash}
    <3>1. r[j] = r[l] + 1 /\ s[r[l]] = e[j]
      BY <1>1, <2>2, <2>4
    <3> QED
      BY <2>4, <3>1 DEF l
  <2>5. CASE q[j] = q[l] + 2 /\ part[q[l]] = Bslash /\ part[q[l] + 1] = e[j]
    <3>1. q[l] + 1 \in 1..Len(part)
      BY <2>2, <2>5, SMTT(30)
    <3>2. s[a + (q[l] + 1)] = part[q[l] + 1]
      BY <1>2, <3>1
    <3>3. r[j] = r[l] + 2 /\ s[r[l]] = Bslash /\ r[l] + 1 = a + (q[l] + 1)
      <4>1. a \in Nat
        BY <1>1
      <4>2. q[l] \in Nat /\ r[j] = a + q[j] /\ r[l] = a + q[l]
        BY <2>2
      <4>3. s[r[l]] = Bslash
        BY <2>2, <2>5
      <4> QED
        BY <2>5, <4>1, <4>2, <4>3, SMTT(30)
    <3>4. r[j] = r[l] + 2 /\ s[r[l]] = Bslash /\ s[r[l] + 1] = e[j]
      BY <2>5, <3>2, <3>3
    <3> QED
      BY <3>4 DEF l
  <2> QED
    BY <2>3, <2>4, <2>5
<1>9. r \in [0..n -> Nat]
  BY <1>1, <1>3
<1> HIDE DEF r
<1>10. QuotedAt(s, a + f, a + t, e, r)
  BY <1>1, <1>6, <1>7, <1>8, <1>9 DEF QuotedAt
<1> QED
  BY <1>10 DEF r

\* and without.
LEMMA PlainMoves ==
    ASSUME NEW s \in Seq(Byte), NEW part \in Seq(Byte), NEW a, Has(s, a, part),
           NEW f \in Nat \ {0}, NEW t \in Nat, f < t, t <= Len(part),
           NEW e, NEW c, PlainAt(part, c, f, t, e)
    PROVE  PlainAt(s, c, a + f, a + t, e)
<1>1. \A l \in 1..Len(part) : s[a + l] = part[l]
  BY DEF Has
<1>a. a \in Nat /\ Len(part) \in Nat
  BY LenProperties DEF Has
<1>2. ASSUME NEW j \in (a + f)..((a + t) - 1) PROVE s[j] \notin {RBrace, c}
  <2> DEFINE l == j - a
  <2>1. l \in f..(t - 1) /\ l \in 1..Len(part) /\ a + l = j
    BY <1>a
  <2> HIDE DEF l
  <2> QED
    BY <1>1, <2>1 DEF PlainAt
<1>3. s[a + f] = part[f]
  <2>1. f \in 1..Len(part)
    BY <1>a
  <2> QED
    BY <1>1, <2>1
<1>w. PICK w : w = SubSeq(part, f, t - 1)
  OBVIOUS
<1>4. SubSeq(s, a + f, (a + t) - 1) = w
  <2> DEFINE n == t - 1
  <2>1. n \in Nat /\ n <= Len(part) /\ (a + t) - 1 = a + n
    BY <1>a
  <2>2. w = SubSeq(part, f, n)
    BY <1>w
  <2> HIDE DEF n
  <2>3. PICK x, y : x = a + f /\ y = a + n
    OBVIOUS
  <2>4. PartFromTo(s, part, a, f, n, x, y, w)
    BY <2>1, <2>2, <2>3 DEF PartFromTo, IsSub
  <2>5. IsSub(w, s, x, y)
    BY <2>4, HasSub
  <2> QED
    BY <2>1, <2>3, <2>5 DEF IsSub
<1>5. part[f] \notin {LBrace, Quote} /\ e = WordOf(w)
  BY <1>w, Zenon DEF PlainAt
<1> QED
  BY <1>2, <1>3, <1>4, <1>5, Zenon DEF PlainAt

\* An element of a part is an element of the whole.
LEMMA ElementMoves ==
    ASSUME NEW s \in Seq(Byte), NEW part, NEW a, Has(s, a, part),
           NEW d, NEW f, NEW t, NEW e, ElementIn(part, d, f, t, e)
    PROVE  ElementIn(s, d, a + f, a + t, e)
<1>1. /\ part \in Seq(Byte) /\ Len(part) \in Nat /\ d \in Seq(Byte) \ {<<>>} /\ d[1] # RBrace
      /\ f \in Nat \ {0} /\ t \in Nat /\ f < t /\ t <= Len(part)
      /\ part[f] \notin {LBrace, RBrace}
  BY DEF ElementIn
<1>a. Len(d) \in Nat \ {0}
  BY <1>1, EmptySeq, LenProperties
<1>b. a \in Nat /\ a + Len(part) <= Len(s) /\ Len(s) \in Nat
  BY LenProperties DEF Has
<1>2. \A l \in 1..Len(part) : s[a + l] = part[l]
  BY DEF Has
<1>3. \/ \E q : QuotedAt(s, a + f, a + t, e, q)
      \/ PlainAt(s, d[1], a + f, a + t, e)
  <2>1. CASE \E q : QuotedAt(part, f, t, e, q)
    <3>1. PICK q : QuotedAt(part, f, t, e, q)
      BY <2>1
    <3>2. Len(e) \in Nat
      BY <3>1, LenProperties DEF QuotedAt
    <3>3. QuotedAt(s, a + f, a + t, e, [j \in 0..Len(e) |-> a + q[j]])
      BY <1>1, <3>1, <3>2, QuotedMoves
    <3> QED
      BY <3>3
  <2>2. CASE PlainAt(part, d[1], f, t, e)
    BY <1>1, <2>2, PlainMoves
  <2> QED
    BY <2>1, <2>2 DEF ElementIn
<1>4. \/ s[a + t] = RBrace
      \/ (a + t) + Len(d) - 1 <= Len(s) /\ SubSeq(s, a + t, (a + t) + Len(d) - 1) = d
  <2>1. CASE part[t] = RBrace
    <3>1. t \in 1..Len(part)
      BY <1>1
    <3>2. s[a + t] = RBrace
      BY <1>2, <2>1, <3>1
    <3> QED
      BY <3>2
  <2>2. CASE t + Len(d) - 1 <= Len(part) /\ SubSeq(part, t, t + Len(d) - 1) = d
    <3> DEFINE n == t + Len(d) - 1
    <3>1. n \in Nat /\ n <= Len(part) /\ (a + t) + Len(d) - 1 = a + n /\ t \in Nat \ {0}
          /\ a + n <= Len(s)
      BY <1>1, <1>a, <1>b, <2>2
    <3> HIDE DEF n
    <3>3. d = SubSeq(part, t, n)
      BY <2>2 DEF n
    <3>2. SubSeq(s, a + t, a + n) = d
      <4>1. PICK x, y : x = a + t /\ y = a + n
        OBVIOUS
      <4>2. PartFromTo(s, part, a, t, n, x, y, d)
        BY <1>1, <3>1, <3>3, <4>1 DEF PartFromTo, IsSub
      <4>3. IsSub(d, s, x, y)
        BY <4>2, HasSub
      <4> QED
        BY <4>1, <4>3 DEF IsSub
    <3>4. SubSeq(s, a + t, (a + t) + Len(d) - 1) = d /\ (a + t) + Len(d) - 1 <= Len(s)
      BY <3>1, <3>2
    <3> QED
      BY <3>4
  <2> QED
    BY <2>1, <2>2 DEF ElementIn
<1>5. /\ a + f \in Nat \ {0} /\ a + t \in Nat /\ a + f < a + t /\ a + t <= Len(s)
      /\ s[a + f] \notin {LBrace, RBrace}
  <2>1. a + f \in Nat \ {0} /\ a + t \in Nat /\ a + f < a + t /\ a + t <= Len(s)
        /\ f \in 1..Len(part)
    BY <1>1, <1>b
  <2>2. s[a + f] = part[f]
    BY <1>2, <2>1
  <2> QED
    BY <1>1, <2>1, <2>2
<1> QED
  BY <1>1, <1>b, <1>3, <1>4, <1>5, Zenon DEF ElementIn

\* A row of an array of arrays: in brackets at f and l, its elements in their places.
RowAt(s, d, es, f, l, from, to) ==
    LET n == Len(es)
    IN  /\ n \in Nat \ {0} /\ f \in Nat \ {0} /\ l \in Nat /\ l <= Len(s)
        /\ s[f] = LBrace /\ s[l] = RBrace /\ from[1] = f + 1 /\ to[n] = l
        /\ \A k \in 1..n : ElementIn(s, d, from[k], to[k], es[k])
        /\ \A k \in 1..(n - 1) :
               /\ from[k + 1] = to[k] + Len(d) /\ to[k] + Len(d) - 1 <= Len(s)
               /\ SubSeq(s, to[k], to[k] + Len(d) - 1) = d

\* Where the text of an array is, is a row.
LEMMA RowIn ==
    ASSUME NEW s \in Seq(Byte), NEW a, NEW part, Has(s, a, part), NEW d, NEW es,
           NEW from, NEW to, ListAt(part, d, es, from, to)
    PROVE  RowAt(s, d, es, a + 1, a + Len(part), [k \in 1..Len(es) |-> a + from[k]],
                 [k \in 1..Len(es) |-> a + to[k]])
<1> DEFINE n == Len(es)
           g == [k \in 1..n |-> a + from[k]]
           t == [k \in 1..n |-> a + to[k]]
           z == Len(part)
<1>1. /\ part \in Seq(Byte) /\ z \in Nat /\ 1 <= z /\ part[1] = LBrace
      /\ n \in Nat \ {0} /\ from[1] = 2
      /\ \A k \in 1..n : from[k] \in Nat /\ to[k] \in Nat
  BY ListHas
<1>2. d \in Seq(Byte) \ {<<>>} /\ to[n] = z /\ part[z] = RBrace
  BY DEF ListAt
<1>3. a \in Nat /\ a + z <= Len(s) /\ Len(s) \in Nat /\ Len(d) \in Nat \ {0}
  BY <1>2, EmptySeq, LenProperties DEF Has
<1>4. \A k \in 1..n : g[k] = a + from[k] /\ t[k] = a + to[k]
  OBVIOUS
<1>5. ASSUME NEW k \in 1..n PROVE ElementIn(s, d, g[k], t[k], es[k])
  <2>1. ElementIn(part, d, from[k], to[k], es[k])
    BY ListElements
  <2>2. ElementIn(s, d, a + from[k], a + to[k], es[k])
    BY <2>1, ElementMoves
  <2> QED
    BY <1>4, <2>2
<1> HIDE DEF g, t
<1>6. s[a + 1] = LBrace /\ s[a + z] = RBrace
  <2>1. 1 \in 1..z /\ z \in 1..z
    BY <1>1
  <2>2. \A j \in 1..z : s[a + j] = part[j]
    BY DEF Has
  <2> QED
    BY <1>1, <1>2, <2>1, <2>2
<1>7. g[1] = (a + 1) + 1 /\ t[n] = a + z
  <2>1. 1 \in 1..n /\ n \in 1..n
    BY <1>1
  <2>2. g[1] = a + 2 /\ t[n] = a + z
    BY <1>1, <1>2, <1>4, <2>1
  <2>3. a + 2 = (a + 1) + 1
    BY <1>3
  <2> QED
    BY <2>2, <2>3
<1>8. ASSUME NEW k \in 1..(n - 1)
      PROVE  /\ g[k + 1] = t[k] + Len(d) /\ t[k] + Len(d) - 1 <= Len(s)
             /\ SubSeq(s, t[k], t[k] + Len(d) - 1) = d
  <2> DEFINE m == to[k]
             y == m + Len(d) - 1
  <2>1. k \in 1..n /\ k + 1 \in 1..n
    BY <1>1
  <2>2. from[k + 1] = m + Len(d) /\ y <= z /\ SubSeq(part, m, y) = d
    BY DEF ListAt
  <2>3. m \in Nat \ {0} /\ g[k + 1] = a + from[k + 1] /\ t[k] = a + m
    <3>1. from[k] < to[k] /\ from[k] \in Nat /\ to[k] \in Nat
      BY <1>1, <2>1, ListHas
    <3>2. m \in Nat \ {0}
      BY <3>1
    <3> QED
      BY <1>4, <2>1, <3>2
  <2>4. y \in Nat /\ (a + m) + Len(d) - 1 = a + y /\ a + y <= Len(s)
        /\ a + (m + Len(d)) = (a + m) + Len(d)
    <3> HIDE DEF m
    <3>1. y <= z
      BY <2>2
    <3> QED
      BY <1>1, <1>3, <2>3, <3>1, SMTT(30)
  <2> HIDE DEF m, y
  <2>5. SubSeq(s, a + m, a + y) = d
    <3>1. PICK u, w : u = a + m /\ w = a + y
      OBVIOUS
    <3>2. PartFromTo(s, part, a, m, y, u, w, d)
      BY <1>1, <2>2, <2>3, <2>4, <3>1 DEF PartFromTo, IsSub
    <3>3. IsSub(d, s, u, w)
      BY <3>2, HasSub
    <3> QED
      BY <3>1, <3>3 DEF IsSub
  <2> QED
    BY <2>2, <2>3, <2>4, <2>5
<1>9. a + 1 \in Nat \ {0} /\ a + z \in Nat
  BY <1>1, <1>3
<1>10. RowAt(s, d, es, a + 1, a + z, g, t)
  BY <1>1, <1>3, <1>5, <1>6, <1>7, <1>8, <1>9, Zenon DEF RowAt
<1> QED
  BY <1>10 DEF g, t

\* The text of an array of arrays, with the places of its rows.
GridAt(s, d, v, first, last) ==
    LET n == Len(v)
    IN  /\ s \in Seq(Byte) /\ Len(s) \in Nat /\ d \in Seq(Byte) \ {<<>>} /\ d[1] # RBrace
        /\ Len(d) \in Nat \ {0} /\ n \in Nat \ {0}
        /\ s[1] = LBrace /\ first[1] = 2 /\ last[n] + 1 = Len(s) /\ s[Len(s)] = RBrace
        /\ \A k \in 1..n : /\ first[k] \in Nat \ {0} /\ last[k] \in Nat /\ last[k] < Len(s)
                           /\ \E from, to : RowAt(s, d, v[k], first[k], last[k], from, to)
        /\ \A k \in 1..(n - 1) :
               /\ first[k + 1] = last[k] + 1 + Len(d) /\ last[k] + Len(d) <= Len(s)
               /\ SubSeq(s, last[k] + 1, last[k] + 1 + Len(d) - 1) = d

\* Arrays of as many elements each, and at least one.
Rectangular(v, m) ==
    /\ v \in Seq(Seq(Seq(Byte) \cup {Nil})) /\ Len(v) \in Nat \ {0} /\ m \in Nat \ {0}
    /\ \A k \in 1..Len(v) : Len(v[k]) = m

\* The text of a row.
LEMMA RowText ==
    ASSUME NEW x \in Seq(Seq(Byte) \cup {Nil}), x # <<>>, NEW d, FitsWords("generic", d)
    PROVE  /\ PartOf("nested", x, d) = Brackets(PartsOf("generic", x, d), d)
           /\ PartOf("nested", x, d) \in Seq(Byte) /\ PartOf("nested", x, d) # <<>>
           /\ \E from, to : ListAt(PartOf("nested", x, d), d, x, from, to)
<1> DEFINE part == PartOf("nested", x, d)
           texts == PartsOf("generic", x, d)
<1>1. part = Brackets(texts, d)
  <2>1. \A y : PartOf("generic", y, d) = AppendArrayElement(y)
    BY Zenon DEF PartOf
  <2>2. texts = [k \in DOMAIN x |-> AppendArrayElement(x[k])]
    BY <2>1, Zenon DEF PartsOf
  <2>3. part = InnerOf(x, d)
    BY Zenon DEF PartOf
  <2>4. InnerOf(x, d) = Brackets([k \in DOMAIN x |-> AppendArrayElement(x[k])], d)
    BY Zenon DEF InnerOf
  <2> QED
    BY <2>2, <2>3, <2>4, Zenon
<1>2. ReadsOf("generic", x) = x
  <2>1. \A y : ReadText("generic", y) = y
    BY DEF ReadText
  <2>2. x = [k \in DOMAIN x |-> x[k]]
    BY LenProperties
  <2> QED
    BY <2>1, <2>2, Zenon DEF ReadsOf
<1>3. TextsOf(texts, x, d)
  <2>1. ArrayElement("generic") = Seq(Byte) \cup {Nil}
    BY Zenon DEF ArrayElement, GenericTypes
  <2>2. "generic" \in ArrayTypes \ {"nested"} /\ x \in Seq(ArrayElement("generic"))
    BY <2>1 DEF ArrayTypes, GenericTypes
  <2>3. TextsOf(texts, ReadsOf("generic", x), d)
    BY <2>2, ArrayTexts, Zenon
  <2> QED
    BY <1>2, <2>3, Zenon
<1> HIDE DEF texts
<1>4. PICK from, to : ListAt(part, d, x, from, to)
  BY <1>1, <1>3, ListWritten
<1>5. part \in Seq(Byte) /\ Len(part) \in Nat /\ 1 <= Len(part)
  BY <1>4, ListHas
<1>6. part # <<>>
  BY <1>5, EmptySeq
<1> QED
  BY <1>1, <1>4, <1>5, <1>6 DEF texts

\* What Value writes of an array of arrays.
LEMMA GridWritten ==
    ASSUME NEW v, NEW m, Rectangular(v, m), NEW d, FitsWords("generic", d),
           NEW s, s = Brackets(PartsOf("nested", v, d), d)
    PROVE  \E first, last : GridAt(s, d, v, first, last)
<1> DEFINE texts == PartsOf("nested", v, d)
           n == Len(v)
           M == Seq(Byte) \cup {Nil}
<1>0. /\ v \in Seq(Seq(M)) /\ n \in Nat \ {0} /\ m \in Nat \ {0} /\ DOMAIN v = 1..n
      /\ \A k \in 1..n : Len(v[k]) = m
  BY LenProperties DEF Rectangular
<1>1. \A k \in 1..n : v[k] \in Seq(M) /\ v[k] # <<>>
  <2> HIDE DEF M
  <2>1. \A k \in 1..n : v[k] \in Seq(M)
    BY <1>0, ElementOfSeq
  <2>2. \A k \in 1..n : v[k] # <<>>
    BY <1>0, <2>1, EmptySeq
  <2> QED
    BY <2>1, <2>2
<1>2. ASSUME NEW k \in 1..n
      PROVE  /\ texts[k] \in Seq(Byte) /\ texts[k] # <<>>
             /\ \E from, to : ListAt(texts[k], d, v[k], from, to)
  <2>1. texts[k] = PartOf("nested", v[k], d)
    BY <1>0 DEF PartsOf
  <2> DEFINE x == v[k]
  <2>2. x \in Seq(Seq(Byte) \cup {Nil}) /\ x # <<>>
    BY <1>1
  <2> HIDE DEF x, texts
  <2>3. /\ PartOf("nested", x, d) \in Seq(Byte) /\ PartOf("nested", x, d) # <<>>
        /\ \E from, to : ListAt(PartOf("nested", x, d), d, x, from, to)
    BY <2>2, RowText, Zenon
  <2> QED
    BY <2>1, <2>3 DEF x
<1>3. texts \in Seq(Seq(Byte)) /\ Len(texts) = n
  <2>1. texts = [k \in 1..n |-> texts[k]]
    BY <1>0 DEF PartsOf
  <2> HIDE DEF texts
  <2> QED
    BY <1>0, <1>2, <2>1
<1> HIDE DEF texts
<1>4. d \in Seq(Byte) \ {<<>>} /\ d[1] # RBrace
  BY DEF FitsWords
<1>5. PICK from, to : PartsAt(s, texts, d, from, to)
  <2>1. s = Brackets(texts, d)
    BY DEF texts
  <2> QED
    BY <1>0, <1>2, <1>3, <1>4, <2>1, Separations
<1>6. /\ s \in Seq(Byte) /\ Len(s) \in Nat /\ Len(d) \in Nat \ {0}
      /\ s[1] = LBrace /\ from[1] = 2 /\ to[n] = Len(s) /\ s[Len(s)] = RBrace
      /\ from \in [1..n -> Nat] /\ to \in [1..n -> Nat]
  BY <1>3, <1>5 DEF PartsAt
<1>7. ASSUME NEW k \in 1..n
      PROVE  /\ from[k] \in Nat \ {0} /\ to[k] \in Nat /\ to[k] <= Len(s)
             /\ to[k] = from[k] + Len(texts[k]) /\ Len(texts[k]) \in Nat \ {0}
             /\ \E a : a + 1 = from[k] /\ Has(s, a, texts[k])
  <2>1. /\ from[k] > 0 /\ to[k] <= Len(s) /\ Len(texts[k]) \in Nat \ {0}
        /\ to[k] = from[k] + Len(texts[k])
        /\ \E a : a + 1 = from[k] /\ Has(s, a, texts[k])
    BY <1>3, <1>5 DEF PartsAt
  <2>2. from[k] \in Nat /\ to[k] \in Nat
    BY <1>6
  <2> QED
    BY <2>1, <2>2
<1>8. ASSUME NEW k \in 1..(n - 1)
      PROVE  /\ from[k + 1] = to[k] + Len(d) /\ to[k] + Len(d) - 1 <= Len(s)
             /\ SubSeq(s, to[k], to[k] + Len(d) - 1) = d
  BY <1>3, <1>5, Zenon DEF PartsAt
<1> DEFINE last == [k \in 1..n |-> to[k] - 1]
<1>9. ASSUME NEW k \in 1..n
      PROVE  /\ last[k] \in Nat /\ last[k] < Len(s) /\ last[k] + 1 = to[k]
             /\ \E g, t : RowAt(s, d, v[k], from[k], last[k], g, t)
  <2>0. last[k] = to[k] - 1
    OBVIOUS
  <2> HIDE DEF last
  <2>1. last[k] \in Nat /\ last[k] < Len(s) /\ last[k] + 1 = to[k]
    <3> DEFINE x == to[k]
               y == from[k]
               z == Len(s)
               l == Len(texts[k])
    <3>1. x \in Nat /\ y \in Nat \ {0} /\ z \in Nat /\ l \in Nat /\ x = y + l /\ x <= z
      BY <1>6, <1>7
    <3> HIDE DEF x, y, z, l
    <3>2. x - 1 \in Nat /\ x - 1 < z /\ (x - 1) + 1 = x
      BY <3>1
    <3> QED
      BY <2>0, <3>2 DEF x, z
  <2>2. PICK a : a + 1 = from[k] /\ Has(s, a, texts[k])
    BY <1>7
  <2>3. PICK f, u : ListAt(texts[k], d, v[k], f, u)
    BY <1>2
  <2>4. \E g, t : RowAt(s, d, v[k], a + 1, a + Len(texts[k]), g, t)
    BY <1>6, <2>2, <2>3, RowIn
  <2>5. a + Len(texts[k]) = last[k]
    <3> DEFINE y == from[k]
               l == Len(texts[k])
    <3>1. a \in Nat /\ y = a + 1 /\ l \in Nat /\ last[k] = (y + l) - 1
      BY <1>7, <2>0, <2>2 DEF Has
    <3> HIDE DEF y, l
    <3>2. a + l = last[k]
      BY <3>1
    <3> QED
      BY <3>2 DEF l
  <2> QED
    BY <2>1, <2>2, <2>4, <2>5
<1> HIDE DEF last
<1>10. last[n] + 1 = Len(s)
  <2>1. n \in 1..n
    BY <1>0
  <2> QED
    BY <1>6, <1>9, <2>1
<1>11. ASSUME NEW k \in 1..(n - 1)
       PROVE  /\ from[k + 1] = last[k] + 1 + Len(d) /\ last[k] + Len(d) <= Len(s)
              /\ SubSeq(s, last[k] + 1, last[k] + 1 + Len(d) - 1) = d
  <2>1. k \in 1..n
    BY <1>0
  <2>2. last[k] + 1 = to[k] /\ last[k] \in Nat
    BY <1>9, <2>1
  <2>3. last[k] + Len(d) = to[k] + Len(d) - 1
    BY <1>6, <2>2
  <2> QED
    BY <1>8, <2>2, <2>3
<1>12. \A k \in 1..n : from[k] \in Nat \ {0}
  BY <1>7
<1>13. GridAt(s, d, v, from, last)
  BY <1>0, <1>4, <1>6, <1>9, <1>10, <1>11, <1>12, Zenon DEF GridAt
<1> QED
  BY <1>13

--------------------------------------------------------------------------------

\* The elements of all rows, one row after the other, with the places of the rows.
Packed(v, m, flat, pos) ==
    LET n == Len(v)
    IN  /\ n \in Nat \ {0} /\ m \in Nat \ {0} /\ flat \in Seq(Seq(Byte) \cup {Nil})
        /\ Len(flat) \in Nat /\ pos[0] = 0 /\ pos[n] = Len(flat)
        /\ \A k \in 1..n : /\ pos[k - 1] \in Nat /\ pos[k] = pos[k - 1] + m /\ pos[k] <= Len(flat)
                           /\ \A j \in 1..m : flat[pos[k - 1] + j] = v[k][j]
        /\ Divides(n, Len(flat)) /\ Divides(m, Len(flat))

\* There are such places, and both lengths divide the number of the elements.
LEMMA Packing ==
    ASSUME NEW v, NEW m, Rectangular(v, m)
    PROVE  \E pos : Packed(v, m, FlattenSeq(v), pos)
<1> DEFINE flat == FlattenSeq(v)
           n == Len(v)
           M == Seq(Byte) \cup {Nil}
<1>0. /\ v \in Seq(Seq(M)) /\ n \in Nat \ {0} /\ m \in Nat \ {0}
      /\ \A k \in 1..n : Len(v[k]) = m
  BY DEF Rectangular
<1> HIDE DEF M
<1>1. flat \in Seq(M) /\ Len(flat) \in Nat
  BY <1>0, FlattenParts, LenProperties
<1>2. PICK pos : Ends(v, pos)
  BY <1>0, FlattenParts
<1>3. /\ pos \in [0..n -> Nat] /\ pos[0] = 0 /\ pos[n] = Len(flat)
      /\ \A k \in 1..n : pos[k] = pos[k - 1] + m /\ Has(flat, pos[k - 1], v[k])
  BY <1>0, <1>2 DEF Ends
<1> HIDE DEF flat
<1>4. \A k \in 0..n : pos[k] = k * m
  <2> DEFINE T == {k \in 0..n : pos[k] = k * m}
  <2>1. 0 \in T
    BY <1>0, <1>3
  <2>2. ASSUME NEW k \in 1..n, k - 1 \in T PROVE k \in T
    <3>1. pos[k - 1] = (k - 1) * m /\ pos[k] = pos[k - 1] + m
      BY <1>3, <2>2
    <3>2. (k - 1) * m + m = k * m
      BY <1>0
    <3> QED
      BY <3>1, <3>2
  <2> HIDE DEF T
  <2>3. \A k \in 0..n : k \in T
    BY <1>0, <2>1, <2>2, UpTo
  <2> QED
    BY <2>3 DEF T
<1>5. Len(flat) = n * m
  <2>1. n \in 0..n
    BY <1>0
  <2> QED
    BY <1>3, <1>4, <2>1
<1>6. n * m >= n /\ n * m >= m /\ n * m \in Nat /\ n * m = m * n
  <2> HIDE DEF n
  <2>1. n \in Nat /\ m \in Nat /\ n >= 1 /\ m >= 1
    BY <1>0
  <2>2. n * m \in Nat /\ n * m = m * n
    BY <2>1
  <2>3. (n - 1) * m >= 0 /\ (n - 1) * m = n * m - m
    BY <2>1
  <2>4. n * (m - 1) >= 0 /\ n * (m - 1) = n * m - n
    BY <2>1
  <2> QED
    BY <2>1, <2>2, <2>3, <2>4
<1>7. Divides(n, Len(flat)) /\ Divides(m, Len(flat))
  <2>1. m \in 0..Len(flat) /\ n \in 0..Len(flat)
    BY <1>0, <1>5, <1>6
  <2>2. Len(flat) = n * m /\ Len(flat) = m * n
    BY <1>5, <1>6
  <2> QED
    BY <2>1, <2>2 DEF Divides
<1>8. ASSUME NEW k \in 1..n
      PROVE  /\ pos[k - 1] \in Nat /\ pos[k] = pos[k - 1] + m /\ pos[k] <= Len(flat)
             /\ \A j \in 1..m : flat[pos[k - 1] + j] = v[k][j]
  <2>2. pos[k] = pos[k - 1] + m /\ Has(flat, pos[k - 1], v[k]) /\ Len(v[k]) = m
    BY <1>0, <1>3
  <2> QED
    BY <2>2 DEF Has
<1>9. Packed(v, m, flat, pos)
  BY <1>0, <1>1, <1>3, <1>7, <1>8 DEF Packed, M
<1> QED
  BY <1>9 DEF flat

\* Where parseArray is in the text of an array of arrays.
AtFirst == depth \in 0..2 /\ i = depth + 1 /\ dims = <<>> /\ elems = <<>>
InCell(v, flat, pos, first, last) ==
    \E a \in 1..Len(v) : \E from, to :
        /\ RowAt(src, del, v[a], first[a], last[a], from, to)
        /\ \E b \in 1..Len(v[a]) :
               /\ depth = 2 /\ dims = <<a - 1, b - 1>>
               /\ elems = SubSeq(flat, 1, (pos[a - 1] + b) - 1)
               /\ InElementAt(v[a][b], from[b], to[b])
AfterCell(v, flat, pos, first, last) ==
    \E a \in 1..Len(v) : \E from, to :
        /\ RowAt(src, del, v[a], first[a], last[a], from, to)
        /\ \E b \in 1..Len(v[a]) :
               /\ depth = 2 /\ dims = <<a - 1, b - 1>>
               /\ elems = SubSeq(flat, 1, pos[a - 1] + b)
               /\ pc = "after" /\ i = to[b]
BeforeRow(v, m, flat, pos, first) ==
    \E a \in 1..Len(v) : /\ pc = "element" /\ i = first[a]
                         /\ depth = 1 /\ dims = <<a - 1, m>>
                         /\ elems = SubSeq(flat, 1, pos[a - 1])
AfterRow(v, m, flat, pos, last) ==
    \E a \in 1..Len(v) : /\ pc = "after" /\ i = last[a] + 1
                         /\ depth = 1 /\ dims = <<a - 1, m>> /\ elems = SubSeq(flat, 1, pos[a])
GridRead(v, m, flat) == i = Len(src) + 1 /\ depth = 0 /\ dims = <<Len(v), m>> /\ elems = flat
GridPlace(v, m, flat, pos, first, last) ==
    \/ pc = "start" /\ AtFirst /\ depth = 0
    \/ pc = "open" /\ AtFirst
    \/ InCell(v, flat, pos, first, last)
    \/ AfterCell(v, flat, pos, first, last)
    \/ BeforeRow(v, m, flat, pos, first)
    \/ AfterRow(v, m, flat, pos, last)
    \/ pc \in {"after", "close", "done"} /\ GridRead(v, m, flat)
Grid(v, m, flat, pos, first, last) ==
    /\ Rectangular(v, m) /\ Packed(v, m, flat, pos) /\ GridAt(src, del, v, first, last)

\* The lengths of two dimensions.
LEMMA Pairs ==
    ASSUME NEW x, NEW y, NEW c
    PROVE  /\ [<<x, y>> EXCEPT ![1] = c] = <<c, y>> /\ [<<x, y>> EXCEPT ![2] = c] = <<x, c>>
           /\ Len(<<x, y>>) = 2 /\ <<x, y>>[1] = x /\ <<x, y>>[2] = y
OBVIOUS

\* What a grid has.
LEMMA GridHas ==
    ASSUME NEW v, NEW m, NEW flat, NEW pos, NEW first, NEW last,
           Grid(v, m, flat, pos, first, last)
    PROVE  /\ src \in Seq(Byte) /\ Len(src) \in Nat /\ del \in Seq(Byte) \ {<<>>}
           /\ del[1] # RBrace /\ Len(del) \in Nat \ {0} /\ Len(v) \in Nat \ {0} /\ m \in Nat \ {0}
           /\ src[1] = LBrace /\ first[1] = 2 /\ src[Len(src)] = RBrace /\ last[Len(v)] + 1 = Len(src)
           /\ flat \in Seq(Seq(Byte) \cup {Nil}) /\ pos[0] = 0 /\ pos[Len(v)] = Len(flat)
           /\ Len(flat) \in Nat
           /\ \A a \in 1..Len(v) :
                  /\ Len(v[a]) = m /\ first[a] \in Nat \ {0} /\ last[a] \in Nat
                  /\ last[a] < Len(src) /\ pos[a - 1] \in Nat /\ pos[a] = pos[a - 1] + m
                  /\ pos[a] <= Len(flat)
                  /\ \E from, to : RowAt(src, del, v[a], first[a], last[a], from, to)
<1>1. \A a \in 1..Len(v) : Len(v[a]) = m
  BY DEF Grid, Rectangular
<1>2. /\ Len(v) \in Nat \ {0} /\ m \in Nat \ {0} /\ flat \in Seq(Seq(Byte) \cup {Nil})
      /\ Len(flat) \in Nat /\ pos[0] = 0 /\ pos[Len(v)] = Len(flat)
      /\ \A a \in 1..Len(v) : /\ pos[a - 1] \in Nat /\ pos[a] = pos[a - 1] + m
                              /\ pos[a] <= Len(flat)
  BY Zenon DEF Grid, Packed
<1>3. /\ src \in Seq(Byte) /\ Len(src) \in Nat /\ del \in Seq(Byte) \ {<<>>}
      /\ del[1] # RBrace /\ Len(del) \in Nat \ {0}
      /\ src[1] = LBrace /\ first[1] = 2 /\ src[Len(src)] = RBrace /\ last[Len(v)] + 1 = Len(src)
      /\ \A a \in 1..Len(v) : /\ first[a] \in Nat \ {0} /\ last[a] \in Nat /\ last[a] < Len(src)
                              /\ \E from, to : RowAt(src, del, v[a], first[a], last[a], from, to)
  BY Zenon DEF Grid, GridAt
<1> QED
  BY <1>1, <1>2, <1>3, Zenon

\* A cell of a row.
LEMMA RowHas ==
    ASSUME NEW s, NEW d, NEW es, NEW f, NEW l, NEW from, NEW to, RowAt(s, d, es, f, l, from, to)
    PROVE  /\ Len(es) \in Nat \ {0} /\ s[f] = LBrace /\ s[l] = RBrace /\ from[1] = f + 1
           /\ to[Len(es)] = l /\ f \in Nat \ {0} /\ l \in Nat /\ l <= Len(s) /\ Len(s) \in Nat
           /\ f <= Len(s)
           /\ \A b \in 1..Len(es) :
                  /\ ElementIn(s, d, from[b], to[b], es[b])
                  /\ from[b] \in Nat \ {0} /\ to[b] \in Nat \ {0} /\ to[b] <= Len(s)
                  /\ from[b] <= Len(s) /\ s[from[b]] \notin {LBrace, RBrace}
<1>1. /\ Len(es) \in Nat \ {0} /\ s[f] = LBrace /\ s[l] = RBrace /\ from[1] = f + 1
      /\ to[Len(es)] = l /\ f \in Nat \ {0} /\ l \in Nat /\ l <= Len(s)
      /\ \A b \in 1..Len(es) : ElementIn(s, d, from[b], to[b], es[b])
  BY Zenon DEF RowAt
<1>2. ASSUME NEW b \in 1..Len(es)
      PROVE  /\ from[b] \in Nat \ {0} /\ to[b] \in Nat \ {0} /\ to[b] <= Len(s)
             /\ from[b] <= Len(s) /\ s[from[b]] \notin {LBrace, RBrace} /\ Len(s) \in Nat
  <2>1. /\ from[b] \in Nat \ {0} /\ to[b] \in Nat /\ from[b] < to[b] /\ to[b] <= Len(s)
        /\ s[from[b]] \notin {LBrace, RBrace} /\ Len(s) \in Nat
    BY <1>1 DEF ElementIn
  <2> QED
    BY <2>1
<1>3. 1 \in 1..Len(es)
  BY <1>1
<1>4. Len(s) \in Nat /\ f <= Len(s)
  BY <1>1, <1>2, <1>3
<1> QED
  BY <1>1, <1>2, <1>4

\* The first bracket.
LEMMA GridStart ==
    ASSUME NEW v, NEW m, NEW flat, NEW pos, NEW first, NEW last,
           Grid(v, m, flat, pos, first, last), pc = "start", AtFirst, depth = 0, Start
    PROVE  GridPlace(v, m, flat, pos, first, last)'
<1>1. Len(src) \in Nat /\ src[1] = LBrace /\ i = 1 /\ 1 <= Len(src)
  <2>1. /\ Len(src) \in Nat /\ src[1] = LBrace /\ Len(v) \in Nat \ {0}
        /\ last[Len(v)] + 1 = Len(src) /\ \A a \in 1..Len(v) : last[a] \in Nat
    BY GridHas
  <2> QED
    BY <2>1 DEF AtFirst
<1>2. pc' = "open" /\ UNCHANGED <<i, depth, dims, elems>>
  BY <1>1 DEF Start, At, AtEnd, Goes
<1> QED
  BY <1>2 DEF GridPlace, AtFirst

\* Two brackets open, and the first element of all begins.
LEMMA GridOpen ==
    ASSUME NEW v, NEW m, NEW flat, NEW pos, NEW first, NEW last,
           Grid(v, m, flat, pos, first, last), pc = "open", AtFirst, Open
    PROVE  GridPlace(v, m, flat, pos, first, last)'
<1>0. 1 \in 1..Len(v) /\ Len(v[1]) = m /\ m \in Nat \ {0} /\ pos[0] = 0
      /\ flat \in Seq(Seq(Byte) \cup {Nil}) /\ src[1] = LBrace /\ first[1] = 2
      /\ Len(src) \in Nat
  BY GridHas
<1>1. PICK from, to : RowAt(src, del, v[1], 2, last[1], from, to)
  BY <1>0, GridHas
<1>2. /\ src[2] = LBrace /\ from[1] = 3 /\ 2 <= Len(src) /\ 1 \in 1..Len(v[1])
      /\ src[3] \notin {LBrace, RBrace}
  BY <1>0, <1>1, RowHas
<1>3. CASE depth \in 0..1
  <2>1. At(LBrace) /\ ~At(RBrace)
    BY <1>0, <1>2, <1>3 DEF AtFirst, At, AtEnd, LBrace, RBrace
  <2>2. depth' = depth + 1 /\ i' = i + 1 /\ UNCHANGED <<pc, dims, elems>>
    BY <2>1 DEF Open
  <2>3. AtFirst'
    BY <1>3, <2>2 DEF AtFirst
  <2> QED
    BY <2>2, <2>3 DEF GridPlace
<1>4. CASE depth = 2
  <2>1. i = 3 /\ ~At(LBrace) /\ ~At(RBrace)
    BY <1>2, <1>4 DEF AtFirst, At
  <2>2. dims' = [k \in 1..2 |-> 0] /\ pc' = "element" /\ UNCHANGED <<src, del, i, depth, elems>>
    BY <1>4, <2>1 DEF Open
  <2>3. dims' = <<1 - 1, 1 - 1>>
    <3>1. [k \in 1..2 |-> 0] = <<0, 0>>
      OBVIOUS
    <3> QED
      BY <2>2, <3>1
  <2>4. elems' = SubSeq(flat, 1, (pos[1 - 1] + 1) - 1)
    <3>1. SubSeq(flat, 1, 0) = <<>>
      BY <1>0, Prefix
    <3>2. (pos[1 - 1] + 1) - 1 = 0
      BY <1>0
    <3> QED
      BY <2>2, <3>1, <3>2 DEF AtFirst
  <2>5. InElementAt(v[1][1], from[1], to[1])'
    BY <1>2, <2>1, <2>2 DEF InElementAt
  <2>6. RowAt(src', del', v[1], first[1], last[1], from, to)
    BY <1>0, <1>1, <2>2
  <2>7. InCell(v, flat, pos, first, last)'
    BY <1>0, <1>2, <1>4, <2>2, <2>3, <2>4, <2>5, <2>6 DEF InCell
  <2> QED
    BY <2>7 DEF GridPlace
<1> QED
  BY <1>3, <1>4 DEF AtFirst

\* A step within an element of a row.
LEMMA CellStep ==
    ASSUME NEW v, NEW m, NEW flat, NEW pos, NEW first, NEW last,
           Grid(v, m, flat, pos, first, last), InCell(v, flat, pos, first, last), Next
    PROVE  GridPlace(v, m, flat, pos, first, last)'
<1>1. PICK a \in 1..Len(v) : \E from, to :
          /\ RowAt(src, del, v[a], first[a], last[a], from, to)
          /\ \E b \in 1..Len(v[a]) :
                 /\ depth = 2 /\ dims = <<a - 1, b - 1>>
                 /\ elems = SubSeq(flat, 1, (pos[a - 1] + b) - 1)
                 /\ InElementAt(v[a][b], from[b], to[b])
  BY DEF InCell
<1>2. PICK from, to :
          /\ RowAt(src, del, v[a], first[a], last[a], from, to)
          /\ \E b \in 1..Len(v[a]) :
                 /\ depth = 2 /\ dims = <<a - 1, b - 1>>
                 /\ elems = SubSeq(flat, 1, (pos[a - 1] + b) - 1)
                 /\ InElementAt(v[a][b], from[b], to[b])
  BY <1>1
<1>3. PICK b \in 1..Len(v[a]) :
          /\ depth = 2 /\ dims = <<a - 1, b - 1>>
          /\ elems = SubSeq(flat, 1, (pos[a - 1] + b) - 1)
          /\ InElementAt(v[a][b], from[b], to[b])
  BY <1>2
<1> DEFINE e == v[a][b]
<1>4. ElementIn(src, del, from[b], to[b], e)
  BY <1>2, RowHas
<1>5. ElementGoesOn(e, from[b], to[b])
  BY <1>3, <1>4, ElementStep
<1>6. /\ src' = src /\ del' = del /\ depth' = depth /\ dims' = dims
      /\ \/ elems' = elems /\ InElementAt(e, from[b], to[b])'
         \/ elems' = Append(elems, e) /\ pc' = "after" /\ i' = to[b]
  BY <1>5 DEF ElementGoesOn
<1>7. RowAt(src', del', v[a], first[a], last[a], from, to)
  BY <1>2, <1>6
<1>8. CASE elems' = elems /\ InElementAt(e, from[b], to[b])'
  <2>1. InCell(v, flat, pos, first, last)'
    BY <1>3, <1>6, <1>7, <1>8 DEF InCell
  <2> QED
    BY <2>1 DEF GridPlace
<1>9. CASE elems' = Append(elems, e) /\ pc' = "after" /\ i' = to[b]
  <2> DEFINE k == pos[a - 1] + b
  <2>1. k \in 1..Len(flat) /\ flat[k] = e /\ flat \in Seq(Seq(Byte) \cup {Nil})
    <3>1. /\ Len(v[a]) = m /\ pos[a - 1] \in Nat /\ pos[a] = pos[a - 1] + m /\ pos[a] <= Len(flat)
          /\ Len(flat) \in Nat /\ m \in Nat /\ flat \in Seq(Seq(Byte) \cup {Nil})
      BY GridHas, SMTT(30)
    <3>2. b \in 1..m
      BY <3>1
    <3>3. flat[pos[a - 1] + b] = v[a][b]
      BY <3>2 DEF Grid, Packed
    <3> QED
      BY <3>1, <3>2, <3>3, SMTT(30)
  <2> HIDE DEF k, e
  <2>2. Append(SubSeq(flat, 1, k - 1), flat[k]) = SubSeq(flat, 1, k)
    BY <2>1, Prefix
  <2>3. elems = SubSeq(flat, 1, k - 1)
    BY <1>3 DEF k
  <2>4. elems' = SubSeq(flat, 1, k)
    BY <1>9, <2>1, <2>2, <2>3
  <2>5. elems' = SubSeq(flat, 1, pos[a - 1] + b)
    BY <2>4 DEF k
  <2>6. AfterCell(v, flat, pos, first, last)'
    BY <1>3, <1>6, <1>7, <1>9, <2>5 DEF AfterCell
  <2> QED
    BY <2>6 DEF GridPlace
<1> QED
  BY <1>6, <1>8, <1>9

\* What follows an element of a row: the next, or the end of the row.
LEMMA CellAfter ==
    ASSUME NEW v, NEW m, NEW flat, NEW pos, NEW first, NEW last,
           Grid(v, m, flat, pos, first, last), AfterCell(v, flat, pos, first, last), After
    PROVE  GridPlace(v, m, flat, pos, first, last)'
<1>1. PICK a \in 1..Len(v) : \E from, to :
          /\ RowAt(src, del, v[a], first[a], last[a], from, to)
          /\ \E b \in 1..Len(v[a]) :
                 /\ depth = 2 /\ dims = <<a - 1, b - 1>>
                 /\ elems = SubSeq(flat, 1, pos[a - 1] + b)
                 /\ pc = "after" /\ i = to[b]
  BY DEF AfterCell
<1>2. PICK from, to :
          /\ RowAt(src, del, v[a], first[a], last[a], from, to)
          /\ \E b \in 1..Len(v[a]) :
                 /\ depth = 2 /\ dims = <<a - 1, b - 1>>
                 /\ elems = SubSeq(flat, 1, pos[a - 1] + b)
                 /\ pc = "after" /\ i = to[b]
  BY <1>1
<1>3. PICK b \in 1..Len(v[a]) :
          /\ depth = 2 /\ dims = <<a - 1, b - 1>>
          /\ elems = SubSeq(flat, 1, pos[a - 1] + b)
          /\ pc = "after" /\ i = to[b]
  BY <1>2
<1>4. /\ Len(v[a]) = m /\ m \in Nat \ {0} /\ pos[a - 1] \in Nat /\ pos[a] = pos[a - 1] + m
      /\ src \in Seq(Byte) /\ del \in Seq(Byte) \ {<<>>} /\ del[1] # RBrace /\ Len(src) \in Nat
  BY GridHas
<1>5. /\ i \in Nat \ {0} /\ i <= Len(src) /\ to[m] = last[a] /\ src[last[a]] = RBrace
  <2>1. /\ to[Len(v[a])] = last[a] /\ src[last[a]] = RBrace
        /\ to[b] \in Nat \ {0} /\ to[b] <= Len(src)
    BY <1>2, RowHas, SMTT(30)
  <2> QED
    BY <1>3, <1>4, <2>1
<1>6. ~AtEnd
  BY <1>4, <1>5 DEF AtEnd
<1> DEFINE c == b - 1
<1>7. /\ [dims EXCEPT ![2] = c + 1] = <<a - 1, b>> /\ dims[2] = c
  <2>1. c + 1 = b
    OBVIOUS
  <2>2. dims = <<a - 1, c>>
    BY <1>3
  <2> HIDE DEF c
  <2> QED
    BY <2>1, <2>2, Pairs
<1> HIDE DEF c
<1>8. CASE b = m
  <2>1. src[i] = RBrace /\ i = last[a]
    BY <1>3, <1>5, <1>8
  <2>2. ~AtDelimiter
    BY <1>4, <1>5, <2>1, DelimiterFirst
  <2>3. At(RBrace)
    BY <1>6, <2>1 DEF At
  <2>4. /\ dims' = [dims EXCEPT ![2] = CountedLast(dims[2])]
        /\ depth' = 1 /\ i' = i + 1 /\ UNCHANGED <<src, del, pc, elems>>
    BY <1>3, <1>6, <2>2, <2>3 DEF After
  <2>5. dims' = <<a - 1, m>>
    BY <1>7, <1>8, <2>4 DEF CountedLast
  <2>6. elems' = SubSeq(flat, 1, pos[a])
    BY <1>3, <1>4, <1>8, <2>4
  <2>7. AfterRow(v, m, flat, pos, last)'
    BY <1>3, <2>1, <2>4, <2>5, <2>6 DEF AfterRow
  <2> QED
    BY <2>7 DEF GridPlace
<1>9. CASE b # m
  <2>1. b \in 1..(Len(v[a]) - 1) /\ b + 1 \in 1..Len(v[a]) /\ (b + 1) - 1 = b
    BY <1>4, <1>9
  <2>2. /\ from[b + 1] = to[b] + Len(del) /\ to[b] + Len(del) - 1 <= Len(src)
        /\ SubSeq(src, to[b], to[b] + Len(del) - 1) = del
    BY <1>2, <2>1, Zenon DEF RowAt
  <2>3. AtDelimiter
    BY <1>3, <2>2 DEF AtDelimiter
  <2>4. /\ dims' = [dims EXCEPT ![2] = Counted(dims[2])] /\ i' = from[b + 1] /\ pc' = "element"
        /\ UNCHANGED <<src, del, depth, elems>>
    BY <1>3, <1>6, <2>2, <2>3 DEF After
  <2>5. dims' = <<a - 1, (b + 1) - 1>>
    BY <1>7, <2>1, <2>4 DEF Counted
  <2>6. elems' = SubSeq(flat, 1, (pos[a - 1] + (b + 1)) - 1)
    <3>1. (pos[a - 1] + (b + 1)) - 1 = pos[a - 1] + b
      <4>1. pos[a - 1] \in Nat /\ b \in Nat
        BY <1>4
      <4> QED
        BY <4>1, SMTT(30)
    <3> QED
      BY <1>3, <2>4, <3>1
  <2>7. InElementAt(v[a][b + 1], from[b + 1], to[b + 1])'
    BY <2>4 DEF InElementAt
  <2>8. RowAt(src', del', v[a], first[a], last[a], from, to)
    BY <1>2, <2>4
  <2>9. InCell(v, flat, pos, first, last)'
    BY <1>3, <2>1, <2>4, <2>5, <2>6, <2>7, <2>8 DEF InCell
  <2> QED
    BY <2>9 DEF GridPlace
<1> QED
  BY <1>8, <1>9

\* The bracket before a row.
LEMMA RowBegins ==
    ASSUME NEW v, NEW m, NEW flat, NEW pos, NEW first, NEW last,
           Grid(v, m, flat, pos, first, last), BeforeRow(v, m, flat, pos, first),
           ElementOpens \/ ElementStarts
    PROVE  GridPlace(v, m, flat, pos, first, last)'
<1>1. PICK a \in 1..Len(v) : /\ pc = "element" /\ i = first[a]
                             /\ depth = 1 /\ dims = <<a - 1, m>>
                             /\ elems = SubSeq(flat, 1, pos[a - 1])
  BY DEF BeforeRow
<1>2. PICK from, to : RowAt(src, del, v[a], first[a], last[a], from, to)
  BY GridHas
<1>3. /\ src[first[a]] = LBrace /\ first[a] <= Len(src) /\ Len(src) \in Nat
      /\ first[a] \in Nat \ {0} /\ from[1] = first[a] + 1 /\ 1 \in 1..Len(v[a])
  BY <1>2, RowHas
<1>4. At(LBrace) /\ ~TooDeep
  <2>1. Len(dims) = 2
    BY <1>1, Pairs
  <2> QED
    BY <1>1, <1>3, <2>1 DEF At, AtEnd, TooDeep
<1>5. /\ depth' = depth + 1 /\ dims' = [dims EXCEPT ![depth + 1] = 0] /\ i' = i + 1
      /\ UNCHANGED <<src, del, pc, elems>>
  BY <1>4 DEF ElementOpens, ElementStarts
<1>6. depth' = 2 /\ dims' = <<a - 1, 1 - 1>>
  <2>1. depth + 1 = 2
    BY <1>1
  <2>2. dims' = [<<a - 1, m>> EXCEPT ![2] = 0]
    BY <1>1, <1>5, <2>1
  <2> QED
    BY <1>5, <2>1, <2>2, Pairs
<1>7. elems' = SubSeq(flat, 1, (pos[a - 1] + 1) - 1)
  <2>1. pos[a - 1] \in Nat
    BY GridHas
  <2>2. (pos[a - 1] + 1) - 1 = pos[a - 1]
    BY <2>1
  <2> QED
    BY <1>1, <1>5, <2>2
<1>8. InElementAt(v[a][1], from[1], to[1])'
  BY <1>1, <1>3, <1>5, SMTT(30) DEF InElementAt
<1>9. RowAt(src', del', v[a], first[a], last[a], from, to)
  BY <1>2, <1>5
<1>10. InCell(v, flat, pos, first, last)'
  BY <1>3, <1>6, <1>7, <1>8, <1>9 DEF InCell
<1> QED
  BY <1>10 DEF GridPlace

\* What follows a row: the next, or the bracket at the end.
LEMMA RowAfter ==
    ASSUME NEW v, NEW m, NEW flat, NEW pos, NEW first, NEW last,
           Grid(v, m, flat, pos, first, last), AfterRow(v, m, flat, pos, last), After
    PROVE  GridPlace(v, m, flat, pos, first, last)'
<1>1. PICK a \in 1..Len(v) : /\ pc = "after" /\ i = last[a] + 1
                             /\ depth = 1 /\ dims = <<a - 1, m>> /\ elems = SubSeq(flat, 1, pos[a])
  BY DEF AfterRow
<1>2. /\ Len(v) \in Nat \ {0} /\ src \in Seq(Byte) /\ del \in Seq(Byte) \ {<<>>}
      /\ del[1] # RBrace /\ Len(src) \in Nat /\ Len(del) \in Nat \ {0}
      /\ last[a] \in Nat /\ last[a] < Len(src)
  BY GridHas
<1>3. i \in Nat \ {0} /\ i <= Len(src)
  BY <1>1, <1>2, SMTT(30)
<1>4. ~AtEnd
  BY <1>2, <1>3 DEF AtEnd
<1> DEFINE c == a - 1
<1>5. /\ [dims EXCEPT ![1] = c + 1] = <<a, m>> /\ dims[1] = c
  <2>1. c + 1 = a
    OBVIOUS
  <2>2. dims = <<c, m>>
    BY <1>1
  <2> HIDE DEF c
  <2> QED
    BY <2>1, <2>2, Pairs
<1> HIDE DEF c
<1>6. CASE a = Len(v)
  <2>1. src[i] = RBrace /\ i = Len(src) /\ elems = flat
    <3>1. /\ src[Len(src)] = RBrace /\ last[Len(v)] + 1 = Len(src) /\ pos[Len(v)] = Len(flat)
          /\ flat \in Seq(Seq(Byte) \cup {Nil})
      BY GridHas
    <3>2. SubSeq(flat, 1, Len(flat)) = flat
      BY <3>1, Prefix
    <3> QED
      BY <1>1, <1>6, <3>1, <3>2
  <2>2. ~AtDelimiter
    BY <1>2, <1>3, <2>1, DelimiterFirst
  <2>3. At(RBrace)
    BY <1>4, <2>1 DEF At
  <2>4. /\ dims' = [dims EXCEPT ![1] = CountedLast(dims[1])]
        /\ depth' = 0 /\ i' = i + 1 /\ UNCHANGED <<src, del, pc, elems>>
    BY <1>1, <1>4, <2>2, <2>3 DEF After
  <2>5. dims' = <<Len(v), m>>
    BY <1>5, <1>6, <2>4 DEF CountedLast
  <2>6. GridRead(v, m, flat)' /\ pc' = "after"
    BY <1>1, <2>1, <2>4, <2>5 DEF GridRead
  <2> QED
    BY <2>6 DEF GridPlace
<1>7. CASE a # Len(v)
  <2>1. a \in 1..(Len(v) - 1) /\ a + 1 \in 1..Len(v) /\ (a + 1) - 1 = a
    BY <1>2, <1>7
  <2>2. /\ first[a + 1] = last[a] + 1 + Len(del) /\ last[a] + Len(del) <= Len(src)
        /\ SubSeq(src, last[a] + 1, last[a] + 1 + Len(del) - 1) = del
    BY <2>1, Zenon DEF Grid, GridAt
  <2>3. AtDelimiter
    <3>1. last[a] + 1 + Len(del) - 1 <= Len(src)
      BY <1>2, <2>2
    <3> QED
      BY <1>1, <2>2, <3>1 DEF AtDelimiter
  <2>4. /\ dims' = [dims EXCEPT ![1] = Counted(dims[1])] /\ i' = first[a + 1] /\ pc' = "element"
        /\ UNCHANGED <<src, del, depth, elems>>
    BY <1>1, <1>4, <2>2, <2>3, SMTT(30) DEF After
  <2>5. dims' = <<(a + 1) - 1, m>> /\ elems' = SubSeq(flat, 1, pos[(a + 1) - 1])
    BY <1>1, <1>5, <2>1, <2>4 DEF Counted
  <2>6. BeforeRow(v, m, flat, pos, first)'
    BY <1>1, <2>1, <2>4, <2>5 DEF BeforeRow
  <2> QED
    BY <2>6 DEF GridPlace
<1> QED
  BY <1>6, <1>7

\* The end.
LEMMA GridEnds ==
    ASSUME NEW v, NEW m, NEW flat, NEW pos, NEW first, NEW last,
           Grid(v, m, flat, pos, first, last), GridRead(v, m, flat),
           pc \in {"after", "close", "done"}, After \/ Close
    PROVE  GridPlace(v, m, flat, pos, first, last)'
<1>1. AtEnd /\ dims = <<Len(v), m>> /\ depth = 0 /\ elems = flat
  <2>1. Len(src) \in Nat
    BY GridHas
  <2> QED
    BY <2>1 DEF AtEnd, GridRead
<1>2. \A k \in 1..Len(dims) : Divides(dims[k], Len(elems))
  <2>1. Divides(Len(v), Len(flat)) /\ Divides(m, Len(flat))
    BY Zenon DEF Grid, Packed
  <2>2. Len(dims) = 2 /\ dims[1] = Len(v) /\ dims[2] = m
    BY <1>1, Pairs
  <2>3. \A k \in 1..2 : k = 1 \/ k = 2
    OBVIOUS
  <2> QED
    BY <1>1, <2>1, <2>2, <2>3
<1>3. pc' \in {"close", "done"} /\ UNCHANGED <<src, i, depth, dims, elems>>
  <2>1. CASE After
    BY <1>1, <2>1 DEF After, Goes
  <2>2. CASE Close
    BY <1>1, <1>2, <2>2 DEF Close, Goes
  <2> QED
    BY <2>1, <2>2
<1>4. GridRead(v, m, flat)'
  BY <1>3 DEF GridRead
<1> QED
  BY <1>3, <1>4 DEF GridPlace

\* Every step of parseArray in an array of arrays.
LEMMA GridStep ==
    ASSUME NEW v, NEW m, NEW flat, NEW pos, NEW first, NEW last,
           Grid(v, m, flat, pos, first, last), GridPlace(v, m, flat, pos, first, last), Next
    PROVE  GridPlace(v, m, flat, pos, first, last)'
<1>1. CASE pc = "start" /\ AtFirst /\ depth = 0
  <2>1. Start
    BY <1>1 DEF Next, Open, ElementOpens, ElementStarts, Quoted, Plain, After, Close
  <2> QED
    BY <1>1, <2>1, GridStart
<1>2. CASE pc = "open" /\ AtFirst
  <2>1. Open
    BY <1>2 DEF Next, Start, ElementOpens, ElementStarts, Quoted, Plain, After, Close
  <2> QED
    BY <1>2, <2>1, GridOpen
<1>3. CASE InCell(v, flat, pos, first, last)
  BY <1>3, CellStep
<1>4. CASE AfterCell(v, flat, pos, first, last)
  <2>1. pc = "after"
    BY <1>4 DEF AfterCell
  <2>2. After
    BY <2>1 DEF Next, Start, Open, ElementOpens, ElementStarts, Quoted, Plain, Close
  <2> QED
    BY <1>4, <2>2, CellAfter
<1>5. CASE BeforeRow(v, m, flat, pos, first)
  <2>1. pc = "element"
    BY <1>5 DEF BeforeRow
  <2>2. ElementOpens \/ ElementStarts
    BY <2>1 DEF Next, Start, Open, Quoted, Plain, After, Close
  <2> QED
    BY <1>5, <2>2, RowBegins
<1>6. CASE AfterRow(v, m, flat, pos, last)
  <2>1. pc = "after"
    BY <1>6 DEF AfterRow
  <2>2. After
    BY <2>1 DEF Next, Start, Open, ElementOpens, ElementStarts, Quoted, Plain, Close
  <2> QED
    BY <1>6, <2>2, RowAfter
<1>7. CASE pc \in {"after", "close", "done"} /\ GridRead(v, m, flat)
  <2>1. After \/ Close
    BY <1>7 DEF Next, Start, Open, ElementOpens, ElementStarts, Quoted, Plain
  <2> QED
    BY <1>7, <2>1, GridEnds
<1> QED
  BY <1>1, <1>2, <1>3, <1>4, <1>5, <1>6, <1>7 DEF GridPlace

\* Arrays of arrays are rectangular, and no part of them is empty.
RectangularArrays ==
    \A v \in NestedArrays : /\ v \notin {<<>>, NilArray} /\ v[1] # <<>>
                            /\ \A k \in 1..Len(v) : Len(v[k]) = Len(v[1])

IsNested == given.kind = "array" /\ given.type = "nested"
\* parseArray is somewhere in what Value has written of v.
OnGrid(v) ==
    \E m, flat, pos, first, last :
        /\ flat = FlattenSeq(v) /\ Grid(v, m, flat, pos, first, last)
        /\ GridPlace(v, m, flat, pos, first, last)
NestedInv == IsNested => OnGrid(given.val)
NestedRoundTrip == IsNested => ArrayRoundTrip

\* At first parseArray is at the beginning of what Value has written,
LEMMA NestedInit ==
    ASSUME PlainDelimiters, RectangularArrays, FInit
    PROVE  NestedInv /\ NestedRoundTrip
<1>1. src = Written(given, del) /\ Begins /\ read = "no"
  BY DEF FInit
<1>2. NestedRoundTrip
  BY <1>1 DEF NestedRoundTrip, ArrayRoundTrip
<1>3. ASSUME IsNested PROVE OnGrid(given.val)
  <2>1. PICK v \in NestedArrays : given = [kind |-> "array", type |-> "nested", val |-> v]
    <3>1. ~\E a \in GivenArrays : given = [kind |-> "array", type |-> a.type, val |-> a.val]
      <4>1. \A a \in GivenArrays : a.type # "nested"
        BY ArraysAssumption
      <4> QED
        BY <1>3, <4>1 DEF IsNested
    <3> QED
      BY <1>3, <3>1 DEF FInit, IsNested
  <2>2. given.kind = "array" /\ given.type = "nested" /\ given.val = v
    BY <2>1
  <2>3. del \in Delimiters
    BY <2>2 DEF FInit, IsArray, GenericTypes
  <2>4. FitsWords("generic", del)
    BY <2>3, DelimitersAssumption DEF PlainDelimiters, FitsWords, GenericTypes
  <2> DEFINE m == Len(v[1])
             M == Seq(Byte) \cup {Nil}
  <2>5. Rectangular(v, m)
    <3>1. v \in Seq(Seq(M)) /\ v # <<>>
      BY <2>1, ArraysAssumption DEF RectangularArrays
    <3>2. \A k \in 1..Len(v) : Len(v[k]) = m
      BY <2>1 DEF RectangularArrays
    <3> HIDE DEF M, m
    <3>3. Len(v) \in Nat \ {0} /\ 1 \in 1..Len(v)
      BY <3>1, EmptySeq, LenProperties
    <3>4. v[1] \in Seq(M) /\ v[1] # <<>>
      BY <2>1, <3>1, <3>3, ElementOfSeq DEF RectangularArrays
    <3>5. m \in Nat \ {0}
      BY <3>4, EmptySeq, LenProperties DEF m
    <3> QED
      BY <3>1, <3>2, <3>3, <3>5 DEF Rectangular, M
  <2> HIDE DEF m
  <2>6. src = Brackets(PartsOf("nested", v, del), del)
    <3>1. src = ArrayValue("nested", v, del)
      BY <1>1, <2>2, Zenon DEF Written
    <3>2. v # NilArray
      BY <2>1 DEF RectangularArrays
    <3> QED
      BY <3>1, <3>2, ArrayValueIs, Zenon
  <2>7. PICK first, last : GridAt(src, del, v, first, last)
    BY <2>4, <2>5, <2>6, GridWritten, Zenon
  <2>8. PICK pos : Packed(v, m, FlattenSeq(v), pos)
    BY <2>5, Packing
  <2>9. PICK flat : flat = FlattenSeq(v)
    OBVIOUS
  <2>10. Grid(v, m, flat, pos, first, last)
    BY <2>5, <2>7, <2>8, <2>9 DEF Grid
  <2>11. GridPlace(v, m, flat, pos, first, last)
    BY <1>1 DEF Begins, GridPlace, AtFirst
  <2> QED
    BY <2>2, <2>9, <2>10, <2>11 DEF OnGrid
<1> QED
  BY <1>2, <1>3 DEF NestedInv

\* A step of parseArray goes on in the text, and any other leaves it where it is.
LEMMA OnGridStep ==
    ASSUME NEW v, OnGrid(v), src' = src, del' = del, Next \/ UNCHANGED vars
    PROVE  OnGrid(v)'
<1>1. PICK m, flat, pos, first, last :
          /\ flat = FlattenSeq(v) /\ Grid(v, m, flat, pos, first, last)
          /\ GridPlace(v, m, flat, pos, first, last)
  BY DEF OnGrid
<1>2. Grid(v, m, flat, pos, first, last)'
  BY <1>1 DEF Grid
<1>3. CASE Next
  <2>1. GridPlace(v, m, flat, pos, first, last)'
    BY <1>1, <1>3, GridStep
  <2> QED
    BY <1>1, <1>2, <2>1 DEF OnGrid
<1>4. CASE UNCHANGED vars
  <2>1. /\ i' = i /\ pc' = pc /\ depth' = depth /\ dims' = dims
        /\ elems' = elems /\ elem' = elem /\ escape' = escape
    BY <1>4 DEF vars
  <2>a. src' = src /\ del' = del
    OBVIOUS
  <2>b. ASSUME NEW e, NEW from, NEW to, InElementAt(e, from, to) PROVE InElementAt(e, from, to)'
    BY <2>1, <2>a, <2>b DEF InElementAt, InQuotes, InWord
  <2>2. GridPlace(v, m, flat, pos, first, last)'
    <3>1. ASSUME InCell(v, flat, pos, first, last) PROVE InCell(v, flat, pos, first, last)'
      <4>p. PICK a \in 1..Len(v) : \E from, to :
                /\ RowAt(src, del, v[a], first[a], last[a], from, to)
                /\ \E b \in 1..Len(v[a]) :
                       /\ depth = 2 /\ dims = <<a - 1, b - 1>>
                       /\ elems = SubSeq(flat, 1, (pos[a - 1] + b) - 1)
                       /\ InElementAt(v[a][b], from[b], to[b])
        BY <3>1 DEF InCell
      <4>q. PICK from, to :
                /\ RowAt(src, del, v[a], first[a], last[a], from, to)
                /\ \E b \in 1..Len(v[a]) :
                       /\ depth = 2 /\ dims = <<a - 1, b - 1>>
                       /\ elems = SubSeq(flat, 1, (pos[a - 1] + b) - 1)
                       /\ InElementAt(v[a][b], from[b], to[b])
        BY <4>p
      <4>1. PICK b \in 1..Len(v[a]) :
                /\ depth = 2 /\ dims = <<a - 1, b - 1>>
                /\ elems = SubSeq(flat, 1, (pos[a - 1] + b) - 1)
                /\ InElementAt(v[a][b], from[b], to[b])
        BY <4>q
      <4>2. InElementAt(v[a][b], from[b], to[b])'
        BY <2>b, <4>1
      <4>3. RowAt(src', del', v[a], first[a], last[a], from, to)
        BY <2>a, <4>q
      <4> QED
        BY <2>1, <4>1, <4>2, <4>3 DEF InCell
    <3>2. AfterCell(v, flat, pos, first, last) => AfterCell(v, flat, pos, first, last)'
      BY <2>1, <2>a DEF AfterCell
    <3>3. BeforeRow(v, m, flat, pos, first) => BeforeRow(v, m, flat, pos, first)'
      BY <2>1, <2>a DEF BeforeRow
    <3>4. AfterRow(v, m, flat, pos, last) => AfterRow(v, m, flat, pos, last)'
      BY <2>1, <2>a DEF AfterRow
    <3>5. AtFirst' = AtFirst /\ GridRead(v, m, flat)' = GridRead(v, m, flat)
      BY <2>1, <2>a DEF AtFirst, GridRead
    <3> QED
      BY <1>1, <2>1, <3>1, <3>2, <3>3, <3>4, <3>5 DEF GridPlace
  <2> QED
    BY <1>1, <1>2, <2>2 DEF OnGrid
<1> QED
  BY <1>3, <1>4

\* What has been parsed to its end is the array of arrays.
LEMMA GridScanned ==
    ASSUME NEW v, OnGrid(v), pc \in {"error", "done"}
    PROVE  pc = "done" /\ Flat(v) = [dims |-> dims, elems |-> elems]
<1>1. PICK m, flat, pos, first, last :
          /\ flat = FlattenSeq(v) /\ Grid(v, m, flat, pos, first, last)
          /\ GridPlace(v, m, flat, pos, first, last)
  BY DEF OnGrid
<1>2. pc = "done" /\ GridRead(v, m, flat)
  BY <1>1 DEF GridPlace, InCell, AfterCell, BeforeRow, AfterRow, InElementAt
<1>3. Len(v[1]) = m
  BY <1>1, GridHas
<1> QED
  BY <1>1, <1>2, <1>3 DEF GridRead, Flat

\* and every step keeps it in its place, and Scan reads what was given.
LEMMA NestedStep ==
    ASSUME NestedInv, NestedRoundTrip, [FNext]_fvars
    PROVE  NestedInv' /\ NestedRoundTrip'
<1>1. given' = given /\ src' = src /\ del' = del
  BY GivenStep
<1>2. CASE ~IsNested
  <2>1. ~IsNested'
    BY <1>1, <1>2 DEF IsNested
  <2> QED
    BY <2>1 DEF NestedInv, NestedRoundTrip
<1>3. CASE IsNested
  <2>1. PICK v : v = given.val
    OBVIOUS
  <2>2. OnGrid(v) /\ ArrayRoundTrip
    BY <1>3, <2>1 DEF NestedInv, NestedRoundTrip
  <2>3. given'.val = v /\ given'.type = "nested" /\ given'.kind = "array"
    BY <1>1, <1>3, <2>1 DEF IsNested
  <2>4. Next \/ UNCHANGED vars
    BY DEF FNext, fvars, Parses, ScanNull, Scan, ReadCopy, ReadBytea, ReadName, ReadSettings,
           ReadEntry, ReadTime, Reads, Refuses
  <2>5. OnGrid(v)'
    BY <1>1, <2>2, <2>4, OnGridStep
  <2>6. NestedInv'
    BY <2>3, <2>5 DEF NestedInv
  <2>7. CASE Parses \/ UNCHANGED fvars
    <3>1. given' = given /\ result' = result /\ read' = read
      BY <2>7 DEF Parses, fvars
    <3>2. ArrayRoundTrip'
      BY <2>2, <3>1 DEF ArrayRoundTrip
    <3> QED
      BY <2>6, <3>2 DEF NestedRoundTrip
  <2>8. CASE ScanNull
    <3>1. src \in Seq(Byte)
      <4>1. PICK m, flat, pos, first, last : Grid(v, m, flat, pos, first, last)
        BY <2>2 DEF OnGrid
      <4> QED
        BY <4>1, GridHas
    <3> QED
      BY <2>8, <3>1, NotNil DEF ScanNull
  <2>9. CASE Scan
    <3>1. pc \in {"error", "done"}
      BY <2>9 DEF Scan
    <3>2. pc = "done" /\ Flat(v) = [dims |-> dims, elems |-> elems]
      BY <2>2, <3>1, GridScanned
    <3>3. Reads([dims |-> dims, elems |-> elems])
      BY <1>3, <2>9, <3>2 DEF Scan, IsNested
    <3>4. read' = "yes" /\ result' = Flat(v)
      BY <3>2, <3>3 DEF Reads
    <3>5. ArrayRoundTrip'
      BY <2>3, <3>4 DEF ArrayRoundTrip
    <3> QED
      BY <2>6, <3>5 DEF NestedRoundTrip
  <2>10. CASE ReadCopy \/ ReadBytea \/ ReadName \/ ReadSettings \/ ReadEntry \/ ReadTime
    BY <1>3, <2>10
       DEF IsNested, ReadCopy, ReadBytea, ReadName, ReadSettings, ReadEntry, ReadTime
  <2> QED
    BY <2>7, <2>8, <2>9, <2>10 DEF FNext
<1> QED
  BY <1>2, <1>3

\* An array that Value has written is read back as it was, arrays of arrays too, and only
\* a Go array refuses one, of another length or a nil one: every type of element, every
\* byte in an element, every delimiter that is no bracket and no byte of NULL (array.go:
\* the Value and Scan of each type, appendArray, appendArrayElement,
\* appendArrayQuotedBytes, parseArray, scanLinearArray).
THEOREM EveryArrayArrives ==
    ASSUME PlainDelimiters, RectangularArrays
    PROVE  FSpec => []ArrayRoundTrip
<1> DEFINE Inv == ArrayInv /\ LinearRoundTrip /\ NestedInv /\ NestedRoundTrip
<1>1. FInit => Inv
  BY ArrayInit, NestedInit
<1>2. Inv /\ [FNext]_fvars => Inv'
  BY ArrayStep, NestedStep
<1>3. Inv => ArrayRoundTrip
  BY DEF LinearRoundTrip, NestedRoundTrip, IsLinear, IsNested, ArrayRoundTrip
<1> HIDE DEF Inv
<1> QED
  BY <1>1, <1>2, <1>3, PTL DEF FSpec
================================================================================
