----------------------------- MODULE CommonLemmas ----------------------------
(***************************************************************************)
(* Lemmas that several proofs need.                                        *)
(*                                                                         *)
(* About sequences of rules, as the two redirectors use them: putting a    *)
(* rule first (-I 1) or last (-A), deleting the first one equal to a given *)
(* rule (-D), finding the first rule of a kind, and counting rules.  All   *)
(* three changes are one relation, OneMore: a sequence is another one with *)
(* an element put in at some position.                                     *)
(*                                                                         *)
(* About sets of numbers, by the sequence that lists them upwards, and     *)
(* about the arithmetic of Welford's updates.                              *)
(***************************************************************************)
EXTENDS Integers, SequencesExt, SequenceTheorems, FiniteSetTheorems, TLAPS

\* The positions at which a sequence has an element of X, and their number.
Positions(s, X) == {i \in 1 .. Len(s) : s[i] \in X}
Count(s, X) == Cardinality(Positions(s, X))

\* s is t with e put in at position k.
OneMore(t, k, e, s) ==
  /\ k \in 1 .. Len(s) /\ Len(s) = Len(t) + 1 /\ s[k] = e
  /\ \A i \in 1 .. Len(t) : t[i] = IF i < k THEN s[i] ELSE s[i + 1]

\* e is the first element of X in s.
FirstIs(s, X, e) == \E k \in 1 .. Len(s) : /\ s[k] = e /\ e \in X
                                           /\ \A j \in 1 .. k - 1 : s[j] \notin X

-----------------------------------------------------------------------------
(* The least and the greatest of numbers, and intervals. *)

\* A non-empty set of positions has a least one.
LEMMA LeastPosition ==
  ASSUME NEW I \in SUBSET Nat, I # {}
  PROVE  Min(I) \in I /\ \A i \in I : Min(I) <= i
<1> DEFINE R == {ss \in Nat \X Nat : ss[1] < ss[2]}
<1>1. IsWellFoundedOn(R, Nat)
  BY NatLessThanWellFounded DEF OpToRel
<1>2. PICK x \in I : \A y \in I : ~(<<y, x>> \in R)
  BY <1>1, WFMin
<1>3. ASSUME NEW y \in I PROVE x <= y
  <2>1. x \in Nat /\ y \in Nat /\ <<y, x>> \notin R
    BY <1>2
  <2>2. ~(y < x)
    BY <2>1
  <2> QED
    BY <2>1, <2>2
<1> QED
  BY <1>3 DEF Min

LEMMA LeastIs ==
  ASSUME NEW I \in SUBSET Nat, NEW k \in I, \A i \in I : k <= i
  PROVE  Min(I) = k
<1>1. /\ I # {} /\ k \in Nat /\ I \subseteq Nat
      /\ Min(I) \in I /\ Min(I) <= k /\ k <= Min(I)
  BY LeastPosition
<1>2. PICK m : m = Min(I)
  OBVIOUS
<1>3. m \in Nat /\ k \in Nat /\ m <= k /\ k <= m
  BY <1>1, <1>2
<1>4. m = k
  BY <1>3
<1> QED
  BY <1>2, <1>4

\* A set of numbers that holds 0 and with k also k + 1 holds all up to n.
LEMMA UpTo ==
  ASSUME NEW n \in Nat, NEW S, 0 \in S, \A k \in 0 .. n - 1 : k \in S => k + 1 \in S
  PROVE  \A k \in 0 .. n : k \in S
<1> DEFINE I == {k \in 0 .. n : k \notin S}
<1> SUFFICES ASSUME I # {} PROVE FALSE
  OBVIOUS
<1>1. I \in SUBSET Nat
  OBVIOUS
<1>2. PICK k \in I : \A i \in I : k <= i
  BY <1>1, LeastPosition
<1>3. k \in Nat /\ k # 0 /\ k \in 0 .. n /\ k \notin S
  BY <1>2
<1>4. k - 1 \in 0 .. n - 1 /\ (k - 1) + 1 = k /\ ~(k <= k - 1) /\ k - 1 \in 0 .. n
  BY <1>3
<1>5. k - 1 \in S
  BY <1>2, <1>4
<1> QED
  BY <1>3, <1>4, <1>5

\* What it is to be in an interval.
LEMMA Within ==
  ASSUME NEW x \in Nat, NEW i \in 1 .. x
  PROVE  i \in Nat /\ i > 0 /\ i <= x
OBVIOUS

\* The greatest of some numbers.
LEMMA GreatestIs ==
  ASSUME NEW S \in SUBSET Nat, NEW n \in S, \A i \in S : i <= n
  PROVE  Max(S) = n
<1>1. \A m \in S : (\A i \in S : m >= i) => m = n
  OBVIOUS
<1> QED
  BY <1>1 DEF Max

\* Numbers up to n have a greatest.
LEMMA NumbersHaveGreatest ==
  ASSUME NEW n \in Nat, NEW S \in SUBSET (1 .. n), S # {}
  PROVE  Max(S) \in S /\ \A i \in S : i <= Max(S)
<1>1. PICK m \in S : \A i \in S : i <= m
  <2> DEFINE T == {n - i : i \in S}
  <2>0. ASSUME NEW i \in S PROVE n - i \in Nat
    <3>1. i \in 1 .. n
      OBVIOUS
    <3>2. i \in Nat /\ i <= n
      BY <3>1, Within
    <3> QED
      BY <3>2
  <2>1. T \in SUBSET Nat /\ T # {}
    BY <2>0
  <2>2. Min(T) \in T /\ \A i \in T : Min(T) <= i
    BY <2>1, LeastPosition
  <2>3. PICK m \in S : Min(T) = n - m
    BY <2>2
  <2>4. ASSUME NEW i \in S PROVE i <= m
    <3>1. n - m <= n - i
      BY <2>2, <2>3
    <3> QED
      BY <3>1
  <2> QED
    BY <2>4
<1>2. Max(S) = m
  <2>1. S \in SUBSET Nat
    OBVIOUS
  <2> QED
    BY <1>1, <2>1, GreatestIs
<1> QED
  BY <1>1, <1>2

-----------------------------------------------------------------------------
(* The changes of a chain. *)

\* Putting an element first.
LEMMA PutFirst ==
  ASSUME NEW S, NEW s \in Seq(S), NEW e \in S
  PROVE  <<e>> \o s \in Seq(S) /\ OneMore(s, 1, e, <<e>> \o s)
<1>1. <<e>> \in Seq(S) /\ Len(<<e>>) = 1 /\ <<e>>[1] = e
  OBVIOUS
<1>2. Len(s) \in Nat
  BY LenProperties
<1> QED
  BY <1>1, <1>2, ConcatProperties DEF OneMore

\* Putting an element last.
LEMMA PutLast ==
  ASSUME NEW S, NEW s \in Seq(S), NEW e \in S
  PROVE  Append(s, e) \in Seq(S) /\ OneMore(s, Len(s) + 1, e, Append(s, e))
BY AppendProperties, LenProperties DEF OneMore

\* Deleting at a position.
LEMMA DeleteAt ==
  ASSUME NEW S, NEW s \in Seq(S), NEW k \in 1 .. Len(s)
  PROVE  RemoveAt(s, k) \in Seq(S) /\ OneMore(RemoveAt(s, k), k, s[k], s)
<1> DEFINE u == SubSeq(s, 1, k - 1)
           v == SubSeq(s, k + 1, Len(s))
<1>1. Len(s) \in Nat /\ \A i \in 1 .. Len(s) : s[i] \in S
  BY LenProperties, ElementOfSeq
<1>2. /\ u \in Seq(S) /\ Len(u) = k - 1
      /\ \A i \in 1 .. k - 1 : u[i] = s[i]
  BY <1>1, SubSeqProperties
<1>3. /\ v \in Seq(S) /\ Len(v) = Len(s) - k
      /\ \A i \in 1 .. Len(s) - k : v[i] = s[k + i]
  BY <1>1, SubSeqProperties
<1>4. RemoveAt(s, k) = u \o v
  BY DEF RemoveAt
<1> HIDE DEF u, v
<1>5. /\ u \o v \in Seq(S) /\ Len(u \o v) = Len(s) - 1
      /\ \A i \in 1 .. Len(s) - 1 :
            (u \o v)[i] = IF i <= k - 1 THEN u[i] ELSE v[i - (k - 1)]
  <2>1. /\ u \o v \in Seq(S) /\ Len(u \o v) = Len(u) + Len(v)
        /\ \A i \in 1 .. Len(u) + Len(v) :
             (u \o v)[i] = IF i <= Len(u) THEN u[i] ELSE v[i - Len(u)]
    BY <1>2, <1>3, ConcatProperties
  <2>2. Len(u) + Len(v) = Len(s) - 1
    BY <1>1, <1>2, <1>3
  <2> QED
    BY <1>2, <2>1, <2>2
<1>6. \A i \in 1 .. Len(s) - 1 : (u \o v)[i] = IF i < k THEN s[i] ELSE s[i + 1]
  <2> SUFFICES ASSUME NEW i \in 1 .. Len(s) - 1
               PROVE  (u \o v)[i] = IF i < k THEN s[i] ELSE s[i + 1]
    OBVIOUS
  <2>1. CASE i < k
    <3>1. i \in 1 .. k - 1 /\ i <= k - 1
      BY <2>1
    <3> QED
      BY <1>2, <1>5, <2>1, <3>1
  <2>2. CASE i >= k
    <3>1. i - (k - 1) \in 1 .. Len(s) - k /\ k + (i - (k - 1)) = i + 1
      BY <1>1, <2>2
    <3>2. v[i - (k - 1)] = s[i + 1]
      BY <1>3, <3>1
    <3>3. ~(i <= k - 1) /\ ~(i < k)
      BY <1>1, <2>2
    <3> QED
      BY <1>5, <3>2, <3>3
  <2>3. i < k \/ i >= k
    BY <1>1
  <2> QED
    BY <2>1, <2>2, <2>3
<1> QED
  BY <1>1, <1>4, <1>5, <1>6 DEF OneMore

\* Deleting the first element equal to e, when there is one, and otherwise.
LEMMA DeleteFirst ==
  ASSUME NEW S, NEW s \in Seq(S), NEW e
  PROVE  /\ RemoveFirst(s, e) \in Seq(S)
         /\ ~Contains(s, e) => RemoveFirst(s, e) = s
         /\ Contains(s, e) => \E k \in 1 .. Len(s) : OneMore(RemoveFirst(s, e), k, e, s)
<1>1. CASE ~Contains(s, e)
  BY <1>1 DEF Contains, RemoveFirst
<1>2. CASE Contains(s, e)
  <2> DEFINE I == {i \in 1 .. Len(s) : s[i] = e}
             k == SelectInSeq(s, LAMBDA v : v = e)
  <2>1. I \in SUBSET Nat /\ I # {}
    BY <1>2 DEF Contains
  <2>2. k = Min(I)
    BY <2>1 DEF SelectInSeq
  <2>3. k \in 1 .. Len(s) /\ s[k] = e
    BY <2>1, <2>2, LeastPosition
  <2>4. RemoveFirst(s, e) = RemoveAt(s, k)
    BY <1>2 DEF RemoveFirst, Contains
  <2> HIDE DEF k
  <2> QED
    BY <1>2, <2>3, <2>4, DeleteAt
<1> QED
  BY <1>1, <1>2

-----------------------------------------------------------------------------
(* What a change does to what can be found. *)

\* An element that is not the one put in is found in both or in none.
LEMMA ContainsOneMore ==
  ASSUME NEW S, NEW s \in Seq(S), NEW t \in Seq(S), NEW k, NEW e,
         OneMore(t, k, e, s), NEW r
  PROVE  /\ Contains(s, e)
         /\ Contains(t, r) => Contains(s, r)
         /\ Contains(s, r) /\ r # e => Contains(t, r)
<1>1. Len(s) \in Nat /\ Len(t) \in Nat /\ Len(s) = Len(t) + 1 /\ k \in 1 .. Len(s)
  BY LenProperties DEF OneMore
<1>2. Contains(s, e)
  BY DEF OneMore, Contains
<1>3. ASSUME Contains(t, r) PROVE Contains(s, r)
  <2>1. PICK i \in 1 .. Len(t) : t[i] = r
    BY <1>3 DEF Contains
  <2>2. s[i] = r \/ s[i + 1] = r
    BY <2>1 DEF OneMore
  <2> QED
    BY <1>1, <2>2 DEF Contains
<1>4. ASSUME Contains(s, r), r # e PROVE Contains(t, r)
  <2>1. PICK i \in 1 .. Len(s) : s[i] = r
    BY <1>4 DEF Contains
  <2>2. i # k
    BY <1>4, <2>1 DEF OneMore
  <2>3. CASE i < k
    BY <1>1, <2>1, <2>3 DEF OneMore, Contains
  <2>4. CASE i > k
    <3>1. i - 1 \in 1 .. Len(t) /\ ~(i - 1 < k) /\ (i - 1) + 1 = i
      BY <1>1, <2>4
    <3>2. t[i - 1] = r
      BY <2>1, <3>1 DEF OneMore
    <3> QED
      BY <3>1, <3>2 DEF Contains
  <2> QED
    BY <1>1, <2>2, <2>3, <2>4
<1> QED
  BY <1>2, <1>3, <1>4

\* The first element of X stays the first when one not of X is put in, or taken
\* out; and one of X that is put in front becomes the first.
LEMMA FirstOneMore ==
  ASSUME NEW S, NEW s \in Seq(S), NEW t \in Seq(S), NEW k, NEW e,
         OneMore(t, k, e, s), NEW X, NEW r
  PROVE  /\ e \notin X /\ FirstIs(t, X, r) => FirstIs(s, X, r)
         /\ e \notin X /\ FirstIs(s, X, r) => FirstIs(t, X, r)
         /\ e \in X /\ k = 1 => FirstIs(s, X, e)
<1>1. Len(s) \in Nat /\ Len(t) \in Nat /\ Len(s) = Len(t) + 1 /\ k \in 1 .. Len(s)
  BY LenProperties DEF OneMore
<1>2. ASSUME e \notin X, FirstIs(t, X, r) PROVE FirstIs(s, X, r)
  <2>1. PICK i \in 1 .. Len(t) : /\ t[i] = r /\ r \in X
                                 /\ \A j \in 1 .. i - 1 : t[j] \notin X
    BY <1>2 DEF FirstIs
  <2> DEFINE n == IF i < k THEN i ELSE i + 1
  <2>2. n \in 1 .. Len(s) /\ s[n] = r
    BY <1>1, <2>1 DEF OneMore
  <2>3. ASSUME NEW j \in 1 .. n - 1 PROVE s[j] \notin X
    <3>1. CASE j < k
      BY <1>1, <2>1, <3>1 DEF OneMore
    <3>2. CASE j = k
      BY <1>2, <3>2 DEF OneMore
    <3>3. CASE j > k
      <4>1. /\ j - 1 \in 1 .. i - 1 /\ j - 1 \in 1 .. Len(t)
            /\ ~(j - 1 < k) /\ (j - 1) + 1 = j
        BY <1>1, <3>3
      <4>2. t[j - 1] = s[j]
        BY <4>1 DEF OneMore
      <4> QED
        BY <2>1, <4>1, <4>2
    <3> QED
      BY <1>1, <3>1, <3>2, <3>3
  <2> QED
    BY <2>1, <2>2, <2>3 DEF FirstIs
<1>3. ASSUME e \notin X, FirstIs(s, X, r) PROVE FirstIs(t, X, r)
  <2>1. PICK i \in 1 .. Len(s) : /\ s[i] = r /\ r \in X
                                 /\ \A j \in 1 .. i - 1 : s[j] \notin X
    BY <1>3 DEF FirstIs
  <2>2. i # k
    BY <1>3, <2>1 DEF OneMore
  <2> DEFINE n == IF i < k THEN i ELSE i - 1
  <2>3. n \in 1 .. Len(t) /\ (n < k <=> i < k) /\ (i > k => n + 1 = i)
    BY <1>1, <2>2
  <2>4. t[n] = r
    <3>1. t[n] = IF n < k THEN s[n] ELSE s[n + 1]
      BY <2>3 DEF OneMore
    <3>2. CASE i < k
      BY <2>1, <3>1, <3>2
    <3>3. CASE i > k
      <4>1. ~(n < k) /\ n + 1 = i
        BY <1>1, <2>3, <3>3
      <4> HIDE DEF n
      <4> QED
        BY <2>1, <3>1, <4>1
    <3> QED
      BY <1>1, <2>2, <3>2, <3>3
  <2>5. ASSUME NEW j \in 1 .. n - 1 PROVE t[j] \notin X
    <3>1. /\ j \in 1 .. Len(t) /\ j \in 1 .. i - 1
          /\ ~(j < k) => j + 1 \in 1 .. i - 1
      BY <1>1, <2>2, <2>3
    <3> QED
      BY <2>1, <3>1 DEF OneMore
  <2> QED
    BY <2>1, <2>3, <2>4, <2>5 DEF FirstIs
<1>4. ASSUME e \in X, k = 1 PROVE FirstIs(s, X, e)
  BY <1>1, <1>4 DEF OneMore, FirstIs
<1> QED
  BY <1>2, <1>3, <1>4

-----------------------------------------------------------------------------
(* Counting. *)

\* A sequence has finitely many positions, and so counts are numbers.
LEMMA CountType ==
  ASSUME NEW S, NEW s \in Seq(S), NEW X
  PROVE  /\ IsFiniteSet(Positions(s, X))
         /\ Count(s, X) \in Nat
         /\ Count(s, X) = 0 <=> \A i \in 1 .. Len(s) : s[i] \notin X
<1>1. Len(s) \in Nat
  BY LenProperties
<1>2. IsFiniteSet(1 .. Len(s))
  BY <1>1, FS_Interval
<1>3. IsFiniteSet(Positions(s, X))
  <2>1. Positions(s, X) \in SUBSET (1 .. Len(s))
    BY DEF Positions
  <2> QED
    BY <1>2, <2>1, FS_Subset
<1>4. Count(s, X) \in Nat /\ (Count(s, X) = 0 <=> Positions(s, X) = {})
  BY <1>3, FS_CardinalityType, FS_EmptySet DEF Count
<1>5. Positions(s, X) = {} <=> \A i \in 1 .. Len(s) : s[i] \notin X
  BY DEF Positions
<1> QED
  BY <1>3, <1>4, <1>5

\* An element that is put in is counted once.
LEMMA CountOneMore ==
  ASSUME NEW S, NEW s \in Seq(S), NEW t \in Seq(S), NEW k, NEW e,
         OneMore(t, k, e, s), NEW X
  PROVE  Count(s, X) = Count(t, X) + IF e \in X THEN 1 ELSE 0
<1> DEFINE P == Positions(t, X)
           Q == Positions(s, X) \ {k}
           f == [i \in P |-> IF i < k THEN i ELSE i + 1]
<1>1. /\ Len(s) \in Nat /\ Len(t) \in Nat /\ Len(s) = Len(t) + 1
      /\ k \in 1 .. Len(s) /\ s[k] = e
      /\ \A i \in 1 .. Len(t) : t[i] = IF i < k THEN s[i] ELSE s[i + 1]
  BY LenProperties DEF OneMore
<1>2. P \subseteq 1 .. Len(t) /\ \A i \in P : t[i] \in X
  BY DEF Positions
<1>3. \A i \in P : f[i] \in Q
  BY <1>1, <1>2 DEF Positions
<1>4. \A i, j \in P : f[i] = f[j] => i = j
  BY <1>1, <1>2
<1>5. \A q \in Q : \E i \in P : f[i] = q
  <2> SUFFICES ASSUME NEW q \in Q PROVE \E i \in P : f[i] = q
    OBVIOUS
  <2>1. q \in 1 .. Len(s) /\ q # k /\ s[q] \in X
    BY DEF Positions
  <2> DEFINE i == IF q < k THEN q ELSE q - 1
  <2>2. i \in 1 .. Len(t) /\ (i < k <=> q < k) /\ (q > k => i + 1 = q)
    BY <1>1, <2>1
  <2>3. t[i] = s[q]
    BY <1>1, <2>1, <2>2
  <2>4. i \in P /\ f[i] = q
    BY <1>1, <2>1, <2>2, <2>3 DEF Positions
  <2> QED
    BY <2>4
<1>6. f \in Bijection(P, Q)
  BY <1>3, <1>4, <1>5 DEF Bijection, Injection, Surjection, IsInjective
<1>7. Cardinality(Q) = Count(t, X)
  BY <1>6, CountType, FS_Bijection DEF ExistsBijection, Count
<1>8. /\ IsFiniteSet(Positions(s, X)) /\ Count(s, X) \in Nat /\ Count(t, X) \in Nat
      /\ k \in Positions(s, X) <=> e \in X
  BY <1>1, CountType DEF Positions
<1>9. Cardinality(Q) = IF k \in Positions(s, X) THEN Count(s, X) - 1 ELSE Count(s, X)
  BY <1>8, FS_RemoveElement DEF Count
<1> QED
  BY <1>7, <1>8, <1>9

-----------------------------------------------------------------------------
(* Sequences that go on. *)

\* w is v, of n members, and x.
GoesOn(w, v, n, x) == /\ Len(v) = n /\ w = [i \in 1 .. n + 1 |-> w[i]]
                      /\ \A i \in 1 .. n : w[i] = v[i]
                      /\ w[n + 1] = x

LEMMA AppendIs ==
  ASSUME NEW v \in Seq(Int), NEW n \in Nat, NEW x \in Int, NEW w, GoesOn(w, v, n, x)
  PROVE  w = Append(v, x)
<1>0. /\ Len(v) = n /\ w = [i \in 1 .. n + 1 |-> w[i]]
      /\ \A i \in 1 .. n : w[i] = v[i]
      /\ w[n + 1] = x
  BY DEF GoesOn
<1> DEFINE a == Append(v, x)
<1>1. /\ a \in Seq(Int) /\ Len(a) = n + 1 /\ a[n + 1] = x /\ \A i \in 1 .. n : a[i] = v[i]
  BY <1>0, AppendProperties
<1> HIDE DEF a
<1>2. a = [i \in 1 .. n + 1 |-> a[i]]
  BY <1>1
<1>3. ASSUME NEW i \in 1 .. n + 1 PROVE w[i] = a[i]
  <2>1. i \in 1 .. n \/ i = n + 1
    OBVIOUS
  <2> QED
    BY <1>0, <1>1, <2>1
<1> QED
  BY <1>0, <1>2, <1>3 DEF a

-----------------------------------------------------------------------------
(* Sets of numbers, listed upwards. *)

\* q lists the members of S upwards.
Lists(q, S) == /\ q \in Seq(Nat)
               /\ \A k \in 1 .. Len(q) : q[k] \in S
               /\ \A i \in S : \E k \in 1 .. Len(q) : q[k] = i
               /\ \A j, k \in 1 .. Len(q) : j < k => q[j] < q[k]

LEMMA ListsNone == Lists(<<>>, {})
<1>1. Len(<<>>) = 0 /\ <<>> \in Seq(Nat)
  BY EmptySeq
<1> QED
  BY <1>1 DEF Lists

\* A number greater than all in the list is appended.
LEMMA ListsMore ==
  ASSUME NEW q, NEW S, Lists(q, S), NEW n \in Nat, \A i \in S : i < n
  PROVE  /\ Lists(Append(q, n), S \cup {n})
         /\ Len(Append(q, n)) = Len(q) + 1 /\ Append(q, n)[Len(q) + 1] = n
         /\ \A k \in 1 .. Len(q) : Append(q, n)[k] = q[k]
<1> DEFINE p == Append(q, n)
<1>1. q \in Seq(Nat) /\ Len(q) \in Nat
  BY LenProperties DEF Lists
<1>2. /\ p \in Seq(Nat) /\ Len(p) = Len(q) + 1 /\ p[Len(q) + 1] = n
      /\ \A k \in 1 .. Len(q) : p[k] = q[k]
  BY <1>1, AppendProperties
<1> HIDE DEF p
<1>3. ASSUME NEW k \in 1 .. Len(p) PROVE k \in 1 .. Len(q) \/ k = Len(q) + 1
  BY <1>1, <1>2
<1>4. \A k \in 1 .. Len(q) : k \in 1 .. Len(p)
  BY <1>1, <1>2
<1>5. ASSUME NEW k \in 1 .. Len(p) PROVE p[k] \in S \cup {n}
  BY <1>2, <1>3 DEF Lists
<1>6. ASSUME NEW i \in S \cup {n} PROVE \E k \in 1 .. Len(p) : p[k] = i
  <2>1. CASE i = n
    <3>1. Len(q) + 1 \in 1 .. Len(p)
      BY <1>1, <1>2
    <3> QED
      BY <1>2, <2>1, <3>1
  <2>2. CASE i \in S
    BY <1>2, <1>4, <2>2 DEF Lists
  <2> QED
    BY <2>1, <2>2
<1>7. ASSUME NEW j \in 1 .. Len(p), NEW k \in 1 .. Len(p), j < k PROVE p[j] < p[k]
  <2>1. j \in 1 .. Len(q)
    BY <1>1, <1>2, <1>7
  <2>2. CASE k \in 1 .. Len(q)
    BY <1>2, <1>7, <2>1, <2>2 DEF Lists
  <2>3. CASE k = Len(q) + 1
    <3>1. p[j] \in S /\ p[k] = n
      BY <1>2, <2>1, <2>3 DEF Lists
    <3> QED
      BY <3>1
  <2> QED
    BY <1>3, <2>2, <2>3
<1> QED
  BY <1>2, <1>5, <1>6, <1>7 DEF Lists, p

\* What is listed from the a-th place to the b-th.
Stretch(q, a, b) == {q[k] : k \in a .. b}

\* A stretch of the list has as many members as places.
LEMMA ListsCount ==
  ASSUME NEW q, NEW S, Lists(q, S), NEW a \in Nat \ {0}, NEW b \in Nat, a <= b + 1,
         b <= Len(q)
  PROVE  IsFiniteSet(Stretch(q, a, b)) /\ Cardinality(Stretch(q, a, b)) = b - a + 1
<1>1. Len(q) \in Nat
  BY LenProperties DEF Lists
<1> DEFINE D == a .. b
           T == Stretch(q, a, b)
           f == [k \in D |-> q[k]]
<1>2. IsFiniteSet(D) /\ Cardinality(D) = b - a + 1
  <2>0. a \in Int /\ b \in Int
    OBVIOUS
  <2>1. IsFiniteSet(D) /\ Cardinality(D) = IF a > b THEN 0 ELSE b - a + 1
    BY <2>0, FS_Interval
  <2> QED
    BY <2>1
<1>3. ASSUME NEW j \in D, NEW k \in D, q[j] = q[k] PROVE j = k
  <2>1. j \in 1 .. Len(q) /\ k \in 1 .. Len(q)
    BY <1>1
  <2>2. q[j] \in Nat /\ q[k] \in Nat
    BY <2>1, ElementOfSeq DEF Lists
  <2>3. ~(j < k) /\ ~(k < j)
    BY <1>3, <2>1, <2>2 DEF Lists
  <2> QED
    BY <2>1, <2>3
<1>4. f \in Bijection(D, T)
  <2>1. f \in [D -> T]
    BY DEF Stretch
  <2>2. \A j, k \in D : f[j] = f[k] => j = k
    BY <1>3
  <2>3. \A t \in T : \E k \in D : f[k] = t
    BY DEF Stretch
  <2> HIDE DEF f, D
  <2>4. IsInjective(f)
    BY <2>1, <2>2 DEF IsInjective
  <2>5. f \in Injection(D, T)
    BY <2>1, <2>4 DEF Injection
  <2>6. f \in Surjection(D, T)
    BY <2>1, <2>3 DEF Surjection
  <2> QED
    BY <2>5, <2>6 DEF Bijection
<1>5. ExistsBijection(D, T)
  BY <1>4 DEF ExistsBijection
<1> HIDE DEF D
<1> QED
  BY <1>2, <1>5, FS_Bijection

\* All of the list.
LEMMA ListsAll ==
  ASSUME NEW q, NEW S, Lists(q, S)
  PROVE  IsFiniteSet(S) /\ Cardinality(S) = Len(q)
<1>1. S = Stretch(q, 1, Len(q))
  BY DEF Lists, Stretch
<1>2. Len(q) \in Nat
  BY LenProperties DEF Lists
<1>3. 1 \in Nat \ {0} /\ 1 <= Len(q) + 1 /\ Len(q) <= Len(q) /\ Len(q) - 1 + 1 = Len(q)
  BY <1>2
<1> QED
  BY <1>1, <1>2, <1>3, ListsCount

\* The members from the k-th on.
LEMMA ListsFrom ==
  ASSUME NEW q, NEW S, Lists(q, S), NEW k \in 1 .. Len(q)
  PROVE  Cardinality({j \in S : j >= q[k]}) = Len(q) - k + 1
<1>1. Len(q) \in Nat
  BY LenProperties DEF Lists
<1>2. \A j \in 1 .. Len(q) : q[j] \in Nat
  BY ElementOfSeq DEF Lists
<1>3. \A j \in 1 .. Len(q) : q[j] >= q[k] <=> j >= k
  <2> SUFFICES ASSUME NEW j \in 1 .. Len(q) PROVE q[j] >= q[k] <=> j >= k
    OBVIOUS
  <2>1. j < k => q[j] < q[k]
    BY DEF Lists
  <2>2. k < j => q[k] < q[j]
    BY DEF Lists
  <2> QED
    BY <1>2, <2>1, <2>2
<1>4. {j \in S : j >= q[k]} = Stretch(q, k, Len(q))
  <2>1. ASSUME NEW i \in S, i >= q[k] PROVE i \in {q[j] : j \in k .. Len(q)}
    <3>1. PICK j \in 1 .. Len(q) : q[j] = i
      BY DEF Lists
    <3>2. j \in k .. Len(q)
      BY <1>3, <2>1, <3>1
    <3> QED
      BY <3>1, <3>2
  <2>2. ASSUME NEW j \in k .. Len(q) PROVE q[j] \in S /\ q[j] >= q[k]
    <3>1. j \in 1 .. Len(q) /\ j >= k
      BY <1>1
    <3> QED
      BY <1>3, <3>1 DEF Lists
  <2> QED
    BY <2>1, <2>2 DEF Stretch
<1>5. k \in Nat \ {0} /\ k <= Len(q) + 1 /\ Len(q) <= Len(q)
  BY <1>1
<1> QED
  BY <1>1, <1>4, <1>5, ListsCount

-----------------------------------------------------------------------------
(* Welford's updates. *)

\* A product divided by one of its factors.
LEMMA DividesOut ==
  ASSUME NEW x \in Int, NEW c \in Nat \ {0}, NEW y \in Int, y = c * x
  PROVE  y \div c = x
<1> DEFINE q == y \div c
           r == y % c
<1>1. q \in Int /\ r \in 0 .. c - 1 /\ y = c * q + r
  OBVIOUS
<1> HIDE DEF q, r
<1> DEFINE e == x - q
<1>2. e \in Int /\ c * e = r
  BY <1>1
<1> HIDE DEF e
<1>3. ~(e >= 1)
  <2> SUFFICES ASSUME e >= 1 PROVE FALSE
    OBVIOUS
  <2>1. c * e >= c
    BY <1>2
  <2> QED
    BY <1>1, <1>2, <2>1
<1>4. ~(e <= -1)
  <2> SUFFICES ASSUME e <= -1 PROVE FALSE
    OBVIOUS
  <2>1. c * e <= -c
    BY <1>2
  <2> QED
    BY <1>1, <1>2, <2>1
<1>5. e = 0
  BY <1>2, <1>3, <1>4
<1>6. x = q
  BY <1>1, <1>5 DEF e
<1> QED
  BY <1>6 DEF q

\* A factor that is not 0 cancels.
LEMMA Cancels ==
  ASSUME NEW n \in Nat \ {0}, NEW x \in Int, NEW y \in Int, n * x = n * y
  PROVE  x = y
<1> DEFINE e == x - y
<1>1. e \in Int /\ n * e = 0
  OBVIOUS
<1> HIDE DEF e
<1>2. ~(e >= 1)
  <2> SUFFICES ASSUME e >= 1 PROVE FALSE
    OBVIOUS
  <2>1. n * e >= n
    BY <1>1
  <2> QED
    BY <1>1, <2>1
<1>3. ~(e <= -1)
  <2> SUFFICES ASSUME e <= -1 PROVE FALSE
    OBVIOUS
  <2>1. n * e <= -n
    BY <1>1
  <2> QED
    BY <1>1, <2>1
<1>4. e = 0
  BY <1>1, <1>2, <1>3
<1> QED
  BY <1>4 DEF e

\* A mean of n numbers of the sum S, in units of 1/U.
MeanOf(n, mean, U, S) == n * mean = U * S

\* Welford's update of the mean.
NextMean(n, mean, U, v) == mean + (v * U - mean) \div (n + 1)

\* Welford's update of the mean is exact when the unit is a multiple of the count.
LEMMA MeanUpdate ==
  ASSUME NEW n \in Nat, NEW U \in Nat, U % (n + 1) = 0,
         NEW mean \in Int, NEW S \in Int, NEW v \in Int, MeanOf(n, mean, U, S)
  PROVE  /\ NextMean(n, mean, U, v) \in Int
         /\ (n + 1) * NextMean(n, mean, U, v) = U * (S + v)
         /\ (n + 1) * (v * U - NextMean(n, mean, U, v)) = n * (v * U - mean)
<1> DEFINE c == n + 1
           K == U \div c
           delta == v * U - mean
           M == K * (S + v)
<1>0. n * mean = U * S
  BY DEF MeanOf
<1>1. c \in Nat \ {0} /\ delta \in Int /\ n = c - 1
  OBVIOUS
<1>2. K \in Int /\ U = c * K
  BY <1>1
<1> HIDE DEF K
<1>3. M \in Int /\ c * M = U * (S + v)
  BY <1>1, <1>2
<1>4. U * (S + v) = n * mean + U * v
  BY <1>0, <1>1
<1>5. delta = c * (M - mean)
  <2>1. c * (M - mean) = c * M - c * mean
    BY <1>1, <1>3
  <2>2. c * mean = n * mean + mean
    OBVIOUS
  <2>3. U * v = v * U
    OBVIOUS
  <2> QED
    BY <1>1, <1>3, <1>4, <2>1, <2>2, <2>3
<1> HIDE DEF M
<1>6. delta \div c = M - mean
  BY <1>1, <1>3, <1>5, DividesOut
<1>7. mean + delta \div c = M
  BY <1>3, <1>6
<1>8. c * (v * U - M) = n * delta
  <2>1. c * (v * U - M) = c * (v * U) - c * M
    BY <1>1, <1>3
  <2>2. c * (v * U) = n * (v * U) + v * U
    OBVIOUS
  <2>3. n * delta = n * (v * U) - n * mean
    OBVIOUS
  <2>4. U * v = v * U
    OBVIOUS
  <2> QED
    BY <1>1, <1>3, <1>4, <2>1, <2>2, <2>3, <2>4
<1> QED
  BY <1>3, <1>7, <1>8 DEF NextMean

\* Welford's update of the sum of squared differences is exact.
LEMMA SquaresUpdate ==
  ASSUME NEW n \in Nat, NEW U \in Nat, NEW mean \in Int, NEW S \in Int, NEW v \in Int,
         n * mean = U * S, NEW m2 \in Int, NEW Q \in Int,
         n * m2 = U * U * (n * Q - S * S), n = 0 => mean = 0 /\ m2 = 0 /\ Q = 0 /\ S = 0,
         NEW w \in Int, (n + 1) * w = n * (v * U - mean)
  PROVE  (n + 1) * (m2 + (v * U - mean) * w) = U * U * ((n + 1) * (Q + v * v) - (S + v) * (S + v))
<1> DEFINE delta == v * U - mean
           left == (n + 1) * (m2 + delta * w)
           right == U * U * ((n + 1) * (Q + v * v) - (S + v) * (S + v))
<1>1. delta \in Int /\ left \in Int /\ right \in Int
  OBVIOUS
<1>2. left = (n + 1) * m2 + delta * ((n + 1) * w)
  BY <1>1
<1>3. left = (n + 1) * m2 + n * (delta * delta)
  <2>1. delta * ((n + 1) * w) = delta * (n * delta)
    OBVIOUS
  <2>2. delta * (n * delta) = n * (delta * delta)
    BY <1>1
  <2> QED
    BY <1>2, <2>1, <2>2
<1>4. CASE n = 0
  <2>1. left = 0
    BY <1>3, <1>4
  <2>2. right = U * U * (v * v - v * v)
    BY <1>4
  <2> QED
    BY <2>1, <2>2
<1>5. CASE n # 0
  <2>1. n * delta = U * (n * v - S)
    <3>1. n * delta = U * (n * v) - n * mean
      OBVIOUS
    <3> QED
      BY <3>1
  <2>2. n * left = (n + 1) * (n * m2) + (n * delta) * (n * delta)
    BY <1>3
  <2>3. n * left = (n + 1) * (U * U * (n * Q - S * S)) + (U * (n * v - S)) * (U * (n * v - S))
    BY <2>1, <2>2
  <2>4. (n + 1) * (U * U * (n * Q - S * S)) + (U * (n * v - S)) * (U * (n * v - S)) = n * right
    OBVIOUS
  <2>5. n * left = n * right
    BY <2>3, <2>4
  <2> HIDE DEF left, right
  <2>6. left = right
    BY <1>1, <1>5, <2>5, Cancels
  <2> QED
    BY <2>6 DEF left, right
<1> QED
  BY <1>4, <1>5
=============================================================================
