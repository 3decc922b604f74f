---------------------------- MODULE Ingest_proofs ----------------------------
(***************************************************************************)
(* Proofs about the agent from its start to the states it decides on, for  *)
(* any documents, batch size, sequence length, window, retries and number  *)
(* of restarts: the type invariant, RunsPrepared, OnceAndInOrder,          *)
(* SkippedOnlyLateOrTied, HistoriesExact and StatisticsExact.              *)
(*                                                                         *)
(* The two properties of the source speak of what was delivered.  Why they *)
(* hold lies in the batch: it was sorted and free of repetitions when it   *)
(* was found, nothing visible lay between last_timestamp and its end, and  *)
(* last_timestamp has followed it document by document since.              *)
(*                                                                         *)
(* The histories are those of a list: the numbers of an attacker's         *)
(* deliveries, upwards, of which a deque holds the last and a profile all  *)
(* but the first that are too old.  The statistics go on the histories,    *)
(* because features are taken from them, and on the sums of the values.    *)
(***************************************************************************)
EXTENDS Ingest, CommonLemmas

\* The documents of a sequence, sorted by time and each there once.
Sorted(q) == \A i, j \in 1 .. Len(q) : i < j => stamp[q[i]] <= stamp[q[j]]
Distinct(q) == \A i, j \in 1 .. Len(q) : i # j => q[i] # q[j]
Among(d, q) == \E i \in 1 .. Len(q) : q[i] = d

\* The rest of the batch, from the current document on.
BatchInv == /\ pc = "search" <=> batch = <<>>
            /\ Sorted(batch) /\ Distinct(batch)
            /\ \A i \in 1 .. Len(batch) : stamp[batch[i]] >= last
            /\ pc = "advance" => delivered # <<>> /\ delivered[Len(delivered)] = Head(batch)

\* How many documents have been delivered and gone past.
Passed == IF pc = "advance" THEN Len(delivered) - 1 ELSE Len(delivered)

\* What was delivered lies before the batch, unless its time does not parse.
DeliveredInv ==
  /\ \A i \in 1 .. Passed : delivered[i] \notin bad =>
       stamp[delivered[i]] <= last /\ ~Among(delivered[i], batch)
  /\ \A i, j \in 1 .. Len(delivered) :
       (i < j /\ delivered[i] \notin bad /\ delivered[j] \notin bad) =>
         /\ delivered[i] # delivered[j]
         /\ stamp[delivered[i]] <= stamp[delivered[j]]

\* A document of q has the time of d.
Tied(d, q) == \E i \in 1 .. Len(q) : stamp[q[i]] = stamp[d]

\* A document in time that a search went past has one of its time in what was
\* delivered, or in the batch.
ReachedInv ==
  \A d \in visible \ late :
    /\ stamp[d] <= last => Tied(d, delivered)
    /\ last < stamp[d] /\ stamp[d] <= Reach => Tied(d, batch)

SourceInv == TypeOK /\ BatchInv /\ DeliveredInv /\ ReachedInv

\* Before the event loop is there, so is the source: it has done nothing.
IdleInv == phase # "run" => batch = <<>> /\ pc = "search" /\ delivered = <<>>

\* The client is made only with a transform that was started, or waited for.
PreparedInv == /\ phase \in {"build", "run"} =>
                    transform = "started" \/ (transform = "stopped" /\ gaveUp)
               /\ phase = "run" => redisHost

IInv == /\ IngestTypeOK
        /\ SourceInv
        /\ IdleInv
        /\ PreparedInv

-----------------------------------------------------------------------------
(* The source. *)

\* What a search answers: the oldest documents after t, sorted, each once.
LEMMA AnswerIs ==
  ASSUME TypeOK, NEW t \in Nat, NEW q \in Answers(t)
  PROVE  /\ q \in Seq(Docs) /\ Sorted(q) /\ Distinct(q)
         /\ \A i \in 1 .. Len(q) : stamp[q[i]] > t
         /\ \A d \in visible : stamp[d] > t =>
              Among(d, q) \/ \A i \in 1 .. Len(q) : stamp[q[i]] <= stamp[d]
<1> DEFINE found == {d \in visible : stamp[d] > t}
<1>1. PICK S \in SUBSET found :
        /\ q \in SetToSeqs(S)
        /\ \A i, j \in DOMAIN q : i < j => stamp[q[i]] <= stamp[q[j]]
        /\ \A d \in S, e \in found \ S : stamp[d] <= stamp[e]
  BY DEF Answers
<1> DEFINE n == Cardinality(S)
<1>2. S \subseteq Docs /\ IsFiniteSet(S) /\ n \in Nat
  BY <1>1, EventSourceAssumption, FS_Subset, FS_CardinalityType DEF TypeOK
<1>3. q \in [1 .. n -> S] /\ \A i, j \in 1 .. n : i # j => q[i] # q[j]
  BY <1>1 DEF SetToSeqs
<1>4. q \in Seq(Docs) /\ Len(q) = n
  <2>1. q \in Seq(S) /\ Len(q) = n
    BY <1>2, <1>3
  <2> QED
    BY <1>2, <2>1, SeqMonotonic
<1>5. Sorted(q) /\ Distinct(q)
  BY <1>1, <1>3, <1>4 DEF Sorted, Distinct
<1>6. \A i \in 1 .. Len(q) : q[i] \in S /\ stamp[q[i]] > t
  BY <1>1, <1>3, <1>4
<1>7. ASSUME NEW d \in S PROVE Among(d, q)
  <2> SUFFICES ASSUME ~Among(d, q) PROVE FALSE
    OBVIOUS
  <2>1. q \in [1 .. n -> S \ {d}]
    BY <1>3, <1>4 DEF Among
  <2>2. IsFiniteSet(S \ {d}) /\ Cardinality(S \ {d}) = n - 1
    BY <1>2, FS_RemoveElement
  <2>3. IsFiniteSet(1 .. n) /\ Cardinality(1 .. n) = n
    BY <1>2, FS_Interval
  <2>4. Cardinality(S \ {d}) < Cardinality(1 .. n)
    BY <1>2, <2>2, <2>3
  <2> DEFINE D == 1 .. n
             T == S \ {d}
  <2> HIDE DEF D, T
  <2>5. \E i, j \in D : i # j /\ q[i] = q[j]
    <3>1. IsFiniteSet(D) /\ IsFiniteSet(T) /\ Cardinality(T) < Cardinality(D) /\ q \in [D -> T]
      BY <2>1, <2>2, <2>3, <2>4 DEF D, T
    <3> QED
      BY <3>1, FS_PigeonHole
  <2> QED
    BY <1>3, <2>5 DEF D
<1>8. ASSUME NEW d \in visible, stamp[d] > t
      PROVE  Among(d, q) \/ \A i \in 1 .. Len(q) : stamp[q[i]] <= stamp[d]
  BY <1>1, <1>6, <1>7, <1>8
<1> QED
  BY <1>4, <1>5, <1>6, <1>8

\* The length and the elements of a sequence of documents.
LEMMA DocsOf ==
  ASSUME TypeOK, NEW q \in Seq(Docs)
  PROVE  /\ Len(q) \in Nat /\ DOMAIN q = 1 .. Len(q)
         /\ q = <<>> <=> Len(q) = 0
         /\ \A i \in 1 .. Len(q) : q[i] \in Docs /\ stamp[q[i]] \in Nat
BY LenProperties, ElementOfSeq, EmptySeq DEF TypeOK

\* Head and tail of what is not empty.
LEMMA BatchSplit ==
  ASSUME NEW q \in Seq(Docs), q # <<>>
  PROVE  /\ Head(q) = q[1] /\ Head(q) \in Docs
         /\ Tail(q) \in Seq(Docs) /\ Len(Tail(q)) = Len(q) - 1
         /\ \A i \in 1 .. Len(q) - 1 : Tail(q)[i] = q[i + 1]
BY HeadTailProperties, LenProperties, EmptySeq, ElementOfSeq

LEMMA Searching == SourceInv /\ Search => SourceInv'
<1> SUFFICES ASSUME SourceInv, Search PROVE SourceInv'
  OBVIOUS
<1>t. /\ TypeOK /\ BatchInv /\ DeliveredInv /\ ReachedInv
      /\ stamp \in [Docs -> Nat] /\ last \in Nat /\ visible \subseteq Docs
      /\ delivered \in Seq(Docs) /\ Len(delivered) \in Nat
  BY DocsOf DEF SourceInv, TypeOK
<1>1. /\ pc = "search" /\ pc' = "yield" /\ batch' \in Answers(last) /\ batch' # <<>>
      /\ UNCHANGED <<stamp, bad, visible, last, delivered, late>>
  BY DEF Search
<1>2. PICK q \in Answers(last) : q = batch'
  BY <1>1
<1>3. /\ q \in Seq(Docs) /\ Sorted(q) /\ Distinct(q)
      /\ \A i \in 1 .. Len(q) : stamp[q[i]] > last
      /\ \A d \in visible : stamp[d] > last =>
           Among(d, q) \/ \A i \in 1 .. Len(q) : stamp[q[i]] <= stamp[d]
  BY <1>t, AnswerIs
<1>4. /\ Len(q) \in Nat /\ Len(q) > 0
      /\ \A i \in 1 .. Len(q) : stamp[q[i]] \in Nat
  BY <1>t, <1>1, <1>2, <1>3, DocsOf
<1>5. TypeOK'
  BY <1>t, <1>1, <1>2, <1>3 DEF TypeOK
<1>6. BatchInv'
  BY <1>t, <1>1, <1>2, <1>3, <1>4 DEF BatchInv, Sorted, Distinct
<1>7. DeliveredInv'
  <2>1. Passed = Len(delivered) /\ Passed' = Len(delivered)
    BY <1>1 DEF Passed
  <2>2. ASSUME NEW i \in 1 .. Len(delivered), delivered[i] \notin bad
        PROVE  stamp[delivered[i]] <= last /\ ~Among(delivered[i], q)
    <3>1. stamp[delivered[i]] <= last
      BY <1>t, <2>1, <2>2 DEF DeliveredInv
    <3>2. stamp[delivered[i]] \in Nat
      BY <1>t, DocsOf
    <3> QED
      BY <1>t, <1>3, <1>4, <3>1, <3>2 DEF Among
  <2>3. /\ \A i \in 1 .. Passed' : delivered'[i] \notin bad' =>
             stamp'[delivered'[i]] <= last' /\ ~Among(delivered[i], batch)'
    BY <1>1, <1>2, <2>1, <2>2 DEF Among
  <2> QED
    BY <1>t, <1>1, <2>3 DEF DeliveredInv
<1>8. ReachedInv'
  <2> SUFFICES ASSUME NEW d \in visible \ late
               PROVE  /\ stamp[d] <= last => Tied(d, delivered)
                      /\ last < stamp[d] /\ stamp[d] <= stamp[q[Len(q)]] => Tied(d, q)
    BY <1>1, <1>2 DEF ReachedInv, Reach, Last, Tied
  <2>1. stamp[d] <= last => Tied(d, delivered)
    BY <1>t DEF ReachedInv
  <2>2. ASSUME last < stamp[d], stamp[d] <= stamp[q[Len(q)]]
        PROVE  Tied(d, q)
    <3>1. CASE Among(d, q)
      BY <3>1 DEF Among, Tied
    <3>2. CASE \A i \in 1 .. Len(q) : stamp[q[i]] <= stamp[d]
      <4>1. Len(q) \in 1 .. Len(q) /\ stamp[d] \in Nat
        BY <1>t, <1>4
      <4>2. stamp[q[Len(q)]] = stamp[d]
        BY <1>4, <2>2, <3>2, <4>1
      <4> QED
        BY <4>1, <4>2 DEF Tied
    <3>3. stamp[d] > last
      BY <1>t, <2>2
    <3> QED
      BY <1>3, <3>1, <3>2, <3>3
  <2> QED
    BY <2>1, <2>2
<1> QED
  BY <1>5, <1>6, <1>7, <1>8 DEF SourceInv

LEMMA Yielding == SourceInv /\ Yield => SourceInv'
<1> SUFFICES ASSUME SourceInv, Yield PROVE SourceInv'
  OBVIOUS
<1> DEFINE n == Len(delivered)
           h == Head(batch)
<1>t. /\ TypeOK /\ BatchInv /\ DeliveredInv /\ ReachedInv
      /\ stamp \in [Docs -> Nat] /\ last \in Nat /\ visible \subseteq Docs
      /\ delivered \in Seq(Docs) /\ batch \in Seq(Docs) /\ n \in Nat
      /\ \A i \in 1 .. n : delivered[i] \in Docs
      /\ Len(batch) \in Nat /\ (batch = <<>> <=> Len(batch) = 0)
  BY DocsOf DEF SourceInv, TypeOK
<1>1. /\ pc = "yield" /\ pc' = "advance" /\ delivered' = Append(delivered, h)
      /\ UNCHANGED <<stamp, bad, visible, last, batch, late>>
  BY DEF Yield
<1>2. batch # <<>> /\ h \in Docs /\ h = batch[1] /\ 1 \in 1 .. Len(batch)
  BY <1>t, <1>1, BatchSplit DEF BatchInv
<1>3. /\ delivered' \in Seq(Docs) /\ Len(delivered') = n + 1 /\ delivered'[n + 1] = h
      /\ \A i \in 1 .. n : delivered'[i] = delivered[i]
  BY <1>t, <1>1, <1>2, AppendProperties
<1>4. stamp[h] >= last /\ Among(h, batch)
  BY <1>t, <1>2 DEF BatchInv, Among
<1>5. ASSUME NEW i \in 1 .. n, delivered[i] \notin bad
      PROVE  stamp[delivered[i]] <= last /\ ~Among(delivered[i], batch)
  BY <1>t, <1>1, <1>5 DEF DeliveredInv, Passed
<1>6. TypeOK'
  BY <1>t, <1>1, <1>3 DEF TypeOK
<1>7. BatchInv'
  <2>1. delivered' # <<>>
    BY <1>t, <1>3, EmptySeq
  <2> QED
    BY <1>t, <1>1, <1>2, <1>3, <2>1 DEF BatchInv, Sorted, Distinct
<1>8. DeliveredInv'
  <2>1. Passed' = n
    BY <1>t, <1>1, <1>3 DEF Passed
  <2>2. \A i \in 1 .. Passed' : delivered'[i] \notin bad' =>
           stamp'[delivered'[i]] <= last' /\ ~Among(delivered[i], batch)'
    BY <1>1, <1>3, <1>5, <2>1 DEF Among
  <2>3. ASSUME NEW i \in 1 .. n + 1, NEW j \in 1 .. n + 1, i < j,
               delivered'[i] \notin bad, delivered'[j] \notin bad
        PROVE  /\ delivered'[i] # delivered'[j]
               /\ stamp[delivered'[i]] <= stamp[delivered'[j]]
    <3>1. i \in 1 .. n /\ delivered'[i] = delivered[i]
      BY <1>t, <1>3, <2>3
    <3>2. CASE j = n + 1
      <4>1. stamp[delivered[i]] <= last /\ ~Among(delivered[i], batch)
        BY <1>5, <2>3, <3>1
      <4>2. delivered[i] # h
        BY <1>4, <4>1
      <4>3. stamp[delivered[i]] \in Nat /\ stamp[h] \in Nat
        BY <1>t, <1>2, <3>1
      <4>4. stamp[delivered[i]] <= stamp[h]
        BY <1>t, <1>4, <4>1, <4>3
      <4> QED
        BY <1>3, <3>1, <3>2, <4>2, <4>4
    <3>3. CASE j \in 1 .. n
      BY <1>t, <1>3, <2>3, <3>1, <3>3 DEF DeliveredInv
    <3> QED
      BY <1>t, <3>2, <3>3
  <2>4. \A i, j \in 1 .. Len(delivered') :
          (i < j /\ delivered'[i] \notin bad' /\ delivered'[j] \notin bad') =>
            /\ delivered'[i] # delivered'[j]
            /\ stamp'[delivered'[i]] <= stamp'[delivered'[j]]
    <3> HIDE DEF h, n
    <3> QED
      BY <1>1, <1>3, <2>3
  <2> HIDE DEF h, n
  <2> QED
    BY <2>2, <2>4 DEF DeliveredInv
<1>9. ReachedInv'
  <2>1. \A d : Tied(d, delivered) => Tied(d, delivered)'
    BY <1>t, <1>1, <1>3 DEF Tied
  <2>2. Reach' = Reach /\ \A d : Tied(d, batch)' <=> Tied(d, batch)
    BY <1>1 DEF Reach, Last, Tied
  <2> QED
    BY <1>t, <1>1, <2>1, <2>2 DEF ReachedInv
<1> QED
  BY <1>6, <1>7, <1>8, <1>9 DEF SourceInv

LEMMA Advancing == SourceInv /\ Advance => SourceInv'
<1> SUFFICES ASSUME SourceInv, Advance PROVE SourceInv'
  OBVIOUS
<1> DEFINE n == Len(delivered)
           m == Len(batch)
           h == Head(batch)
<1>t. /\ TypeOK /\ BatchInv /\ DeliveredInv /\ ReachedInv
      /\ stamp \in [Docs -> Nat] /\ last \in Nat /\ visible \subseteq Docs
      /\ delivered \in Seq(Docs) /\ batch \in Seq(Docs) /\ n \in Nat /\ m \in Nat
      /\ \A i \in 1 .. n : delivered[i] \in Docs /\ stamp[delivered[i]] \in Nat
      /\ \A i \in 1 .. m : batch[i] \in Docs /\ stamp[batch[i]] \in Nat
      /\ delivered = <<>> <=> n = 0
      /\ batch = <<>> <=> m = 0
  BY DocsOf DEF SourceInv, TypeOK
<1>1. /\ pc = "advance" /\ pc' = IF batch' = <<>> THEN "search" ELSE "yield"
      /\ UNCHANGED <<stamp, bad, visible, delivered, late>>
  BY DEF Advance
<1>2. /\ batch # <<>> /\ h = batch[1] /\ 1 \in 1 .. m
      /\ delivered # <<>> /\ n \in 1 .. n /\ delivered[n] = h
      /\ Passed = n - 1 /\ Passed' = n
  <2>1. batch # <<>> /\ delivered # <<>> /\ delivered[n] = h
    BY <1>t, <1>1 DEF BatchInv
  <2>2. h = batch[1]
    BY <1>t, <2>1, BatchSplit
  <2>3. n > 0 /\ m > 0
    BY <1>t, <2>1
  <2>4. Passed = n - 1 /\ Passed' = n
    BY <1>1 DEF Passed
  <2> QED
    BY <1>t, <2>1, <2>2, <2>3, <2>4
<1>p. \A i, j \in 1 .. n : (i < j /\ delivered[i] \notin bad /\ delivered[j] \notin bad) =>
        delivered[i] # delivered[j] /\ stamp[delivered[i]] <= stamp[delivered[j]]
  BY <1>t DEF DeliveredInv
<1>3. CASE h \in bad
  <2>1. batch' = <<>> /\ last' = last /\ pc' = "search"
    BY <1>1, <1>3 DEF Advance
  <2>2. TypeOK'
    BY <1>t, <1>1, <2>1 DEF TypeOK
  <2>3. BatchInv'
    BY <2>1 DEF BatchInv, Sorted, Distinct
  <2>4. DeliveredInv'
    <3>1. ASSUME NEW i \in 1 .. n, delivered[i] \notin bad PROVE stamp[delivered[i]] <= last
      <4>1. i # n
        BY <1>2, <1>3, <3>1
      <4>2. i \in 1 .. Passed
        BY <1>t, <1>2, <4>1
      <4> QED
        BY <1>t, <3>1, <4>2 DEF DeliveredInv
    <3>2. \A x : ~Among(x, <<>>)
      BY DEF Among
    <3> QED
      BY <1>1, <1>2, <1>p, <2>1, <3>1, <3>2 DEF DeliveredInv, Among
  <2>5. ReachedInv'
    BY <1>t, <1>1, <2>1 DEF ReachedInv, Reach, Tied
  <2> QED
    BY <2>2, <2>3, <2>4, <2>5 DEF SourceInv
<1>4. CASE h \notin bad
  <2>1. stamp[h] >= last /\ stamp[h] \in Nat
    BY <1>t, <1>2 DEF BatchInv
  <2>2. batch' = Tail(batch) /\ last' = stamp[h]
    BY <1>t, <1>4, <2>1 DEF Advance
  <2>3. /\ batch' \in Seq(Docs) /\ Len(batch') = m - 1
        /\ \A i \in 1 .. m - 1 : batch'[i] = batch[i + 1]
        /\ batch' = <<>> <=> m - 1 = 0
    BY <1>t, <1>2, <2>2, BatchSplit, EmptySeq
  <2>s. \A i \in 1 .. m - 1 : i + 1 \in 1 .. m /\ 1 < i + 1
    BY <1>t
  <2>4. TypeOK'
    BY <1>t, <1>1, <2>1, <2>2, <2>3 DEF TypeOK
  <2>5. /\ \A i \in 1 .. m - 1 : stamp[batch'[i]] >= stamp[h] /\ batch'[i] # h
        /\ \A i, j \in 1 .. m - 1 : i < j => stamp[batch'[i]] <= stamp[batch'[j]]
        /\ \A i, j \in 1 .. m - 1 : i # j => batch'[i] # batch'[j]
    <3>1. Sorted(batch) /\ Distinct(batch)
      BY <1>t DEF BatchInv
    <3>2. ASSUME NEW i \in 1 .. m - 1 PROVE stamp[batch'[i]] >= stamp[h] /\ batch'[i] # h
      <4>1. stamp[batch[1]] <= stamp[batch[i + 1]] /\ batch[1] # batch[i + 1]
        BY <1>2, <2>s, <3>1 DEF Sorted, Distinct
      <4>2. stamp[batch[i + 1]] \in Nat
        BY <1>t, <2>s
      <4> QED
        BY <1>2, <2>1, <2>3, <4>1, <4>2
    <3>3. ASSUME NEW i \in 1 .. m - 1, NEW j \in 1 .. m - 1
          PROVE  /\ i < j => stamp[batch'[i]] <= stamp[batch'[j]]
                 /\ i # j => batch'[i] # batch'[j]
      <4>1. i + 1 \in 1 .. m /\ j + 1 \in 1 .. m /\ (i < j => i + 1 < j + 1)
            /\ (i # j => i + 1 # j + 1)
        BY <1>t
      <4> QED
        BY <2>3, <3>1, <4>1 DEF Sorted, Distinct
    <3> QED
      BY <3>2, <3>3
  <2>6. BatchInv'
    BY <1>1, <2>2, <2>3, <2>5 DEF BatchInv, Sorted, Distinct
  <2>7. DeliveredInv'
    <3>1. ASSUME NEW i \in 1 .. n, delivered[i] \notin bad
          PROVE  stamp[delivered[i]] <= stamp[h] /\ ~Among(delivered[i], batch')
      <4>1. CASE i = n
        BY <1>2, <2>1, <2>3, <2>5, <4>1 DEF Among
      <4>2. CASE i # n
        <5>1. i \in 1 .. Passed
          BY <1>t, <1>2, <4>2
        <5>2. stamp[delivered[i]] <= last /\ ~Among(delivered[i], batch)
          BY <1>t, <3>1, <5>1 DEF DeliveredInv
        <5>3. ~Among(delivered[i], batch')
          BY <2>3, <2>s, <5>2 DEF Among
        <5>4. stamp[delivered[i]] <= stamp[h]
          BY <1>t, <2>1, <5>2
        <5> QED
          BY <5>3, <5>4
      <4> QED
        BY <4>1, <4>2
    <3>2. \A i \in 1 .. Passed' : delivered'[i] \notin bad' =>
            stamp'[delivered'[i]] <= last' /\ ~Among(delivered[i], batch)'
      BY <1>1, <1>2, <2>2, <3>1 DEF Among
    <3> QED
      BY <1>1, <1>p, <3>2 DEF DeliveredInv
  <2>8. ReachedInv'
    <3> SUFFICES ASSUME NEW d \in visible \ late
                 PROVE  /\ stamp[d] <= stamp[h] => Tied(d, delivered)
                        /\ stamp[h] < stamp[d] /\ stamp[d] <= Reach' => Tied(d, batch')
      BY <1>1, <2>2 DEF ReachedInv, Tied
    <3>1. /\ stamp[d] \in Nat
          /\ stamp[d] <= last => Tied(d, delivered)
          /\ last < stamp[d] /\ stamp[d] <= Reach => Tied(d, batch)
      BY <1>t DEF ReachedInv
    <3>2. Reach = stamp[batch[m]] /\ m \in 1 .. m
      BY <1>t, <1>2 DEF Reach, Last
    <3>3. \A i \in 1 .. m : stamp[h] <= stamp[batch[i]]
      <4> SUFFICES ASSUME NEW i \in 1 .. m PROVE stamp[batch[1]] <= stamp[batch[i]]
        BY <1>2
      <4>1. i = 1 \/ 1 < i
        BY <1>t
      <4>2. 1 < i => stamp[batch[1]] <= stamp[batch[i]]
        BY <1>t, <1>2 DEF BatchInv, Sorted
      <4> QED
        BY <1>2, <2>1, <4>1, <4>2
    <3>4. Tied(d, batch) => \E i \in 1 .. m : stamp[batch[i]] = stamp[d]
      BY DEF Tied
    <3>5. ASSUME stamp[d] <= stamp[h] PROVE Tied(d, delivered)
      <4>1. CASE stamp[d] <= last
        BY <3>1, <4>1
      <4>2. CASE last < stamp[d]
        <5>1. stamp[d] <= Reach
          <6>1. stamp[h] <= stamp[batch[m]] /\ stamp[batch[m]] \in Nat
            BY <1>t, <3>2, <3>3
          <6> QED
            BY <2>1, <3>1, <3>2, <3>5, <6>1
        <5>2. PICK i \in 1 .. m : stamp[batch[i]] = stamp[d]
          BY <3>1, <3>4, <4>2, <5>1
        <5>3. stamp[h] = stamp[d]
          BY <2>1, <3>1, <3>3, <3>5, <5>2
        <5> QED
          BY <1>2, <5>3 DEF Tied
      <4> QED
        BY <1>t, <3>1, <4>1, <4>2
    <3>6. ASSUME stamp[h] < stamp[d], stamp[d] <= Reach' PROVE Tied(d, batch')
      <4>1. batch' # <<>>
        BY <2>1, <2>2, <3>1, <3>6 DEF Reach
      <4>2. m - 1 \in 1 .. m - 1 /\ batch'[m - 1] = batch[m]
        BY <1>t, <2>3, <4>1
      <4>3. Reach' = Reach
        BY <1>1, <2>3, <3>2, <4>1, <4>2 DEF Reach, Last
      <4>4. PICK i \in 1 .. m : stamp[batch[i]] = stamp[d]
        BY <1>t, <2>1, <3>1, <3>4, <3>6, <4>3
      <4>5. i # 1
        BY <1>2, <2>1, <3>1, <3>6, <4>4
      <4>6. i - 1 \in 1 .. m - 1 /\ (i - 1) + 1 = i
        BY <1>t, <4>5
      <4>7. batch'[i - 1] = batch[i]
        BY <2>3, <4>6
      <4> QED
        BY <2>3, <4>4, <4>6, <4>7 DEF Tied
    <3> QED
      BY <3>5, <3>6
  <2> QED
    BY <2>4, <2>6, <2>7, <2>8 DEF SourceInv
<1> QED
  BY <1>3, <1>4

LEMMA Indexing == ASSUME NEW x \in Docs PROVE SourceInv /\ Index(x) => SourceInv'
<1> SUFFICES ASSUME SourceInv, Index(x) PROVE SourceInv'
  OBVIOUS
<1>t. TypeOK /\ BatchInv /\ DeliveredInv /\ ReachedInv
  BY DEF SourceInv
<1>1. /\ visible' = visible \cup {x}
      /\ late' = IF stamp[x] <= Reach THEN late \cup {x} ELSE late
      /\ UNCHANGED <<stamp, bad, last, batch, pc, delivered>>
  BY DEF Index
<1>2. TypeOK'
  BY <1>t, <1>1 DEF TypeOK
<1>3. BatchInv' /\ DeliveredInv'
  BY <1>t, <1>1 DEF BatchInv, Sorted, Distinct, DeliveredInv, Among, Passed
<1>4. ReachedInv'
  <2>1. Reach' = Reach /\ last <= Reach
    <3>1. batch # <<>> => Len(batch) \in 1 .. Len(batch)
      BY <1>t, DocsOf DEF TypeOK
    <3>2. last <= Reach
      BY <1>t, <3>1 DEF TypeOK, BatchInv, Reach, Last
    <3> QED
      BY <1>1, <3>2 DEF Reach, Last
  <2>2. Reach \in Nat /\ last \in Nat /\ stamp[x] \in Nat
    <3>1. batch # <<>> => stamp[batch[Len(batch)]] \in Nat
      BY <1>t, DocsOf DEF TypeOK
    <3> QED
      BY <1>t, <3>1 DEF TypeOK, Reach, Last
  <2>3. ASSUME NEW d \in visible' \ late'
        PROVE  d \in visible \ late \/ ~(stamp[d] <= last \/ stamp[d] <= Reach)
    BY <1>1, <2>1, <2>2
  <2>4. \A d : /\ Tied(d, delivered)' <=> Tied(d, delivered)
               /\ Tied(d, batch)' <=> Tied(d, batch)
    BY <1>1 DEF Tied
  <2> QED
    BY <1>t, <1>1, <2>1, <2>3, <2>4 DEF ReachedInv
<1> QED
  BY <1>2, <1>3, <1>4 DEF SourceInv

-----------------------------------------------------------------------------
(* What a document changes. *)

\* Integer division moves a number towards zero, or leaves it negative.
LEMMA Quotient ==
  ASSUME NEW a \in Int, NEW c \in Nat \ {0}
  PROVE  /\ a \div c \in Int
         /\ a >= 0 => a \div c >= 0 /\ a \div c <= a
         /\ a < 0 => a \div c < 0 /\ a <= a \div c
OBVIOUS

\* Two numbers of one sign.
LEMMA Product ==
  ASSUME NEW a \in Int, NEW b \in Int, (a >= 0 /\ b >= 0) \/ (a <= 0 /\ b <= 0)
  PROVE a * b \in Nat
OBVIOUS

\* Welford's update keeps the sum of squared differences from being negative.
LEMMA LearnedType ==
  ASSUME NEW n \in [count : Nat, mean : Int, m2 : Nat], NEW v \in Int
  PROVE  Learned(n, v) \in [count : Nat, mean : Int, m2 : Nat]
<1> DEFINE delta == v * Unit - n.mean
           count == n.count + 1
           q == delta \div count
           mean == n.mean + q
<1>1. Unit \in Nat /\ v * Unit \in Int /\ n.mean \in Int /\ n.m2 \in Nat
  BY ObservationAssumption
<1>2. count \in Nat \ {0} /\ delta \in Int
  BY <1>1
<1>3. q \in Int /\ (delta >= 0 => q >= 0 /\ q <= delta) /\ (delta < 0 => q < 0 /\ delta <= q)
  BY <1>2, Quotient
<1>4. v * Unit - mean = delta - q /\ mean \in Int
  BY <1>1, <1>3
<1> HIDE DEF q, delta
<1>5. delta * (delta - q) \in Nat
  BY <1>2, <1>3, Product
<1>6. Learned(n, v) = [count |-> count, mean |-> mean, m2 |-> n.m2 + delta * (v * Unit - mean)]
  BY DEF Learned, delta, q
<1>7. n.m2 + delta * (v * Unit - mean) \in Nat
  BY <1>1, <1>4, <1>5
<1> QED
  BY <1>2, <1>4, <1>6, <1>7

\* Pruning keeps a sequence of events, the one of now among them.
LEMMA PrunedType ==
  ASSUME NEW E, NEW events \in Seq(E), NEW now \in Int, events # <<>>,
         events[Len(events)].time = now
  PROVE  Pruned(events, now) \in Seq(E)
<1> DEFINE I == {i \in 1 .. Len(events) : now - events[i].time <= Window}
           k == SelectInSeq(events, LAMBDA e : now - e.time <= Window)
<1>1. Len(events) \in Nat /\ Len(events) > 0
  BY LenProperties, EmptySeq
<1>2. Window \in Nat
  BY ObservationAssumption
<1>3. Len(events) \in I
  BY <1>1, <1>2
<1>4. I \in SUBSET Nat /\ I # {}
  BY <1>1, <1>3
<1>5. k = Min(I)
  BY <1>4 DEF SelectInSeq
<1>6. k \in 1 .. Len(events)
  <2>1. Min(I) \in I
    BY <1>4, LeastPosition
  <2> QED
    BY <1>5, <2>1
<1>7. Pruned(events, now) = SubSeq(events, k, Len(events))
  BY DEF Pruned
<1> HIDE DEF k
<1> QED
  BY <1>1, <1>6, <1>7, SubSeqProperties

\* Pruning drops the events before the first one that is young enough.
LEMMA PrunedIs ==
  ASSUME NEW E, NEW events \in Seq(E), NEW now \in Int, events # <<>>,
         events[Len(events)].time = now
  PROVE  \E k \in 1 .. Len(events) :
           /\ Len(Pruned(events, now)) = Len(events) - k + 1
           /\ \A j \in 1 .. Len(events) - k + 1 : Pruned(events, now)[j] = events[k - 1 + j]
           /\ now - events[k].time <= Window
           /\ \A j \in 1 .. k - 1 : ~(now - events[j].time <= Window)
<1> DEFINE I == {i \in 1 .. Len(events) : now - events[i].time <= Window}
           k == SelectInSeq(events, LAMBDA e : now - e.time <= Window)
<1>1. Len(events) \in Nat /\ Len(events) > 0
  BY LenProperties, EmptySeq
<1>2. Window \in Nat
  BY ObservationAssumption
<1>3. Len(events) \in I
  BY <1>1, <1>2
<1>4. I \in SUBSET Nat /\ I # {}
  BY <1>1, <1>3
<1>5. k = Min(I)
  BY <1>4 DEF SelectInSeq
<1>6. Min(I) \in I /\ \A i \in I : Min(I) <= i
  BY <1>4, LeastPosition
<1>7. k \in 1 .. Len(events) /\ now - events[k].time <= Window
  BY <1>5, <1>6
<1>8. ASSUME NEW j \in 1 .. k - 1 PROVE ~(now - events[j].time <= Window)
  <2>1. k \in 1 .. Len(events)
    BY <1>7
  <2>2. j \in 1 .. Len(events) /\ ~(k <= j)
    <3> HIDE DEF k
    <3> QED
      BY <1>1, <2>1
  <2>3. j \notin I
    BY <1>5, <1>6, <2>2
  <2> QED
    BY <2>2, <2>3
<1>9. Pruned(events, now) = SubSeq(events, k, Len(events))
  BY DEF Pruned
<1> HIDE DEF k, I
<1>10. /\ Len(SubSeq(events, k, Len(events))) = Len(events) - k + 1
       /\ \A j \in 1 .. Len(events) - k + 1 : SubSeq(events, k, Len(events))[j] = events[k - 1 + j]
  <2>1. k \in Int /\ Len(events) \in Int /\ k <= Len(events)
    BY <1>1, <1>7
  <2>2. \A i \in k .. Len(events) : events[i] \in E
    <3>1. \A i \in k .. Len(events) : i \in 1 .. Len(events)
      BY <1>1, <1>7
    <3> QED
      BY <3>1, ElementOfSeq
  <2>3. /\ Len(SubSeq(events, k, Len(events))) = Len(events) - k + 1
        /\ \A j \in 1 .. Len(events) - k + 1 : SubSeq(events, k, Len(events))[j] = events[k + j - 1]
    BY <2>1, <2>2, SubSeqProperties
  <2>4. \A j \in 1 .. Len(events) - k + 1 : k + j - 1 = k - 1 + j
    BY <2>1
  <2> QED
    BY <2>3, <2>4
<1> QED
  BY <1>7, <1>8, <1>9, <1>10

\* The values that the features of a document have.
LEMMA SinceLastType ==
  ASSUME ObservationTypeOK, NEW ip \in IPs
  PROVE  SinceLast(ip) \in Nat
<1>1. Cap \in Nat
  BY ObservationAssumption
<1> QED
  BY <1>1 DEF ObservationTypeOK, SinceLast

\* A deque with maxlen does not outgrow it.
LEMMA PushedType ==
  ASSUME NEW S, NEW rows \in Seq(S), Len(rows) <= SeqLen, NEW d \in S
  PROVE  Pushed(rows, d) \in Seq(S) /\ Len(Pushed(rows, d)) <= SeqLen
<1>1. SeqLen \in Nat \ {0} /\ Len(rows) \in Nat
  BY ObservationAssumption, LenProperties
<1>2. CASE Len(rows) = SeqLen
  <2>1. rows # <<>>
    BY <1>1, <1>2, EmptySeq
  <2>2. Tail(rows) \in Seq(S) /\ Len(Tail(rows)) = Len(rows) - 1
    BY <2>1, HeadTailProperties
  <2>3. Append(Tail(rows), d) \in Seq(S) /\ Len(Append(Tail(rows), d)) = Len(rows) - 1 + 1
    BY <2>2, AppendProperties
  <2> QED
    BY <1>1, <1>2, <2>3 DEF Pushed
<1>3. CASE Len(rows) # SeqLen
  <2>1. Append(rows, d) \in Seq(S) /\ Len(Append(rows, d)) = Len(rows) + 1
    BY AppendProperties
  <2> QED
    BY <1>1, <1>3, <2>1 DEF Pushed
<1> QED
  BY <1>2, <1>3

LEMMA Observing ==
  ASSUME NEW d \in DOMAIN IpOf
  PROVE  ObservationTypeOK /\ Observe(d) /\ UNCHANGED <<fault, clock>> => ObservationTypeOK'
<1> SUFFICES ASSUME ObservationTypeOK, Observe(d), UNCHANGED <<fault, clock>>
             PROVE  ObservationTypeOK'
  OBVIOUS
<1> DEFINE ip == IpOf[d]
           E == [time : 0 .. clock, doc : DOMAIN IpOf]
           event == [time |-> clock, doc |-> d]
           events == Pruned(Append(window[ip], event), clock)
           docs == {e.doc : e \in ToSet(events)}
           value == [number |-> Number[d], time_since_last_min |-> SinceLast(ip),
                     ev_5m |-> Len(events), payload_len |-> PayloadLen[d]]
<1>1. /\ ip \in IPs /\ clock \in Nat /\ event \in E
      /\ window[ip] \in Seq(E) /\ flows[ip] \in Nat
  <2>1. ip \in IPs /\ clock \in Nat
    BY ObservationAssumption DEF ObservationTypeOK
  <2>2. clock \in 0 .. clock
    BY <2>1
  <2>3. window \in [IPs -> Seq(E)] /\ flows \in [IPs -> Nat]
    BY DEF ObservationTypeOK
  <2> QED
    BY <2>1, <2>2, <2>3
<1>2. events \in Seq(E)
  <2>1. /\ Append(window[ip], event) \in Seq(E)
        /\ Append(window[ip], event) # <<>>
        /\ Append(window[ip], event)[Len(Append(window[ip], event))] = event
    BY <1>1, AppendProperties, LenProperties, EmptySeq
  <2>2. clock \in Int /\ event.time = clock
    BY <1>1
  <2> DEFINE more == Append(window[ip], event)
  <2> HIDE DEF more, event, E
  <2>3. more \in Seq(E) /\ more # <<>> /\ more[Len(more)].time = clock
    BY <2>1, <2>2 DEF more
  <2>4. Pruned(more, clock) \in Seq(E)
    BY <2>2, <2>3, PrunedType
  <2> QED
    BY <2>4 DEF more
<1>3. /\ flows' = [flows EXCEPT ![ip] = @ + 1]
      /\ window' = [window EXCEPT ![ip] = events]
      /\ norm' = [f \in Features |-> IF f \in Reached(d, docs) THEN Learned(norm[f], value[f])
                                     ELSE norm[f]]
      /\ KeepRow(ip, d, docs)
  BY DEF Observe
<1>4. \A f \in Features : value[f] \in Int
  <2>1. Number[d] \in Int /\ PayloadLen[d] \in Int
    BY ObservationAssumption
  <2>2. SinceLast(ip) \in Int
    BY <1>1, SinceLastType
  <2>3. Len(events) \in Int
    BY <1>2, LenProperties
  <2> HIDE DEF events
  <2> QED
    BY <2>1, <2>2, <2>3 DEF Features
<1> HIDE DEF events, docs, value, E
<1>5. flows' \in [IPs -> Nat] /\ window' \in [IPs -> Seq(E)]
  <2>1. flows \in [IPs -> Nat] /\ window \in [IPs -> Seq(E)]
    BY DEF ObservationTypeOK, E
  <2> QED
    BY <1>1, <1>2, <1>3, <2>1
<1>6. norm' \in [Features -> [count : Nat, mean : Int, m2 : Nat]]
  BY <1>3, <1>4, LearnedType DEF ObservationTypeOK
<1>7. /\ lastSeen' \in [IPs -> 0 .. clock \cup {Never}]
      /\ buffer' \in [IPs -> Seq(DOMAIN IpOf)] /\ \A i \in IPs : Len(buffer'[i]) <= SeqLen
  <2>1. CASE Accepted(d, docs)
    <3>1. /\ buffer' = [buffer EXCEPT ![ip] = Pushed(@, d)]
          /\ lastSeen' = [lastSeen EXCEPT ![ip] = clock]
      BY <1>3, <2>1 DEF KeepRow
    <3>2. Pushed(buffer[ip], d) \in Seq(DOMAIN IpOf) /\ Len(Pushed(buffer[ip], d)) <= SeqLen
      BY <1>1, PushedType DEF ObservationTypeOK
    <3>3. clock \in 0 .. clock
      BY <1>1
    <3> QED
      BY <1>1, <3>1, <3>2, <3>3 DEF ObservationTypeOK
  <2>2. CASE ~Accepted(d, docs)
    BY <1>3, <2>2 DEF KeepRow, ObservationTypeOK
  <2> QED
    BY <2>1, <2>2
<1> QED
  BY <1>5, <1>6, <1>7 DEF ObservationTypeOK, E

\* Forgetting, at start and at a restart.
LEMMA FreshType ==
  /\ Fresh.flows \in [IPs -> Nat]
  /\ \A t \in Nat : /\ Fresh.window \in [IPs -> Seq([time : 0 .. t, doc : DOMAIN IpOf])]
                    /\ Fresh.lastSeen \in [IPs -> 0 .. t \cup {Never}]
  /\ Fresh.buffer \in [IPs -> Seq(DOMAIN IpOf)]
  /\ \A ip \in IPs : Len(Fresh.buffer[ip]) <= SeqLen
  /\ Fresh.norm \in [Features -> [count : Nat, mean : Int, m2 : Nat]]
<1>1. SeqLen \in Nat
  BY ObservationAssumption
<1>2. \A S : <<>> \in Seq(S)
  BY EmptySeq
<1>3. Len(<<>>) = 0
  OBVIOUS
<1> QED
  BY <1>1, <1>2, <1>3 DEF Fresh

\* Time passes: what was of the past stays so.
LEMMA Passing == ObservationTypeOK /\ Tick => ObservationTypeOK' /\ clock <= clock'
<1> SUFFICES ASSUME ObservationTypeOK, Tick PROVE ObservationTypeOK' /\ clock <= clock'
  OBVIOUS
<1>1. Step \in Nat /\ clock \in Nat
  BY ObservationAssumption DEF ObservationTypeOK
<1>2. /\ clock' = clock + Step
      /\ UNCHANGED <<fault, flows, window, lastSeen, buffer, norm>>
  BY DEF Tick, observer
<1>3. clock' \in Nat /\ clock <= clock'
  BY <1>1, <1>2
<1>4. 0 .. clock \subseteq 0 .. clock'
  BY <1>1, <1>3
<1>5. Seq([time : 0 .. clock, doc : DOMAIN IpOf]) \subseteq
        Seq([time : 0 .. clock', doc : DOMAIN IpOf])
  <2>1. [time : 0 .. clock, doc : DOMAIN IpOf] \subseteq [time : 0 .. clock', doc : DOMAIN IpOf]
    BY <1>4
  <2> QED
    BY <2>1, SeqMonotonic
<1>6. window' \in [IPs -> Seq([time : 0 .. clock', doc : DOMAIN IpOf])]
  BY <1>2, <1>5 DEF ObservationTypeOK
<1>7. lastSeen' \in [IPs -> 0 .. clock' \cup {Never}]
  BY <1>2, <1>4 DEF ObservationTypeOK
<1> QED
  BY <1>2, <1>3, <1>6, <1>7 DEF ObservationTypeOK

-----------------------------------------------------------------------------
(* The parts of the process together. *)

\* The kinds of steps, by the module they come from.
LEMMA StepIs ==
  ASSUME [IngestNext]_ingest
  PROVE  \/ (Connecting(visible # {}) \/ BuildFails) /\ UNCHANGED <<vars, observation, taken>>
         \/ BuildLoop
         \/ Poll
         \/ Process
         \/ Pass
         \/ Arrive
         \/ Restart
         \/ UNCHANGED <<vars, observation, startup, taken>>
BY DEF IngestNext, Prepare, ingest

LEMMA SourceStep == IInv /\ [IngestNext]_ingest => SourceInv'
<1> SUFFICES ASSUME IInv, [IngestNext]_ingest PROVE SourceInv'
  OBVIOUS
<1>t. SourceInv /\ IdleInv
  BY DEF IInv
<1>0. CASE UNCHANGED vars
  BY <1>t, <1>0 DEF SourceInv, vars, TypeOK, BatchInv, Sorted, Distinct, DeliveredInv,
     Among, Passed, ReachedInv, Tied, Reach
<1>1. CASE BuildLoop
  <2>1. batch = <<>> /\ pc = "search" /\ delivered = <<>>
    BY <1>t, <1>1 DEF IdleInv, BuildLoop, Build
  <2>2. /\ last' \in Nat /\ late' = {d \in visible : stamp[d] <= last'}
        /\ UNCHANGED <<stamp, bad, visible, batch, pc, delivered>>
    BY <1>1, IngestAssumption DEF BuildLoop
  <2>3. TypeOK'
    BY <1>t, <2>2 DEF SourceInv, TypeOK
  <2>4. BatchInv' /\ DeliveredInv'
    BY <2>1, <2>2 DEF BatchInv, Sorted, Distinct, DeliveredInv, Passed
  <2>5. ReachedInv'
    BY <2>1, <2>2 DEF ReachedInv, Reach
  <2> QED
    BY <2>3, <2>4, <2>5 DEF SourceInv
<1>2. CASE Poll
  BY <1>t, <1>2, Searching, Advancing DEF Poll
<1>3. CASE Process
  BY <1>t, <1>3, Yielding DEF Process
<1>4. CASE Pass
  BY <1>0, <1>4 DEF Pass
<1>5. CASE Arrive
  BY <1>t, <1>5, Indexing DEF Arrive
<1>6. CASE Restart
  <2>1. /\ last' = 0 /\ batch' = <<>> /\ pc' = "search" /\ delivered' = <<>>
        /\ late' = {d \in visible : stamp[d] = 0}
        /\ UNCHANGED <<stamp, bad, visible>>
    BY <1>6 DEF Restart
  <2>2. TypeOK'
    BY <1>t, <2>1, EmptySeq DEF SourceInv, TypeOK
  <2>3. BatchInv' /\ DeliveredInv'
    BY <2>1 DEF BatchInv, Sorted, Distinct, DeliveredInv, Passed
  <2>4. ASSUME NEW d \in visible' \ late' PROVE ~(stamp'[d] <= 0)
    BY <1>t, <2>1, <2>4 DEF SourceInv, TypeOK
  <2>5. ReachedInv'
    BY <2>1, <2>4 DEF ReachedInv, Reach
  <2> QED
    BY <2>2, <2>3, <2>5 DEF SourceInv
<1> QED
  BY <1>0, <1>1, <1>2, <1>3, <1>4, <1>5, <1>6, StepIs

\* Start-up, whose requests fail and are repeated.
LEMMA StartupStep == IInv /\ [IngestNext]_ingest => StartupTypeOK' /\ PreparedInv' /\ IdleInv'
<1> SUFFICES ASSUME IInv, [IngestNext]_ingest PROVE StartupTypeOK' /\ PreparedInv' /\ IdleInv'
  OBVIOUS
<1>t. StartupTypeOK /\ PreparedInv /\ IdleInv
  BY DEF IInv, IngestTypeOK
<1>n. {Attempts, Tries, MaxWait} \subseteq Nat \ {0}
  BY StartupAssumption
<1> USE <1>t DEF StartupTypeOK, PreparedInv, IdleInv
<1>1. ASSUME UNCHANGED vars, Connecting(visible # {}) \/ BuildFails
      PROVE  StartupTypeOK' /\ PreparedInv' /\ IdleInv'
  <2>1. UNCHANGED <<batch, pc, delivered>>
    BY <1>1 DEF vars
  <2>2. CASE GetTransform
    BY <1>n, <2>1, <2>2 DEF GetTransform, NotCreated
  <2>3. CASE PutTransform
    BY <1>n, <2>1, <2>3 DEF PutTransform
  <2>4. CASE StartTransform
    BY <1>n, <2>1, <2>4 DEF StartTransform, Connected
  <2>5. CASE AwaitSourceIndex(visible # {})
    <3>1. waited \in Nat /\ waited + 1 \in Nat
      BY <1>n
    <3>2. CASE waited + 1 < MaxWait
      <4>1. waited' \in 0 .. MaxWait - 1 /\ UNCHANGED <<redisHost, transform, phase, attempt, tries, gaveUp>>
        BY <1>n, <2>5, <3>1, <3>2 DEF AwaitSourceIndex
      <4> QED
        BY <2>1, <4>1
    <3>3. CASE ~(waited + 1 < MaxWait)
      <4>1. /\ phase' = "build" /\ transform' = "stopped" /\ gaveUp' = TRUE
            /\ attempt' = 0 /\ tries' = 0 /\ waited' = 0 /\ redisHost' = redisHost
        BY <2>5, <3>3 DEF AwaitSourceIndex, Connected
      <4>2. 0 \in 0 .. Attempts - 1 /\ 0 \in 0 .. Tries - 1 /\ 0 \in 0 .. MaxWait - 1
        BY <1>n
      <4>3. phase # "run"
        BY <2>5 DEF AwaitSourceIndex
      <4> QED
        BY <2>1, <4>1, <4>2, <4>3
    <3> QED
      BY <3>2, <3>3
  <2>6. CASE Fail
    <3>1. /\ phase \in {"get", "put", "start"} /\ transform' \in {transform, "stopped", "started"}
          /\ waited' = 0 /\ UNCHANGED <<redisHost, gaveUp>>
      BY <2>6 DEF Fail, Raised
    <3>2. /\ phase' \in {"get", "exit"}
          /\ attempt' \in {attempt, 0} \/ (attempt + 1 < Attempts /\ attempt' = attempt + 1)
          /\ tries' = 0 \/ (tries + 1 < Tries /\ tries' = tries + 1)
      BY <2>6 DEF Fail, NextTry, NextAttempt
    <3>3. attempt' \in 0 .. Attempts - 1 /\ tries' \in 0 .. Tries - 1 /\ waited' \in 0 .. MaxWait - 1
      BY <1>n, <3>1, <3>2
    <3> QED
      BY <2>1, <3>1, <3>2, <3>3
  <2>7. CASE BuildFails
    BY <2>1, <2>7 DEF BuildFails, locals
  <2> QED
    BY <1>1, <2>2, <2>3, <2>4, <2>5, <2>6, <2>7 DEF Connecting
<1>2. CASE BuildLoop
  BY <1>2 DEF BuildLoop, Build, locals
<1>3. ASSUME UNCHANGED startup, phase = "run" \/ UNCHANGED <<batch, pc, delivered>>
      PROVE  StartupTypeOK' /\ PreparedInv' /\ IdleInv'
  BY <1>3 DEF startup, locals
<1>4. CASE Restart
  BY <1>4 DEF Restart, StartAgain, locals
<1>5. CASE Poll \/ Process \/ Pass
  BY <1>3, <1>5 DEF Poll, Process, Pass, Running
<1>6. CASE Arrive
  BY <1>3, <1>6 DEF Arrive, Index
<1>7. CASE UNCHANGED <<vars, observation, startup, taken>>
  BY <1>3, <1>7 DEF vars
<1> QED
  BY <1>1, <1>2, <1>4, <1>5, <1>6, <1>7, StepIs

\* What was observed, and when.
LEMMA ObservationStep ==
  IInv /\ [IngestNext]_ingest =>
    ObservationTypeOK' /\ (taken \in Seq(0 .. clock) /\ Len(taken) = Len(delivered))'
<1> DEFINE TakenInv == taken \in Seq(0 .. clock) /\ Len(taken) = Len(delivered)
<1> SUFFICES ASSUME IInv, [IngestNext]_ingest PROVE ObservationTypeOK' /\ TakenInv'
  OBVIOUS
<1>t. TypeOK /\ ObservationTypeOK /\ TakenInv /\ IdleInv /\ clock \in Nat
  BY DEF IInv, IngestTypeOK, ObservationTypeOK
<1>1. ASSUME UNCHANGED <<observation, taken, delivered>> PROVE ObservationTypeOK' /\ TakenInv'
  BY <1>t, <1>1 DEF observation, observer, ObservationTypeOK
<1>2. CASE Process
  <2>1. /\ pc = "yield" /\ delivered' = Append(delivered, Head(batch))
        /\ taken' = Append(taken, clock) /\ UNCHANGED <<fault, clock>>
        /\ PassOver(Head(batch)) \/ BreakOff(Head(batch)) \/ Observe(Head(batch))
    BY <1>2 DEF Process, Yield
  <2>2. Head(batch) \in Docs /\ DOMAIN IpOf = Docs
    BY <2>1, BatchSplit, IngestAssumption DEF IInv, SourceInv, TypeOK, BatchInv
  <2>3. TakenInv'
    <3>1. clock \in 0 .. clock
      BY <1>t
    <3>2. taken' \in Seq(0 .. clock) /\ Len(taken') = Len(taken) + 1
      BY <1>t, <2>1, <3>1, AppendProperties
    <3>3. Len(delivered') = Len(delivered) + 1
      BY <1>t, <2>1, <2>2, AppendProperties DEF TypeOK
    <3> QED
      BY <1>t, <2>1, <3>2, <3>3
  <2>4. CASE PassOver(Head(batch))
    BY <1>t, <2>1, <2>3, <2>4 DEF PassOver, observer, ObservationTypeOK
  <2>5. CASE BreakOff(Head(batch))
    <3>1. IpOf[Head(batch)] \in IPs
      BY <2>2, ObservationAssumption
    <3>2. /\ flows' = [flows EXCEPT ![IpOf[Head(batch)]] = @ + 1]
          /\ UNCHANGED <<window, lastSeen, buffer, norm>>
      BY <2>5 DEF BreakOff
    <3>3. flows' \in [IPs -> Nat]
      BY <1>t, <3>1, <3>2 DEF ObservationTypeOK
    <3> QED
      BY <1>t, <2>1, <2>3, <3>2, <3>3 DEF ObservationTypeOK
  <2>6. CASE Observe(Head(batch))
    BY <1>t, <2>1, <2>2, <2>3, <2>6, Observing
  <2> QED
    BY <2>1, <2>4, <2>5, <2>6
<1>3. CASE Pass
  <2>1. ObservationTypeOK' /\ clock <= clock' /\ UNCHANGED <<taken, delivered>>
    BY <1>t, <1>3, Passing DEF Pass, vars
  <2>2. 0 .. clock \subseteq 0 .. clock'
    BY <1>t, <2>1 DEF ObservationTypeOK
  <2>3. Seq(0 .. clock) \subseteq Seq(0 .. clock')
    BY <2>2, SeqMonotonic
  <2> QED
    BY <1>t, <2>1, <2>3
<1>4. CASE Restart
  <2>1. /\ clock' = 0 /\ fault' = fault /\ taken' = <<>> /\ delivered' = <<>>
        /\ Forget
    BY <1>4 DEF Restart
  <2>2. ObservationTypeOK'
    BY <1>t, <2>1, FreshType DEF ObservationTypeOK, Forget
  <2> QED
    BY <2>1, <2>2, EmptySeq
<1>5. CASE BuildLoop
  BY <1>1, <1>5 DEF BuildLoop
<1>6. CASE Poll
  BY <1>1, <1>6 DEF Poll, Search, Advance
<1>7. CASE Arrive
  BY <1>1, <1>7 DEF Arrive, Index
<1>8. CASE UNCHANGED <<vars, observation, taken>>
  BY <1>1, <1>8 DEF vars
<1> QED
  BY <1>2, <1>3, <1>4, <1>5, <1>6, <1>7, <1>8, StepIs

LEMMA InitInv == IngestInit => IInv
<1> SUFFICES ASSUME IngestInit PROVE IInv
  OBVIOUS
<1>i. Init /\ StartupInit /\ ObserverInit /\ fault \in FaultMaps /\ clock = 0 /\ taken = <<>>
      /\ visible = {} /\ bad \subseteq Docs
  BY DEF IngestInit
<1> USE <1>i
<1>1. TypeOK
  <2>1. stamp \in [Docs -> Nat] /\ visible \subseteq Docs /\ late \subseteq Docs
    BY EventSourceAssumption DEF Init
  <2>2. last \in Nat /\ batch \in Seq(Docs) /\ delivered \in Seq(Docs)
    BY EmptySeq DEF Init
  <2> QED
    BY <2>1, <2>2 DEF Init, TypeOK
<1>2. BatchInv /\ DeliveredInv /\ ReachedInv
  <2>1. batch = <<>> /\ delivered = <<>> /\ pc = "search" /\ visible = {}
    BY DEF Init
  <2> QED
    BY <2>1 DEF BatchInv, Sorted, Distinct, DeliveredInv, Passed, ReachedInv
<1>3. StartupTypeOK /\ PreparedInv /\ IdleInv
  <2>1. 0 \in 0 .. Attempts - 1 /\ 0 \in 0 .. Tries - 1 /\ 0 \in 0 .. MaxWait - 1
    BY StartupAssumption
  <2>2. phase = "get"
    BY DEF StartupInit
  <2>3. StartupTypeOK
    <3>1. redisHost \in RedisHosts /\ transform \in {"absent", "stopped", "started"}
      BY DEF StartupInit
    <3>2. attempt = 0 /\ tries = 0 /\ waited = 0 /\ gaveUp = FALSE
      BY DEF StartupInit
    <3> QED
      BY <2>1, <2>2, <3>1, <3>2 DEF StartupTypeOK
  <2>4. PreparedInv /\ IdleInv
    BY <2>2 DEF Init, PreparedInv, IdleInv
  <2> QED
    BY <2>3, <2>4
<1>4. ObservationTypeOK
  <2>1. fault \in [DOMAIN IpOf -> SUBSET Faults] /\ clock = 0 /\ clock \in Nat
    BY IngestAssumption
  <2>2. /\ window \in [IPs -> Seq([time : 0 .. clock, doc : DOMAIN IpOf])]
        /\ lastSeen \in [IPs -> 0 .. clock \cup {Never}]
    BY <2>1, FreshType DEF ObserverInit
  <2>3. /\ flows \in [IPs -> Nat] /\ norm \in [Features -> [count : Nat, mean : Int, m2 : Nat]]
        /\ buffer \in [IPs -> Seq(DOMAIN IpOf)] /\ \A ip \in IPs : Len(buffer[ip]) <= SeqLen
    BY FreshType DEF ObserverInit
  <2> QED
    BY <2>1, <2>2, <2>3 DEF ObservationTypeOK
<1>5. taken \in Seq(0 .. clock) /\ Len(taken) = Len(delivered)
  BY EmptySeq DEF Init
<1> QED
  BY <1>1, <1>2, <1>3, <1>4, <1>5 DEF IInv, IngestTypeOK, SourceInv

LEMMA Invariance == IngestSpec => []IInv
<1>1. IInv /\ [IngestNext]_ingest => IInv'
  <2> SUFFICES ASSUME IInv, [IngestNext]_ingest PROVE IInv'
    OBVIOUS
  <2>1. SourceInv' /\ StartupTypeOK' /\ PreparedInv' /\ IdleInv'
    BY SourceStep, StartupStep
  <2>2. ObservationTypeOK' /\ (taken \in Seq(0 .. clock) /\ Len(taken) = Len(delivered))'
    BY ObservationStep
  <2> QED
    BY <2>1, <2>2 DEF IInv, IngestTypeOK, SourceInv
<1> QED
  BY InitInv, <1>1, PTL DEF IngestSpec

\* What OnceAndInOrderAlways says, of a state.
LEMMA InOrder == IInv => OnceAndInOrder
<1> SUFFICES ASSUME IInv PROVE OnceAndInOrder
  OBVIOUS
<1>1. DOMAIN delivered = 1 .. Len(delivered) /\ DeliveredInv
  BY DEF IInv, SourceInv, TypeOK
<1> QED
  BY <1>1 DEF OnceAndInOrder, DeliveredInv

-----------------------------------------------------------------------------
(* The histories. *)

\* What a profile keeps of the i-th of the documents D, handled at the times T.
Seen(T, D, i) == [time |-> T[i], doc |-> D[i]]

\* The rows are the last of the documents D that q lists, up to SeqLen of them.
LastRows(D, rows, q) ==
  /\ Len(rows) = IF Len(q) < SeqLen THEN Len(q) ELSE SeqLen
  /\ \A k \in 1 .. Len(rows) : rows[k] = D[q[Len(q) - Len(rows) + k]]

\* The events are those that q lists but the first o, which are too old for the last.
Holds(T, D, events, q, o) ==
  /\ o \in 0 .. Len(q) /\ Len(events) = Len(q) - o
  /\ \A k \in 1 .. Len(events) : events[k] = Seen(T, D, q[o + k])
  /\ \A k \in 1 .. Len(q) : k <= o <=> T[q[Len(q)]] - T[q[k]] > Window

TakenInv == \A i, j \in 1 .. Len(taken) : i <= j => taken[i] <= taken[j]
FlowsInv == \A ip \in IPs : flows[ip] = Cardinality(Flows(ip))
RowsInv == \A ip \in IPs : \E q : Lists(q, Kept(ip)) /\ LastRows(delivered, buffer[ip], q)
ProfilesInv == \A ip \in IPs :
                 \E q, o : Lists(q, Events(ip)) /\ Holds(taken, delivered, window[ip], q, o)
LastSeenInv ==
  \A ip \in IPs : lastSeen[ip] = IF Kept(ip) = {} THEN Never ELSE taken[Max(Kept(ip))]

histories == <<delivered, taken, fault, flows, window, lastSeen, buffer, norm>>

\* Only a document that is handled and a restart change the histories.
LEMMA HistoryChanges ==
  ASSUME [IngestNext]_ingest
  PROVE  UNCHANGED histories \/ Process \/ Restart
<1>1. CASE (Connecting(visible # {}) \/ BuildFails) /\ UNCHANGED <<vars, observation, taken>>
  BY <1>1 DEF histories, vars, observation, observer
<1>2. CASE BuildLoop
  BY <1>2 DEF BuildLoop, histories, observation, observer
<1>3. CASE Poll
  BY <1>3 DEF Poll, Search, Advance, histories, observation, observer
<1>4. CASE Pass
  BY <1>4 DEF Pass, Tick, histories, vars, observer
<1>5. CASE Arrive
  BY <1>5 DEF Arrive, Index, histories, observation, observer
<1>6. CASE UNCHANGED <<vars, observation, startup, taken>>
  BY <1>6 DEF histories, vars, observation, observer
<1> QED
  BY <1>1, <1>2, <1>3, <1>4, <1>5, <1>6, StepIs

\* What was delivered to an attacker is a set of numbers up to the last.
LEMMA NumbersOf ==
  ASSUME IInv, NEW ip
  PROVE  /\ Len(delivered) \in Nat /\ Len(taken) = Len(delivered)
         /\ Kept(ip) \subseteq Events(ip) /\ Events(ip) \subseteq Flows(ip)
         /\ Flows(ip) \subseteq 1 .. Len(delivered)
         /\ \A i \in 1 .. Len(delivered) : delivered[i] \in Docs /\ taken[i] \in 0 .. clock
<1>1. /\ delivered \in Seq(Docs) /\ Len(taken) = Len(delivered) /\ taken \in Seq(0 .. clock)
  BY DEF IInv, IngestTypeOK, TypeOK
<1>2. Len(delivered) \in Nat /\ DOMAIN delivered = 1 .. Len(delivered)
  BY <1>1
<1>3. \A i \in 1 .. Len(delivered) : delivered[i] \in Docs /\ taken[i] \in 0 .. clock
  BY <1>1, ElementOfSeq
<1> QED
  BY <1>1, <1>2, <1>3 DEF Kept, Events, Flows

\* The numbers of an attacker when document d is the next that is handled.
NextNumbers(S, counts, n) == IF counts THEN S \cup {n} ELSE S

LEMMA Delivering ==
  ASSUME IInv, Process, NEW d, d = Head(batch), NEW n, n = Len(delivered)
  PROVE  /\ n \in Nat /\ n + 1 \in 1 .. MaxYields /\ d \in Docs /\ clock \in Nat
         /\ Len(delivered') = n + 1 /\ delivered'[n + 1] = d
         /\ Len(taken') = n + 1 /\ taken'[n + 1] = clock
         /\ \A i \in 1 .. n : delivered'[i] = delivered[i] /\ taken'[i] = taken[i]
         /\ fault' = fault
         /\ PassOver(d) \/ BreakOff(d) \/ Observe(d)
<1>1. /\ pc = "yield" /\ delivered' = Append(delivered, d) /\ Len(delivered) < MaxYields
      /\ taken' = Append(taken, clock) /\ UNCHANGED <<fault, clock>>
      /\ PassOver(d) \/ BreakOff(d) \/ Observe(d)
  BY DEF Process, Yield
<1>2. d \in Docs
  BY <1>1, BatchSplit DEF IInv, SourceInv, TypeOK, BatchInv
<1>3. /\ delivered \in Seq(Docs) /\ taken \in Seq(0 .. clock) /\ Len(taken) = Len(delivered)
      /\ clock \in Nat /\ clock \in 0 .. clock /\ Len(delivered) \in Nat /\ MaxYields \in Nat
  <2>1. clock \in Nat
    BY DEF IInv, IngestTypeOK, ObservationTypeOK
  <2> QED
    BY <2>1, LenProperties, EventSourceAssumption DEF IInv, IngestTypeOK, TypeOK
<1>4. /\ Len(delivered') = n + 1 /\ delivered'[n + 1] = d
      /\ \A i \in 1 .. n : delivered'[i] = delivered[i]
  BY <1>1, <1>2, <1>3, AppendProperties
<1>5. /\ Len(taken') = n + 1 /\ taken'[n + 1] = clock
      /\ \A i \in 1 .. n : taken'[i] = taken[i]
  BY <1>1, <1>3, AppendProperties
<1>6. n + 1 \in 1 .. MaxYields
  BY <1>1, <1>3
<1> QED
  BY <1>1, <1>2, <1>3, <1>4, <1>5, <1>6

LEMMA Numbering ==
  ASSUME IInv, IInv', Process, NEW d, d = Head(batch), NEW n, n = Len(delivered) + 1, NEW ip
  PROVE  /\ Flows(ip)' = NextNumbers(Flows(ip), "no_ip" \notin fault[d] /\ IpOf[d] = ip, n)
         /\ Events(ip)' = NextNumbers(Events(ip), fault[d] \cap {"no_ip", "proto"} = {} /\ IpOf[d] = ip, n)
<1>1. /\ Len(delivered) \in Nat /\ n \in Nat /\ Len(delivered') = n /\ delivered'[n] = d
      /\ \A i \in 1 .. Len(delivered) : delivered'[i] = delivered[i]
      /\ fault' = fault
  BY Delivering
<1>2. delivered \in Seq(Docs) /\ delivered' \in Seq(Docs)
  BY DEF IInv, IngestTypeOK, TypeOK
<1>3. /\ DOMAIN delivered = 1 .. Len(delivered) /\ DOMAIN delivered' = 1 .. n
      /\ n \notin DOMAIN delivered
      /\ \A i : i \in 1 .. n <=> i \in 1 .. Len(delivered) \/ i = n
  BY <1>1, <1>2
<1>4. Flows(ip)' = NextNumbers(Flows(ip), "no_ip" \notin fault[d] /\ IpOf[d] = ip, n)
  BY <1>1, <1>3 DEF Flows, NextNumbers
<1>5. Events(ip)' = NextNumbers(Events(ip), fault[d] \cap {"no_ip", "proto"} = {} /\ IpOf[d] = ip, n)
  BY <1>1, <1>3, <1>4 DEF Flows, Events, NextNumbers
<1> QED
  BY <1>4, <1>5

\* A step is taken later than those before it.
LEMMA TakenStep == IInv /\ IInv' /\ [IngestNext]_ingest /\ TakenInv => TakenInv'
<1> SUFFICES ASSUME IInv, IInv', [IngestNext]_ingest, TakenInv PROVE TakenInv'
  OBVIOUS
<1>1. CASE UNCHANGED histories
  BY <1>1 DEF histories, TakenInv
<1>2. CASE Restart
  <2>1. Len(taken') = 0
    BY <1>2 DEF Restart
  <2> QED
    BY <2>1 DEF TakenInv
<1>3. CASE Process
  <2> DEFINE n == Len(delivered)
  <2>1. /\ n \in Nat /\ Len(taken') = n + 1 /\ Len(taken) = n /\ taken'[n + 1] = clock
        /\ \A i \in 1 .. n : taken'[i] = taken[i] /\ taken[i] \in 0 .. clock
        /\ clock \in Nat
    BY <1>3, Delivering, NumbersOf
  <2> SUFFICES ASSUME NEW i \in 1 .. n + 1, NEW j \in 1 .. n + 1, i <= j
               PROVE  taken'[i] <= taken'[j]
    BY <2>1 DEF TakenInv
  <2>2. CASE j \in 1 .. n
    <3>1. i \in 1 .. n
      BY <2>1, <2>2
    <3> QED
      BY <2>1, <2>2, <3>1 DEF TakenInv
  <2>3. CASE j = n + 1
    <3>1. CASE i = n + 1
      BY <2>1, <2>3, <3>1
    <3>2. CASE i \in 1 .. n
      BY <2>1, <2>3, <3>2
    <3> QED
      BY <2>1, <3>1, <3>2
  <2> QED
    BY <2>1, <2>2, <2>3
<1> QED
  BY <1>1, <1>2, <1>3, HistoryChanges

\* total_flows counts an event also when the update of the profile breaks off.
LEMMA FlowsStep == IInv /\ IInv' /\ [IngestNext]_ingest /\ FlowsInv => FlowsInv'
<1> SUFFICES ASSUME IInv, IInv', [IngestNext]_ingest, FlowsInv, NEW ip \in IPs
             PROVE  flows'[ip] = Cardinality(Flows(ip)')
  BY DEF FlowsInv
<1>1. CASE UNCHANGED histories
  BY <1>1 DEF histories, FlowsInv, Flows
<1>2. CASE Restart
  <2>1. Flows(ip)' = {} /\ flows'[ip] = 0
    BY <1>2 DEF Restart, Forget, Fresh, Flows
  <2> QED
    BY <2>1, FS_EmptySet
<1>3. CASE Process
  <2>1. PICK d : d = Head(batch)
    OBVIOUS
  <2>2. PICK n : n = Len(delivered) + 1
    OBVIOUS
  <2>3. /\ Len(delivered) \in Nat /\ Flows(ip) \subseteq 1 .. Len(delivered)
        /\ flows[ip] = Cardinality(Flows(ip))
    BY NumbersOf DEF FlowsInv
  <2>4. IsFiniteSet(Flows(ip)) /\ n \notin Flows(ip)
    <3>1. IsFiniteSet(1 .. Len(delivered))
      BY <2>3, FS_Interval
    <3> QED
      BY <2>2, <2>3, <3>1, FS_Subset
  <2>5. Flows(ip)' = NextNumbers(Flows(ip), "no_ip" \notin fault[d] /\ IpOf[d] = ip, n)
    BY <1>3, <2>1, <2>2, Numbering
  <2>6. PassOver(d) \/ BreakOff(d) \/ Observe(d)
    BY <1>3, <2>1, Delivering
  <2>7. flows \in [IPs -> Nat]
    BY DEF IInv, IngestTypeOK, ObservationTypeOK
  <2>8. CASE "no_ip" \notin fault[d] /\ IpOf[d] = ip
    <3>1. flows'[ip] = flows[ip] + 1
      BY <2>6, <2>7, <2>8 DEF PassOver, BreakOff, Observe
    <3>2. Flows(ip)' = Flows(ip) \cup {n}
      BY <2>5, <2>8 DEF NextNumbers
    <3> QED
      BY <2>3, <2>4, <3>1, <3>2, FS_AddElement
  <2>9. CASE ~("no_ip" \notin fault[d] /\ IpOf[d] = ip)
    <3>1. flows'[ip] = flows[ip]
      BY <2>6, <2>7, <2>9 DEF PassOver, BreakOff, Observe, observer
    <3> QED
      BY <2>3, <2>5, <2>9, <3>1 DEF NextNumbers
  <2> QED
    BY <2>8, <2>9
<1> QED
  BY <1>1, <1>2, <1>3, HistoryChanges

\* p lists of E one more than q of D, the document d.
Follows(p, E, q, D, d) ==
  /\ Len(p) = Len(q) + 1 /\ E[p[Len(q) + 1]] = d
  /\ \A k \in 1 .. Len(q) : p[k] = q[k] /\ E[q[k]] = D[q[k]]

\* Another document in the deque, and in the list.
LEMMA RowsMore ==
  ASSUME NEW q \in Seq(Nat), NEW p \in Seq(Nat), NEW rows \in Seq(Docs),
         NEW D, NEW E, NEW d \in Docs,
         Follows(p, E, q, D, d), LastRows(D, rows, q)
  PROVE  LastRows(E, Pushed(rows, d), p)
<1>1. /\ SeqLen \in Nat /\ SeqLen > 0 /\ Len(rows) \in Nat /\ Len(q) \in Nat
      /\ Len(p) = Len(q) + 1
  BY ObservationAssumption, LenProperties DEF Follows
<1>0. Len(rows) = IF Len(q) < SeqLen THEN Len(q) ELSE SeqLen
  BY DEF LastRows
<1> DEFINE more == Pushed(rows, d)
<1>2. CASE Len(rows) = SeqLen
  <2>1. /\ rows # <<>> /\ Tail(rows) \in Seq(Docs) /\ Len(Tail(rows)) = Len(rows) - 1
        /\ \A k \in 1 .. Len(rows) - 1 : Tail(rows)[k] = rows[k + 1]
    BY <1>1, <1>2, EmptySeq, HeadTailProperties
  <2>2. more = Append(Tail(rows), d)
    BY <1>2 DEF Pushed
  <2>3. /\ Len(more) = SeqLen /\ more[SeqLen] = d
        /\ \A k \in 1 .. SeqLen - 1 : more[k] = rows[k + 1]
    BY <1>1, <1>2, <2>1, <2>2, AppendProperties
  <2>5. Len(q) >= SeqLen
    BY <1>0, <1>1, <1>2
  <2> HIDE DEF more
  <2>4. ASSUME NEW k \in 1 .. SeqLen PROVE more[k] = E[p[Len(p) - SeqLen + k]]
    <3>1. CASE k = SeqLen
      <4>1. Len(p) - SeqLen + k = Len(q) + 1
        BY <1>1, <3>1
      <4> QED
        BY <2>3, <3>1, <4>1 DEF Follows
    <3>2. CASE k # SeqLen
      <4>1. k \in 1 .. SeqLen - 1 /\ k + 1 \in 1 .. Len(rows)
        BY <1>1, <1>2, <3>2
      <4>2. Len(p) - SeqLen + k = Len(q) - Len(rows) + (k + 1)
        BY <1>1, <1>2
      <4>3. Len(q) - Len(rows) + (k + 1) \in 1 .. Len(q)
        BY <1>1, <1>2, <2>5, <4>1
      <4>4. more[k] = D[q[Len(q) - Len(rows) + (k + 1)]]
        BY <2>3, <4>1 DEF LastRows
      <4> QED
        BY <4>2, <4>3, <4>4 DEF Follows
    <3> QED
      BY <3>1, <3>2
  <2>6. Len(more) = IF Len(p) < SeqLen THEN Len(p) ELSE SeqLen
    BY <1>1, <2>3, <2>5
  <2> QED
    BY <2>3, <2>4, <2>6 DEF more, LastRows
<1>3. CASE Len(rows) # SeqLen
  <2>1. Len(rows) = Len(q) /\ Len(q) < SeqLen
    BY <1>0, <1>1, <1>3
  <2>2. /\ Len(more) = Len(rows) + 1 /\ more[Len(rows) + 1] = d
        /\ \A k \in 1 .. Len(rows) : more[k] = rows[k]
    BY <1>3, AppendProperties DEF Pushed
  <2> HIDE DEF more
  <2>3. Len(more) = Len(p)
    BY <1>1, <2>1, <2>2
  <2>4. ASSUME NEW k \in 1 .. Len(p) PROVE more[k] = E[p[Len(p) - Len(more) + k]]
    <3>1. Len(p) - Len(more) + k = k
      BY <1>1, <2>3
    <3>2. CASE k = Len(q) + 1
      BY <2>1, <2>2, <3>1, <3>2 DEF Follows
    <3>3. CASE k # Len(q) + 1
      <4>1. k \in 1 .. Len(q) /\ Len(q) - Len(rows) + k = k
        BY <1>1, <2>1, <3>3
      <4>2. more[k] = D[q[k]]
        BY <2>1, <2>2, <4>1 DEF LastRows
      <4> QED
        BY <3>1, <4>1, <4>2 DEF Follows
    <3> QED
      BY <3>2, <3>3
  <2>5. Len(more) = IF Len(p) < SeqLen THEN Len(p) ELSE SeqLen
    BY <1>1, <2>1, <2>3
  <2> QED
    BY <2>3, <2>4, <2>5 DEF more, LastRows
<1> QED
  BY <1>2, <1>3

\* A list of the first n deliveries, of which the next one does not change any.
LEMMA ListedSame ==
  ASSUME NEW q, NEW S, Lists(q, S), NEW n, S \subseteq 1 .. n, NEW D, NEW E,
         \A i \in 1 .. n : E[i] = D[i]
  PROVE  \A k \in 1 .. Len(q) : q[k] \in 1 .. n /\ E[q[k]] = D[q[k]]
BY DEF Lists

\* The times of what p lists.
Timely(T, p) == /\ \A k \in 1 .. Len(p) : T[p[k]] \in Int
                /\ \A j, k \in 1 .. Len(p) : j <= k => T[p[j]] <= T[p[k]]

\* Another event in the profile, and in the list.
LEMMA HoldsMore ==
  ASSUME NEW q \in Seq(Nat), NEW p \in Seq(Nat), NEW E, NEW events \in Seq(E),
         NEW d, NEW c \in Int, [time |-> c, doc |-> d] \in E,
         NEW T, NEW T2, NEW D, NEW D2, NEW o \in Nat, Holds(T, D, events, q, o),
         Follows(p, D2, q, D, d), Follows(p, T2, q, T, c), Timely(T2, p)
  PROVE  \E o2 : Holds(T2, D2, Pruned(Append(events, [time |-> c, doc |-> d]), c), p, o2)
<1> DEFINE event == [time |-> c, doc |-> d]
           more == Append(events, event)
           young == Pruned(more, c)
<1>1. /\ Len(q) \in Nat /\ Len(events) \in Nat /\ Len(p) = Len(q) + 1 /\ Window \in Nat
      /\ o \in 0 .. Len(q) /\ Len(events) = Len(q) - o
  BY LenProperties, ObservationAssumption DEF Holds, Follows
<1>2. /\ more \in Seq(E) /\ Len(more) = Len(events) + 1 /\ more[Len(events) + 1] = event
      /\ \A k \in 1 .. Len(events) : more[k] = events[k]
  BY AppendProperties
<1>3. event.time = c
  OBVIOUS
<1> HIDE DEF more
<1>4. more # <<>> /\ more[Len(more)].time = c
  BY <1>1, <1>2, <1>3, EmptySeq
<1>n. /\ Len(q) \in Nat /\ Len(events) \in Nat /\ Len(p) = Len(q) + 1 /\ Window \in Nat
      /\ o \in Nat /\ o <= Len(q) /\ Len(events) = Len(q) - o /\ Len(more) = Len(events) + 1
      /\ Len(more) \in Nat /\ Len(p) \in Nat
  BY <1>1, <1>2
<1>5. ASSUME NEW k \in 1 .. Len(more) PROVE more[k] = Seen(T2, D2, p[o + k])
  <2>1. CASE k = Len(events) + 1
    <3>1. o + k = Len(q) + 1
      BY <1>1, <2>1
    <3> QED
      BY <1>2, <2>1, <3>1 DEF Follows, Seen
  <2>2. CASE k # Len(events) + 1
    <3>0. k \in 1 .. Len(events)
      BY <1>n, <2>2
    <3>1. o + k \in 1 .. Len(q)
      <4>1. k \in Nat /\ k > 0 /\ k <= Len(events)
        BY <1>n, <3>0, Within
      <4>2. \A x, y, z \in Nat : z > 0 /\ z <= x - y => y + z \in 1 .. x
        OBVIOUS
      <4> QED
        BY <1>n, <4>1, <4>2, Zenon
    <3>2. more[k] = Seen(T, D, q[o + k])
      BY <1>2, <3>0 DEF Holds
    <3> QED
      BY <3>1, <3>2 DEF Follows, Seen
  <2> QED
    BY <2>1, <2>2
<1>6. PICK m \in 1 .. Len(more) :
        /\ Len(young) = Len(more) - m + 1
        /\ \A j \in 1 .. Len(more) - m + 1 : young[j] = more[m - 1 + j]
        /\ c - more[m].time <= Window
        /\ \A j \in 1 .. m - 1 : ~(c - more[j].time <= Window)
  BY <1>2, <1>4, PrunedIs
<1> HIDE DEF young, event
<1> DEFINE o2 == o + m - 1
<1>7. /\ o2 \in 0 .. Len(p) /\ Len(young) = Len(p) - o2 /\ m \in Nat
      /\ o + m \in 1 .. Len(p) /\ m > 0
  <2>1. m \in Nat /\ m > 0 /\ m <= Len(more)
    BY <1>n, Within
  <2>2. Len(young) = Len(more) - m + 1
    BY <1>6
  <2>3. o2 \in 0 .. Len(p) /\ o + m \in 1 .. Len(p)
    BY <1>n, <2>1
  <2>4. Len(young) = Len(p) - o2
    BY <1>n, <2>1, <2>2
  <2> QED
    BY <2>1, <2>3, <2>4
<1>8. ASSUME NEW k \in 1 .. Len(young) PROVE young[k] = Seen(T2, D2, p[o2 + k])
  <2>1. /\ k \in 1 .. Len(more) - m + 1 /\ m - 1 + k \in 1 .. Len(more)
        /\ o + (m - 1 + k) = o2 + k
    BY <1>1, <1>2, <1>6
  <2> QED
    BY <1>5, <1>6, <2>1
<1>9. /\ T2[p[Len(p)]] = c
      /\ \A k \in 1 .. Len(p) : T2[p[k]] \in Int /\ T2[p[k]] <= c
  <2>1. T2[p[Len(p)]] = c
    BY <1>1 DEF Follows
  <2>2. \A k \in 1 .. Len(p) : k <= Len(p) /\ Len(p) \in 1 .. Len(p)
    BY <1>1
  <2> QED
    BY <2>1, <2>2 DEF Timely
<1>10. ASSUME NEW k \in 1 .. Len(more) PROVE more[k].time = T2[p[o + k]]
  <2>1. more[k] = [time |-> T2[p[o + k]], doc |-> D2[p[o + k]]]
    BY <1>5 DEF Seen
  <2> QED
    BY <2>1
<1>11. ASSUME NEW k \in 1 .. Len(p) PROVE k <= o2 <=> c - T2[p[k]] > Window
  <2>1. CASE k <= o
    <3>0. k \in Nat /\ k > 0 /\ k <= o
      BY <2>1
    <3>1. k \in 1 .. Len(q) /\ Len(q) \in 1 .. Len(q) /\ Len(q) \in 1 .. Len(p)
      <4>1. \A x, y, z \in Nat : z > 0 /\ z <= y /\ y <= x =>
              z \in 1 .. x /\ x \in 1 .. x /\ x \in 1 .. x + 1
        OBVIOUS
      <4>2. Len(q) \in Nat /\ o \in Nat /\ o <= Len(q) /\ Len(p) = Len(q) + 1
        BY <1>n
      <4> QED
        BY <3>0, <4>1, <4>2, Zenon
    <3>7. k <= o2
      BY <1>n, <1>7, <3>0
    <3>2. T[q[Len(q)]] - T[q[k]] > Window
      BY <2>1, <3>1 DEF Holds
    <3>3. T2[p[Len(q)]] = T[q[Len(q)]] /\ T2[p[k]] = T[q[k]]
      BY <3>1 DEF Follows
    <3>4. T2[p[Len(q)]] - T2[p[k]] > Window
      BY <3>2, <3>3
    <3>5. T2[p[Len(q)]] \in Int /\ T2[p[k]] \in Int /\ T2[p[Len(q)]] <= c
      BY <1>9, <3>1
    <3>6. \A x, y \in Int : x - y > Window /\ x <= c => c - y > Window
      BY <1>n
    <3> QED
      BY <3>4, <3>5, <3>6, <3>7
  <2>2. CASE o < k /\ k <= o2
    <3>1. k - o \in 1 .. m - 1 /\ k - o \in 1 .. Len(more) /\ o + (k - o) = k
      BY <1>1, <1>2, <1>6, <2>2
    <3>2. ~(c - more[k - o].time <= Window)
      BY <1>6, <3>1
    <3>3. more[k - o].time = T2[p[k]]
      BY <1>10, <3>1
    <3>4. ~(c - T2[p[k]] <= Window) /\ T2[p[k]] \in Int
      BY <1>9, <3>2, <3>3
    <3> QED
      BY <1>1, <2>2, <3>4
  <2>3. CASE k > o2
    <3>1. o + m <= k
      BY <1>1, <1>7, <2>3
    <3>2. c - T2[p[o + m]] <= Window
      BY <1>6, <1>10
    <3>3. T2[p[o + m]] \in Int /\ T2[p[k]] \in Int /\ T2[p[o + m]] <= T2[p[k]]
      BY <1>7, <1>9, <3>1 DEF Timely
    <3>4. \A x, y \in Int : c - x <= Window /\ x <= y => ~(c - y > Window)
      BY <1>n
    <3>5. ~(k <= o2)
      BY <1>n, <1>7, <2>3
    <3> QED
      BY <3>2, <3>3, <3>4, <3>5
  <2> QED
    BY <1>1, <1>7, <2>1, <2>2, <2>3
<1>12. Holds(T2, D2, young, p, o2)
  BY <1>7, <1>8, <1>9, <1>11 DEF Holds
<1> QED
  BY <1>12 DEF young, more, event

\* A profile keeps every event of the attacker whose update succeeds, and drops
\* those that are too old for it.
LEMMA ProfilesStep ==
  IInv /\ IInv' /\ [IngestNext]_ingest /\ TakenInv' /\ ProfilesInv => ProfilesInv'
<1> SUFFICES ASSUME IInv, IInv', [IngestNext]_ingest, TakenInv', ProfilesInv, NEW ip \in IPs
             PROVE  \E q, o : /\ Lists(q, Events(ip)')
                              /\ Holds(taken', delivered', window'[ip], q, o)
  BY DEF ProfilesInv, Holds, Seen
<1>0. PICK q, o : Lists(q, Events(ip)) /\ Holds(taken, delivered, window[ip], q, o)
  BY DEF ProfilesInv
<1>1. CASE UNCHANGED histories
  <2>1. Events(ip)' = Events(ip) /\ UNCHANGED <<taken, delivered, window>>
    BY <1>1 DEF histories, Events, Flows
  <2> QED
    BY <1>0, <2>1
<1>2. CASE Restart
  <2>1. Events(ip)' = {} /\ window'[ip] = <<>>
    BY <1>2 DEF Restart, Forget, Fresh, Events, Flows
  <2>2. Holds(taken', delivered', <<>>, <<>>, 0)
    <3>1. Len(<<>>) = 0
      OBVIOUS
    <3> QED
      BY <3>1 DEF Holds
  <2> QED
    BY <2>1, <2>2, ListsNone
<1>3. CASE Process
  <2>1. PICK d : d = Head(batch)
    OBVIOUS
  <2>2. PICK n : n = Len(delivered) + 1
    OBVIOUS
  <2>3. /\ Len(delivered) \in Nat /\ d \in Docs /\ n \in Nat /\ delivered'[n] = d
        /\ taken'[n] = clock /\ clock \in Nat /\ Len(taken') = n
        /\ \A i \in 1 .. Len(delivered) : delivered'[i] = delivered[i] /\ taken'[i] = taken[i]
        /\ PassOver(d) \/ BreakOff(d) \/ Observe(d)
    <3>1. /\ Len(delivered) \in Nat /\ d \in Docs /\ delivered'[Len(delivered) + 1] = d
          /\ taken'[Len(delivered) + 1] = clock /\ clock \in Nat
          /\ Len(taken') = Len(delivered) + 1
          /\ \A i \in 1 .. Len(delivered) : delivered'[i] = delivered[i] /\ taken'[i] = taken[i]
          /\ PassOver(d) \/ BreakOff(d) \/ Observe(d)
      BY <1>3, <2>1, Delivering
    <3> QED
      BY <2>2, <3>1
  <2>4. Events(ip) \subseteq 1 .. Len(delivered)
    BY NumbersOf
  <2> DEFINE counts == fault[d] \cap {"no_ip", "proto"} = {} /\ IpOf[d] = ip
  <2>5. Events(ip)' = NextNumbers(Events(ip), counts, n)
    BY <1>3, <2>1, <2>2, Numbering
  <2>6. \A k \in 1 .. Len(q) : q[k] \in 1 .. Len(delivered) /\ delivered'[q[k]] = delivered[q[k]]
                               /\ taken'[q[k]] = taken[q[k]]
    BY <1>0, <2>3, <2>4 DEF Lists
  <2> DEFINE E == [time : 0 .. clock, doc : Docs]
  <2>7. window \in [IPs -> Seq(E)] /\ q \in Seq(Nat) /\ o \in Nat
    <3>1. o \in 0 .. Len(q) /\ Len(q) \in Nat /\ q \in Seq(Nat)
      BY <1>0, LenProperties DEF Holds, Lists
    <3>2. window \in [IPs -> Seq(E)]
      BY IngestAssumption DEF IInv, IngestTypeOK, ObservationTypeOK
    <3>3. o \in Nat
      BY <3>1
    <3> HIDE DEF E
    <3> QED
      BY <3>1, <3>2, <3>3
  <2>8. CASE counts
    <3> DEFINE event == [time |-> clock, doc |-> d]
    <3>1. window'[ip] = Pruned(Append(window[ip], event), clock)
      BY <2>3, <2>7, <2>8 DEF PassOver, BreakOff, Observe
    <3>2. PICK p : p = Append(q, n)
      OBVIOUS
    <3>3. \A i \in Events(ip) : i < n
      BY <2>2, <2>3, <2>4
    <3>4. /\ Lists(p, Events(ip) \cup {n}) /\ Len(p) = Len(q) + 1 /\ p[Len(q) + 1] = n
          /\ \A k \in 1 .. Len(q) : p[k] = q[k]
      BY <1>0, <2>3, <3>2, <3>3, ListsMore
    <3>5. Follows(p, delivered', q, delivered, d) /\ Follows(p, taken', q, taken, clock)
      BY <2>3, <2>6, <3>4 DEF Follows
    <3>6. p \in Seq(Nat) /\ window[ip] \in Seq(E) /\ event \in E /\ clock \in Int
      <4>1. clock \in 0 .. clock
        BY <2>3
      <4>2. event \in E
        BY <2>3, <4>1
      <4> HIDE DEF E, event
      <4>3. p \in Seq(Nat) /\ window[ip] \in Seq(E)
        BY <2>7, <3>4 DEF Lists
      <4> QED
        BY <2>3, <4>2, <4>3
    <3>7. Timely(taken', p)
      <4>1. \A k \in 1 .. Len(p) : p[k] \in 1 .. n
        <5>1. \A i \in Events(ip) \cup {n} : i \in 1 .. n
          BY <2>2, <2>3, <2>4
        <5> QED
          BY <3>4, <5>1 DEF Lists
      <4>2. \A j, k \in 1 .. Len(p) : j <= k => p[j] <= p[k]
        <5> SUFFICES ASSUME NEW j \in 1 .. Len(p), NEW k \in 1 .. Len(p), j <= k
                     PROVE  p[j] <= p[k]
          OBVIOUS
        <5>1. p[j] \in Nat /\ p[k] \in Nat /\ Len(p) \in Nat
          BY <3>6, ElementOfSeq, LenProperties
        <5>2. CASE j = k
          BY <5>1, <5>2
        <5>3. CASE j < k
          <6>1. p[j] < p[k]
            BY <3>4, <5>3 DEF Lists
          <6> QED
            BY <5>1, <6>1
        <5> QED
          BY <5>1, <5>2, <5>3
      <4>3. taken' \in Seq(0 .. clock') /\ clock' \in Nat
        BY DEF IInv, IngestTypeOK, ObservationTypeOK
      <4>4. \A i \in 1 .. n : taken'[i] \in 0 .. clock'
        BY <2>3, <4>3, ElementOfSeq
      <4>5. \A i, j \in 1 .. n : i <= j => taken'[i] <= taken'[j]
        BY <2>3 DEF TakenInv
      <4>6. \A k \in 1 .. Len(p) : taken'[p[k]] \in Int
        BY <4>1, <4>3, <4>4
      <4> QED
        BY <4>1, <4>2, <4>5, <4>6 DEF Timely
    <3> HIDE DEF E, event
    <3>8. \E r : Holds(taken', delivered', Pruned(Append(window[ip], [time |-> clock, doc |-> d]), clock), p, r)
      BY <1>0, <2>7, <3>5, <3>6, <3>7, HoldsMore DEF event
    <3> QED
      BY <2>5, <2>8, <3>1, <3>4, <3>8 DEF NextNumbers, event
  <2>9. CASE ~counts
    <3>1. window'[ip] = window[ip]
      BY <2>3, <2>7, <2>9 DEF PassOver, BreakOff, Observe, observer
    <3>2. Events(ip)' = Events(ip)
      BY <2>5, <2>9 DEF NextNumbers
    <3>3. Holds(taken', delivered', window[ip], q, o)
      <4>1. Len(q) \in Nat /\ o \in 0 .. Len(q) /\ Len(window[ip]) = Len(q) - o
        BY <1>0, <2>7, LenProperties DEF Holds
      <4>2. \A k \in 1 .. Len(window[ip]) : o + k \in 1 .. Len(q)
        BY <4>1
      <4>3. \A k \in 1 .. Len(q) : Len(q) \in 1 .. Len(q)
        BY <4>1
      <4>4. \A k \in 1 .. Len(window[ip]) : window[ip][k] = Seen(taken', delivered', q[o + k])
        BY <1>0, <2>6, <4>2 DEF Holds, Seen
      <4>5. \A k \in 1 .. Len(q) : k <= o <=> taken'[q[Len(q)]] - taken'[q[k]] > Window
        BY <1>0, <2>6, <4>3 DEF Holds
      <4> QED
        BY <4>1, <4>4, <4>5 DEF Holds
    <3> QED
      BY <1>0, <3>1, <3>2, <3>3
  <2> QED
    BY <2>8, <2>9
<1> QED
  BY <1>1, <1>2, <1>3, HistoryChanges

\* Those of S that are young enough for the last one, n.
Young(T, S, n) == {i \in S : i <= n /\ T[n] - T[i] <= Window}

\* n is the greatest of S.
Greatest(S, n) == n \in S /\ \A i \in S : i <= n

\* The documents of the deliveries S, and of the events of a profile.
DocsAt(D, S) == {D[i] : i \in S}
DocsIn(events) == {e.doc : e \in ToSet(events)}

\* The events young enough for the last one are those of the profile.
LEMMA RecentCount ==
  ASSUME NEW S, NEW q, NEW o, NEW D, NEW T,
         NEW events, DOMAIN events = 1 .. Len(events), Lists(q, S), Holds(T, D, events, q, o), Timely(T, q), NEW n, Greatest(S, n)
  PROVE  /\ Cardinality(Young(T, S, n)) = Len(events)
         /\ DocsAt(D, Young(T, S, n)) = DocsIn(events)
<1> DEFINE m == Len(q)
<1>1. m \in Nat /\ o \in Nat /\ o <= m /\ Len(events) = m - o /\ Window \in Nat
  <2>1. q \in Seq(Nat)
    BY DEF Lists
  <2>2. o \in 0 .. m /\ Len(events) = m - o
    BY DEF Holds
  <2> QED
    BY <2>1, <2>2, LenProperties, ObservationAssumption
<1>2. /\ \A k \in 1 .. m : q[k] \in S /\ q[k] \in Nat /\ T[q[k]] \in Int
      /\ \A i \in S : \E k \in 1 .. m : q[k] = i
      /\ \A j, k \in 1 .. m : j < k => q[j] < q[k]
  BY ElementOfSeq DEF Lists, Timely
<1>3. \A k \in 1 .. m : k <= o <=> T[q[m]] - T[q[k]] > Window
  BY DEF Holds
<1>n. n \in S /\ \A i \in S : i <= n
  BY DEF Greatest
<1> HIDE DEF m
<1>4. m \in 1 .. m /\ q[m] = n
  <2>1. PICK k \in 1 .. m : q[k] = n
    BY <1>2, <1>n
  <2>2. k \in Nat /\ k > 0 /\ k <= m /\ m \in 1 .. m
    BY <1>1, <2>1, Within
  <2>3. ~(k < m)
    <3> SUFFICES ASSUME k < m PROVE FALSE
      OBVIOUS
    <3>1. q[k] < q[m] /\ q[m] \in S /\ q[m] <= n
      BY <1>2, <1>n, <2>2
    <3> QED
      BY <1>2, <2>1, <2>2, <3>1
  <2> QED
    BY <1>1, <2>1, <2>2, <2>3
<1>5. ASSUME NEW k \in 1 .. m PROVE T[n] - T[q[k]] <= Window <=> k > o
  <2>1. T[n] \in Int /\ T[q[k]] \in Int /\ k \in Nat
    BY <1>1, <1>2, <1>4
  <2> QED
    BY <1>1, <1>3, <1>4, <2>1
<1>6. Young(T, S, n) = Stretch(q, o + 1, m)
  <2>1. ASSUME NEW i \in S, T[n] - T[i] <= Window PROVE i \in {q[k] : k \in o + 1 .. m}
    <3>1. PICK k \in 1 .. m : q[k] = i
      BY <1>2
    <3>2. k > o
      BY <1>5, <2>1, <3>1
    <3>3. k \in o + 1 .. m
      BY <1>1, <3>1, <3>2
    <3> QED
      BY <3>1, <3>3
  <2>2. ASSUME NEW k \in o + 1 .. m
        PROVE  q[k] \in S /\ q[k] <= n /\ T[n] - T[q[k]] <= Window
    <3>1. k \in 1 .. m /\ k > o
      BY <1>1
    <3> QED
      BY <1>2, <1>5, <1>n, <3>1
  <2>3. \A i \in S : i <= n
    BY <1>n
  <2> QED
    BY <2>1, <2>2, <2>3 DEF Stretch, Young
<1>7. Cardinality(Stretch(q, o + 1, m)) = m - o
  <2>1. o + 1 \in Nat \ {0} /\ o + 1 <= m + 1 /\ m <= Len(q) /\ m - (o + 1) + 1 = m - o
    BY <1>1 DEF m
  <2> QED
    BY <1>1, <2>1, ListsCount
<1>8. DocsAt(D, Stretch(q, o + 1, m)) = DocsIn(events)
  <2>1. DOMAIN events = 1 .. m - o
    BY <1>1
  <2>2. \A k \in 1 .. m - o : events[k].doc = D[q[o + k]]
    <3>1. \A k \in 1 .. Len(events) : events[k] = Seen(T, D, q[o + k])
      BY DEF Holds
    <3>2. \A i : Seen(T, D, i).doc = D[i]
      BY DEF Seen
    <3> QED
      BY <1>1, <3>1, <3>2
  <2>3. ASSUME NEW k \in o + 1 .. m PROVE D[q[k]] \in DocsIn(events)
    <3>1. k - o \in 1 .. m - o /\ o + (k - o) = k
      BY <1>1
    <3>2. events[k - o].doc = D[q[k]]
      BY <2>2, <3>1
    <3> QED
      BY <2>1, <3>1, <3>2 DEF DocsIn, ToSet
  <2>4. ASSUME NEW k \in 1 .. m - o PROVE events[k].doc \in DocsAt(D, Stretch(q, o + 1, m))
    <3>1. o + k \in o + 1 .. m
      BY <1>1
    <3> QED
      BY <2>2, <3>1 DEF DocsAt, Stretch
  <2>5. \A x \in DocsAt(D, Stretch(q, o + 1, m)) : x \in DocsIn(events)
    BY <2>3 DEF DocsAt, Stretch
  <2>6. \A x \in DocsIn(events) : x \in DocsAt(D, Stretch(q, o + 1, m))
    BY <2>1, <2>4 DEF DocsIn, ToSet
  <2> QED
    BY <2>5, <2>6
<1> QED
  BY <1>1, <1>6, <1>7, <1>8 DEF m

\* ev_5m is the number of events in the profile, and their documents are the company.
LEMMA RecentIs ==
  ASSUME IInv, IInv', Process, TakenInv', ProfilesInv', NEW d, d = Head(batch),
         NEW n, n = Len(delivered) + 1, NEW ip \in IPs, ip = IpOf[d],
         fault[d] \cap {"no_ip", "proto"} = {}
  PROVE  /\ Cardinality(Recent(ip, n)') = Len(window'[ip])
         /\ Company(ip, n)' = DocsIn(window'[ip])
<1>1. PICK q, o : Lists(q, Events(ip)') /\ Holds(taken', delivered', window'[ip], q, o)
  BY DEF ProfilesInv, Holds, Seen
<1>2. Len(delivered) \in Nat /\ Len(taken') = n /\ n \in Nat
  <2>1. Len(delivered) \in Nat /\ Len(taken') = Len(delivered) + 1
    BY Delivering
  <2> QED
    BY <2>1
<1>3. Events(ip)' = Events(ip) \cup {n} /\ Events(ip) \subseteq 1 .. Len(delivered)
  BY NumbersOf, Numbering DEF NextNumbers
<1>4. n \in Events(ip)' /\ \A i \in Events(ip)' : i \in 1 .. n /\ i <= n
  BY <1>2, <1>3
<1>5. taken' \in Seq(0 .. clock') /\ clock' \in Nat
  BY DEF IInv, IngestTypeOK, ObservationTypeOK
<1>6. \A i \in 1 .. n : taken'[i] \in 0 .. clock'
  BY <1>2, <1>5, ElementOfSeq
<1>7. \A i, j \in 1 .. n : i <= j => taken'[i] <= taken'[j]
  BY <1>2 DEF TakenInv
<1>8. Timely(taken', q)
  <2>1. \A k \in 1 .. Len(q) : q[k] \in 1 .. n
    BY <1>1, <1>4 DEF Lists
  <2>2. \A k \in 1 .. Len(q) : taken'[q[k]] \in Int
    BY <1>5, <1>6, <2>1
  <2>3. ASSUME NEW j \in 1 .. Len(q), NEW k \in 1 .. Len(q), j <= k PROVE q[j] <= q[k]
    <3>1. q[j] \in Nat /\ q[k] \in Nat /\ Len(q) \in Nat
      BY <1>1, ElementOfSeq, LenProperties DEF Lists
    <3>2. CASE j = k
      BY <3>1, <3>2
    <3>3. CASE j < k
      <4>1. q[j] < q[k]
        BY <1>1, <3>3 DEF Lists
      <4> QED
        BY <3>1, <4>1
    <3> QED
      BY <2>3, <3>1, <3>2, <3>3
  <2> QED
    BY <1>7, <2>1, <2>2, <2>3 DEF Timely
<1>9. Recent(ip, n)' = Young(taken', Events(ip)', n)
  BY DEF Recent, Young
<1>10. Company(ip, n)' = DocsAt(delivered', Young(taken', Events(ip)', n))
  BY <1>9 DEF Company, DocsAt
<1>11. /\ Cardinality(Young(taken', Events(ip)', n)) = Len(window'[ip])
       /\ DocsAt(delivered', Young(taken', Events(ip)', n)) = DocsIn(window'[ip])
  <2>1. Greatest(Events(ip)', n)
    BY <1>4 DEF Greatest
  <2>2. DOMAIN window'[ip] = 1 .. Len(window'[ip])
    <3>1. window' \in [IPs -> Seq([time : 0 .. clock', doc : DOMAIN IpOf])]
      BY DEF IInv, IngestTypeOK, ObservationTypeOK
    <3> QED
      BY <3>1, LenProperties
  <2> QED
    BY <1>1, <1>8, <2>1, <2>2, RecentCount
<1> QED
  BY <1>9, <1>10, <1>11

\* What extract makes of the next document, d, is a matter of its company.
LEMMA ObservedIs ==
  ASSUME IInv, IInv', Process, TakenInv', ProfilesInv', NEW d, d = Head(batch),
         NEW n, n = Len(delivered) + 1, NEW ip \in IPs, ip = IpOf[d],
         fault[d] \cap {"no_ip", "proto"} = {},
         NEW docs, docs = Company(ip, n)', NEW events, events = window'[ip],
         NEW value, value = [number |-> Number[d], time_since_last_min |-> SinceLast(ip),
                             ev_5m |-> Len(events), payload_len |-> PayloadLen[d]]
  PROVE  /\ KeepRow(ip, d, docs)
         /\ norm' = [f \in Features |-> IF f \in Reached(d, docs) THEN Learned(norm[f], value[f])
                                        ELSE norm[f]]
<1>1. Observe(d)
  <2>1. PassOver(d) \/ BreakOff(d) \/ Observe(d)
    BY Delivering
  <2>2. ~PassOver(d) /\ ~BreakOff(d)
    BY DEF PassOver, BreakOff
  <2> QED
    BY <2>1, <2>2
<1>2. PICK es : es = Pruned(Append(window[ip], [time |-> clock, doc |-> d]), clock)
  OBVIOUS
<1>3. window' = [window EXCEPT ![ip] = es] /\ window \in [IPs -> Seq([time : 0 .. clock, doc : DOMAIN IpOf])]
  BY <1>1, <1>2 DEF Observe, IInv, IngestTypeOK, ObservationTypeOK
<1>4. es = events
  BY <1>3
<1>5. docs = {e.doc : e \in ToSet(es)}
  <2>1. Company(ip, n)' = DocsIn(window'[ip])
    BY RecentIs
  <2> QED
    BY <1>4, <2>1 DEF DocsIn
<1> QED
  BY <1>1, <1>2, <1>4, <1>5 DEF Observe

\* What the profile held for an earlier delivery stays what it was.
LEMMA CompanySame ==
  ASSUME IInv, IInv', Process, NEW ip, NEW i \in 1 .. Len(delivered)
  PROVE  Recent(ip, i)' = Recent(ip, i) /\ Company(ip, i)' = Company(ip, i)
<1>1. PICK d : d = Head(batch)
  OBVIOUS
<1>2. PICK n : n = Len(delivered) + 1
  OBVIOUS
<1>3. /\ Len(delivered) \in Nat /\ i \in Nat /\ i < n
      /\ \A j \in 1 .. Len(delivered) : delivered'[j] = delivered[j] /\ taken'[j] = taken[j]
  <2>1. /\ Len(delivered) \in Nat
        /\ \A j \in 1 .. Len(delivered) : delivered'[j] = delivered[j] /\ taken'[j] = taken[j]
    BY <1>1, Delivering
  <2>2. i \in Nat /\ i <= Len(delivered)
    BY <2>1, Within
  <2> QED
    BY <1>2, <2>1, <2>2
<1>4. /\ Events(ip) \subseteq 1 .. Len(delivered)
      /\ Events(ip)' = NextNumbers(Events(ip), fault[d] \cap {"no_ip", "proto"} = {} /\ IpOf[d] = ip, n)
  BY <1>1, <1>2, NumbersOf, Numbering
<1>5. ~(n <= i)
  BY <1>2, <1>3
<1>6. Recent(ip, i)' = Recent(ip, i)
  BY <1>3, <1>4, <1>5 DEF Recent, NextNumbers
<1>7. \A j \in Recent(ip, i) : delivered'[j] = delivered[j]
  BY <1>3, <1>4 DEF Recent
<1> QED
  BY <1>6, <1>7 DEF Company

\* The next document has a row if it counts and is accepted in its company.
Rowed(d, docs, ip) == /\ fault[d] \cap {"no_ip", "proto"} = {} /\ IpOf[d] = ip
                      /\ Accepted(d, docs)

LEMMA KeptNext ==
  ASSUME IInv, IInv', Process, NEW d, d = Head(batch), NEW n, n = Len(delivered) + 1, NEW ip,
         NEW docs, docs = Company(ip, n)'
  PROVE  Kept(ip)' = NextNumbers(Kept(ip), Rowed(d, docs, ip), n)
<1>1. /\ Len(delivered) \in Nat /\ n \in Nat /\ delivered'[n] = d /\ fault' = fault
      /\ \A i \in 1 .. Len(delivered) : delivered'[i] = delivered[i]
  <2>1. /\ Len(delivered) \in Nat /\ delivered'[Len(delivered) + 1] = d /\ fault' = fault
        /\ \A i \in 1 .. Len(delivered) : delivered'[i] = delivered[i]
    BY Delivering
  <2> QED
    BY <2>1
<1> DEFINE counts == fault[d] \cap {"no_ip", "proto"} = {} /\ IpOf[d] = ip
<1>2. /\ Events(ip) \subseteq 1 .. Len(delivered) /\ n \notin Events(ip)
      /\ Events(ip)' = NextNumbers(Events(ip), counts, n)
  <2>1. n \notin 1 .. Len(delivered)
    BY <1>1
  <2> QED
    BY <2>1, NumbersOf, Numbering
<1>3. \A e, h : Accepted(e, h)' = Accepted(e, h)
  BY <1>1 DEF Accepted, Hashable
<1>4. \A i : i \in Kept(ip)' <=> i \in Events(ip)' /\ Accepted(delivered'[i], Company(ip, i)')
  BY <1>3 DEF Kept
<1>5. \A i : i \in Kept(ip) <=> i \in Events(ip) /\ Accepted(delivered[i], Company(ip, i))
  BY DEF Kept
<1>6. \A i \in Events(ip) : delivered'[i] = delivered[i] /\ Company(ip, i)' = Company(ip, i)
  BY <1>1, <1>2, CompanySame
<1>7. \A i : i \in Events(ip)' <=> i \in Events(ip) \/ (counts /\ i = n)
  BY <1>2 DEF NextNumbers
<1>8. \A i : i \in Kept(ip)' <=> i \in Kept(ip) \/ (Rowed(d, docs, ip) /\ i = n)
  <2> HIDE DEF counts
  <2>1. ASSUME NEW i \in Events(ip) PROVE i \in Kept(ip)' <=> i \in Kept(ip)
    BY <1>4, <1>5, <1>6, <1>7, <2>1
  <2>2. n \in Kept(ip)' <=> counts /\ Accepted(d, docs)
    BY <1>1, <1>2, <1>4, <1>7
  <2>3. Rowed(d, docs, ip) <=> counts /\ Accepted(d, docs)
    BY DEF Rowed, counts
  <2> QED
    BY <1>2, <1>4, <1>5, <1>7, <2>1, <2>2, <2>3
<1> QED
  BY <1>8 DEF NextNumbers

\* Only such a document changes the rows and last_timestamp.
LEMMA RowKept ==
  ASSUME IInv, IInv', Process, TakenInv', ProfilesInv', NEW d, d = Head(batch),
         NEW n, n = Len(delivered) + 1, NEW ip \in IPs, NEW docs, docs = Company(ip, n)'
  PROVE  /\ Rowed(d, docs, ip) =>
              buffer'[ip] = Pushed(buffer[ip], d) /\ lastSeen'[ip] = clock
         /\ ~Rowed(d, docs, ip) => buffer'[ip] = buffer[ip] /\ lastSeen'[ip] = lastSeen[ip]
<1>1. /\ buffer \in [IPs -> Seq(DOMAIN IpOf)] /\ lastSeen \in [IPs -> 0 .. clock \cup {Never}]
  BY DEF IInv, IngestTypeOK, ObservationTypeOK
<1>2. PassOver(d) \/ BreakOff(d) \/ Observe(d)
  BY Delivering
<1>3. CASE fault[d] \cap {"no_ip", "proto"} = {} /\ IpOf[d] = ip
  <2>1. PICK es : es = window'[ip]
    OBVIOUS
  <2>2. PICK value : value = [number |-> Number[d], time_since_last_min |-> SinceLast(ip),
                              ev_5m |-> Len(es), payload_len |-> PayloadLen[d]]
    OBVIOUS
  <2>3. KeepRow(ip, d, docs)
    BY <1>3, <2>1, <2>2, ObservedIs
  <2> QED
    BY <1>1, <1>3, <2>3 DEF KeepRow, Rowed
<1>4. CASE ~(fault[d] \cap {"no_ip", "proto"} = {} /\ IpOf[d] = ip)
  <2>1. buffer'[ip] = buffer[ip] /\ lastSeen'[ip] = lastSeen[ip]
    BY <1>1, <1>2, <1>4 DEF PassOver, BreakOff, Observe, KeepRow, observer
  <2> QED
    BY <1>4, <2>1 DEF Rowed
<1> QED
  BY <1>3, <1>4

\* What does not change the histories changes nothing that is said of them.
LEMMA KeptStays ==
  ASSUME UNCHANGED histories, NEW ip
  PROVE  /\ Kept(ip)' = Kept(ip) /\ Events(ip)' = Events(ip)
         /\ \A i : Recent(ip, i)' = Recent(ip, i) /\ Company(ip, i)' = Company(ip, i)
         /\ \A d, docs : /\ Accepted(d, docs)' = Accepted(d, docs)
                         /\ Reached(d, docs)' = Reached(d, docs)
<1>1. UNCHANGED <<delivered, taken, fault>>
  BY DEF histories
<1>2. Events(ip)' = Events(ip)
  BY <1>1 DEF Events, Flows
<1>3. \A i : Recent(ip, i)' = Recent(ip, i)
  BY <1>1, <1>2 DEF Recent
<1>4. \A i : Company(ip, i)' = Company(ip, i)
  BY <1>1, <1>3 DEF Company
<1>5. \A d, docs : /\ Accepted(d, docs)' = Accepted(d, docs)
                   /\ Reached(d, docs)' = Reached(d, docs)
  BY <1>1 DEF Accepted, Reached, Hashable
<1>6. Kept(ip)' = Kept(ip)
  BY <1>1, <1>2, <1>4, <1>5 DEF Kept
<1> QED
  BY <1>2, <1>3, <1>4, <1>5, <1>6

\* A row is kept of every event that is extracted to the end.
LEMMA RowsStep ==
  IInv /\ IInv' /\ [IngestNext]_ingest /\ TakenInv' /\ ProfilesInv' /\ RowsInv => RowsInv'
<1> SUFFICES ASSUME IInv, IInv', [IngestNext]_ingest, TakenInv', ProfilesInv', RowsInv,
                    NEW ip \in IPs
             PROVE  \E q : Lists(q, Kept(ip)') /\ LastRows(delivered', buffer'[ip], q)
  BY DEF RowsInv, LastRows
<1>0. PICK q : Lists(q, Kept(ip)) /\ LastRows(delivered, buffer[ip], q)
  BY DEF RowsInv
<1>1. CASE UNCHANGED histories
  <2>1. Kept(ip)' = Kept(ip) /\ UNCHANGED <<delivered, buffer>>
    BY <1>1, KeptStays DEF histories
  <2> QED
    BY <1>0, <2>1
<1>2. CASE Restart
  <2>1. Kept(ip)' = {} /\ buffer'[ip] = <<>>
    BY <1>2 DEF Restart, Forget, Fresh, Kept, Events, Flows
  <2>2. LastRows(delivered', <<>>, <<>>)
    <3>1. SeqLen \in Nat /\ SeqLen > 0 /\ Len(<<>>) = 0
      BY ObservationAssumption
    <3> QED
      BY <3>1 DEF LastRows
  <2> QED
    BY <2>1, <2>2, ListsNone
<1>3. CASE Process
  <2>1. PICK d : d = Head(batch)
    OBVIOUS
  <2>2. PICK n : n = Len(delivered) + 1
    OBVIOUS
  <2>3. /\ Len(delivered) \in Nat /\ d \in Docs /\ n \in Nat /\ delivered'[n] = d
        /\ \A i \in 1 .. Len(delivered) : delivered'[i] = delivered[i]
        /\ PassOver(d) \/ BreakOff(d) \/ Observe(d)
    <3>1. /\ Len(delivered) \in Nat /\ d \in Docs /\ delivered'[Len(delivered) + 1] = d
          /\ \A i \in 1 .. Len(delivered) : delivered'[i] = delivered[i]
          /\ PassOver(d) \/ BreakOff(d) \/ Observe(d)
      BY <1>3, <2>1, Delivering
    <3> QED
      BY <2>2, <3>1
  <2>4. Kept(ip) \subseteq 1 .. Len(delivered)
    BY NumbersOf
  <2>a. PICK docs : docs = Company(ip, n)'
    OBVIOUS
  <2>5. Kept(ip)' = NextNumbers(Kept(ip), Rowed(d, docs, ip), n)
    BY <1>3, <2>1, <2>2, <2>a, KeptNext
  <2>6. \A k \in 1 .. Len(q) : q[k] \in 1 .. Len(delivered) /\ delivered'[q[k]] = delivered[q[k]]
    BY <1>0, <2>3, <2>4, ListedSame
  <2>7. buffer \in [IPs -> Seq(Docs)] /\ q \in Seq(Nat)
    BY <1>0, IngestAssumption DEF IInv, IngestTypeOK, ObservationTypeOK, Lists
  <2>8. CASE Rowed(d, docs, ip)
    <3>1. buffer'[ip] = Pushed(buffer[ip], d)
      BY <1>3, <2>1, <2>2, <2>8, <2>a, RowKept
    <3>2. PICK p : p = Append(q, n)
      OBVIOUS
    <3>3. \A i \in Kept(ip) : i < n
      BY <2>2, <2>3, <2>4
    <3>4. /\ Lists(p, Kept(ip) \cup {n}) /\ Len(p) = Len(q) + 1 /\ p[Len(q) + 1] = n
          /\ \A k \in 1 .. Len(q) : p[k] = q[k]
      BY <1>0, <2>3, <3>2, <3>3, ListsMore
    <3>5. Follows(p, delivered', q, delivered, d)
      BY <2>3, <2>6, <3>4 DEF Follows
    <3>6. p \in Seq(Nat) /\ buffer[ip] \in Seq(Docs)
      BY <2>7, <3>4 DEF Lists
    <3>7. LastRows(delivered', Pushed(buffer[ip], d), p)
      BY <1>0, <2>3, <2>7, <3>5, <3>6, RowsMore
    <3> QED
      BY <2>5, <2>8, <3>1, <3>4, <3>7 DEF NextNumbers
  <2>9. CASE ~Rowed(d, docs, ip)
    <3>1. buffer'[ip] = buffer[ip]
      BY <1>3, <2>1, <2>2, <2>9, <2>a, RowKept
    <3>2. Kept(ip)' = Kept(ip)
      BY <2>5, <2>9 DEF NextNumbers
    <3>3. LastRows(delivered', buffer[ip], q)
      <4>1. Len(q) \in Nat /\ Len(buffer[ip]) \in Nat /\ SeqLen \in Nat
        BY <2>7, LenProperties, ObservationAssumption
      <4>2. Len(buffer[ip]) <= Len(q)
        BY <1>0, <4>1 DEF LastRows
      <4>3. \A k \in 1 .. Len(buffer[ip]) : Len(q) - Len(buffer[ip]) + k \in 1 .. Len(q)
        BY <4>1, <4>2
      <4> QED
        BY <1>0, <2>6, <4>3 DEF LastRows
    <3> QED
      BY <1>0, <3>1, <3>2, <3>3
  <2> QED
    BY <2>8, <2>9
<1> QED
  BY <1>1, <1>2, <1>3, HistoryChanges

\* The rows of an attacker, as the property states them.
LEMMA RowsAre ==
  ASSUME IInv, OnceAndInOrder, NEW ip \in IPs, NEW q, Lists(q, Kept(ip)),
         LastRows(delivered, buffer[ip], q)
  PROVE  LET rows == buffer[ip]
             ago(i) == Cardinality({j \in Kept(ip) : j >= i})
         IN /\ Len(rows) = Min({SeqLen, Cardinality(Kept(ip))})
            /\ \A i \in Kept(ip) :
                 ago(i) <= Len(rows) => rows[Len(rows) + 1 - ago(i)] = delivered[i]
            /\ \A i, j \in DOMAIN rows :
                 (i < j /\ {rows[i], rows[j]} \cap bad = {}) =>
                   rows[i] # rows[j] /\ stamp[rows[i]] <= stamp[rows[j]]
<1> DEFINE rows == buffer[ip]
           m == Len(rows)
           n == Len(q)
<1>1. /\ m \in Nat /\ n \in Nat /\ SeqLen \in Nat /\ rows \in Seq(Docs)
      /\ m = IF n < SeqLen THEN n ELSE SeqLen
  <2>1. buffer \in [IPs -> Seq(Docs)] /\ q \in Seq(Nat)
    BY IngestAssumption DEF IInv, IngestTypeOK, ObservationTypeOK, Lists
  <2> QED
    BY <2>1, LenProperties, ObservationAssumption DEF LastRows
<1>2. m <= n
  BY <1>1
<1>3. \A k \in 1 .. m : rows[k] = delivered[q[n - m + k]]
  BY DEF LastRows
<1>4. DOMAIN rows = 1 .. m
  BY <1>1
<1>5. \A k \in 1 .. n : q[k] \in Kept(ip)
  BY DEF Lists
<1>6. Kept(ip) \subseteq 1 .. Len(delivered) /\ DOMAIN delivered = 1 .. Len(delivered)
  <2>1. Kept(ip) \subseteq 1 .. Len(delivered)
    BY NumbersOf
  <2> QED
    BY <2>1 DEF IInv, IngestTypeOK, TypeOK
<1> HIDE DEF rows, m, n
<1>7. m = Min({SeqLen, Cardinality(Kept(ip))})
  <2>1. Cardinality(Kept(ip)) = n
    BY ListsAll DEF n
  <2>2. {SeqLen, n} \in SUBSET Nat /\ m \in {SeqLen, n} /\ \A i \in {SeqLen, n} : m <= i
    BY <1>1
  <2> QED
    BY <2>1, <2>2, LeastIs
<1>8. ASSUME NEW i \in Kept(ip), Cardinality({j \in Kept(ip) : j >= i}) <= m
      PROVE  rows[m + 1 - Cardinality({j \in Kept(ip) : j >= i})] = delivered[i]
  <2>1. PICK k \in 1 .. n : q[k] = i
    BY DEF Lists, n
  <2>2. Cardinality({j \in Kept(ip) : j >= i}) = n - k + 1
    BY <2>1, ListsFrom DEF n
  <2>3. n - k + 1 <= m
    BY <1>8, <2>2
  <2>4. k \in Nat /\ k > 0 /\ k <= n
    BY <1>1, <2>1, Within
  <2>5. m + 1 - (n - k + 1) \in 1 .. m
    BY <1>1, <2>3, <2>4
  <2>6. n - m + (m + 1 - (n - k + 1)) = k
    BY <1>1, <2>4
  <2>7. rows[m + 1 - (n - k + 1)] = delivered[q[n - m + (m + 1 - (n - k + 1))]]
    BY <1>3, <2>5
  <2> QED
    BY <2>1, <2>2, <2>6, <2>7
<1>9. ASSUME NEW i \in 1 .. m, NEW j \in 1 .. m, i < j, {rows[i], rows[j]} \cap bad = {}
      PROVE  rows[i] # rows[j] /\ stamp[rows[i]] <= stamp[rows[j]]
  <2>1. /\ n - m + i \in 1 .. n /\ n - m + j \in 1 .. n /\ n - m + i < n - m + j
    BY <1>1, <1>2, <1>9
  <2>2. PICK a : a = q[n - m + i]
    OBVIOUS
  <2>3. PICK b : b = q[n - m + j]
    OBVIOUS
  <2>4. a < b /\ a \in DOMAIN delivered /\ b \in DOMAIN delivered
    BY <1>5, <1>6, <2>1, <2>2, <2>3 DEF Lists, n
  <2>5. rows[i] = delivered[a] /\ rows[j] = delivered[b]
    BY <1>3, <2>2, <2>3
  <2> QED
    BY <1>9, <2>4, <2>5 DEF OnceAndInOrder
<1> QED
  BY <1>4, <1>7, <1>8, <1>9 DEF rows, m

\* The events of a profile, as the property states them.
LEMMA ProfileIs ==
  ASSUME IInv, OnceAndInOrder, TakenInv, NEW ip \in IPs, NEW q, NEW o, Lists(q, Events(ip)),
         Holds(taken, delivered, window[ip], q, o)
  PROVE  LET events == Events(ip)
             recent == {i \in events : \A j \in events : taken[j] - taken[i] <= Window}
             held == window[ip]
         IN /\ Len(held) = Cardinality(recent)
            /\ \A i \in recent : LET k == Cardinality({j \in recent : j <= i})
                                 IN held[k] = [time |-> taken[i], doc |-> delivered[i]]
            /\ \A i, j \in DOMAIN held :
                 held[i].doc = held[j].doc => i = j \/ held[i].doc \in bad
<1> DEFINE recent == {i \in Events(ip) : \A j \in Events(ip) : taken[j] - taken[i] <= Window}
           held == window[ip]
           n == Len(q)
<1>1. n \in Nat /\ o \in Nat /\ o <= n /\ Len(held) = n - o /\ Window \in Nat
  <2>1. q \in Seq(Nat)
    BY DEF Lists
  <2>2. o \in 0 .. n /\ Len(held) = n - o
    BY DEF Holds
  <2> QED
    BY <2>1, <2>2, LenProperties, ObservationAssumption
<1>2. DOMAIN held = 1 .. Len(held)
  <2>1. window \in [IPs -> Seq([time : 0 .. clock, doc : DOMAIN IpOf])]
    BY DEF IInv, IngestTypeOK, ObservationTypeOK
  <2> QED
    BY <2>1
<1>3. \A k \in 1 .. Len(held) : held[k] = Seen(taken, delivered, q[o + k])
  BY DEF Holds
<1>4. \A k \in 1 .. n : k <= o <=> taken[q[n]] - taken[q[k]] > Window
  BY DEF Holds
<1>5. /\ \A k \in 1 .. n : q[k] \in Events(ip)
      /\ \A i \in Events(ip) : \E k \in 1 .. n : q[k] = i
      /\ \A j, k \in 1 .. n : j < k => q[j] < q[k]
  BY DEF Lists
<1>6. /\ Events(ip) \subseteq 1 .. Len(delivered) /\ Len(taken) = Len(delivered)
      /\ \A i \in Events(ip) : taken[i] \in Nat /\ i \in Nat
      /\ DOMAIN delivered = 1 .. Len(delivered)
  <2>1. /\ Events(ip) \subseteq 1 .. Len(delivered) /\ Len(taken) = Len(delivered)
        /\ \A i \in 1 .. Len(delivered) : taken[i] \in 0 .. clock
    BY NumbersOf
  <2>2. DOMAIN delivered = 1 .. Len(delivered)
    BY DEF IInv, IngestTypeOK, TypeOK
  <2> QED
    BY <2>1, <2>2
<1> HIDE DEF held, n
<1>7. \A k \in 1 .. n : q[k] \in recent <=> k > o
  <2> SUFFICES ASSUME NEW k \in 1 .. n PROVE q[k] \in recent <=> k > o
    OBVIOUS
  <2>1. n \in 1 .. n /\ k \in Nat
    BY <1>1
  <2>2. ASSUME k > o, NEW i \in Events(ip) PROVE taken[i] - taken[q[k]] <= Window
    <3>1. PICK j \in 1 .. n : q[j] = i
      BY <1>5
    <3>2. taken[q[j]] <= taken[q[n]]
      <4>1. CASE j = n
        BY <1>5, <1>6, <3>1, <4>1
      <4>2. CASE j # n
        <5>1. j < n
          BY <1>1, <3>1, <4>2
        <5>2. q[j] < q[n] /\ q[j] \in Events(ip) /\ q[n] \in Events(ip)
          BY <1>5, <2>1, <5>1
        <5> QED
          BY <1>6, <5>2 DEF TakenInv
      <4> QED
        BY <4>1, <4>2
    <3>3. ~(taken[q[n]] - taken[q[k]] > Window)
      BY <1>1, <1>4, <2>1, <2>2
    <3>4. taken[q[n]] \in Nat /\ taken[q[k]] \in Nat /\ taken[q[j]] \in Nat
      BY <1>5, <1>6, <2>1
    <3> QED
      BY <1>1, <3>1, <3>2, <3>3, <3>4
  <2>3. ASSUME q[k] \in recent PROVE k > o
    <3>1. taken[q[n]] - taken[q[k]] <= Window
      BY <1>5, <2>1, <2>3
    <3>2. taken[q[n]] \in Nat /\ taken[q[k]] \in Nat
      BY <1>5, <1>6, <2>1
    <3>3. ~(taken[q[n]] - taken[q[k]] > Window)
      BY <1>1, <3>1, <3>2
    <3> QED
      BY <1>1, <1>4, <2>1, <3>3
  <2> QED
    BY <1>5, <2>2, <2>3
<1>8. recent \subseteq Events(ip)
  OBVIOUS
<1> HIDE DEF recent
<1>9. Len(held) = Cardinality(recent)
  <2>1. recent = Stretch(q, o + 1, n)
    <3>1. ASSUME NEW i \in recent PROVE i \in {q[k] : k \in o + 1 .. n}
      <4>1. PICK k \in 1 .. n : q[k] = i
        BY <1>5, <1>8
      <4>2. k \in o + 1 .. n
        BY <1>1, <1>7, <4>1
      <4> QED
        BY <4>1, <4>2
    <3>2. ASSUME NEW k \in o + 1 .. n PROVE q[k] \in recent
      <4>1. k \in 1 .. n /\ k > o
        BY <1>1
      <4> QED
        BY <1>7, <4>1
    <3> QED
      BY <3>1, <3>2 DEF Stretch
  <2>2. o + 1 \in Nat \ {0} /\ o + 1 <= n + 1 /\ n <= Len(q) /\ n - (o + 1) + 1 = n - o
    BY <1>1 DEF n
  <2> QED
    BY <1>1, <2>1, <2>2, ListsCount
<1>10. ASSUME NEW i \in recent
       PROVE  held[Cardinality({j \in recent : j <= i})]
                = [time |-> taken[i], doc |-> delivered[i]]
  <2>1. PICK m \in 1 .. n : q[m] = i
    BY <1>5, <1>8
  <2>2. m > o /\ m \in Nat /\ m <= n
    BY <1>1, <1>7, <2>1
  <2>3. {j \in recent : j <= i} = Stretch(q, o + 1, m)
    <3>1. ASSUME NEW j \in recent, j <= i PROVE j \in {q[k] : k \in o + 1 .. m}
      <4>1. PICK k \in 1 .. n : q[k] = j
        BY <1>5, <1>8
      <4>2. ~(m < k)
        <5>1. m < k => q[m] < q[k]
          BY <1>5
        <5>2. i \in Nat /\ j \in Nat
          BY <1>6, <1>8
        <5> QED
          BY <2>1, <3>1, <4>1, <5>1, <5>2
      <4>3. k \in o + 1 .. m
        BY <1>1, <1>7, <2>2, <4>1, <4>2
      <4> QED
        BY <4>1, <4>3
    <3>2. ASSUME NEW k \in o + 1 .. m PROVE q[k] \in recent /\ q[k] <= i
      <4>1. k \in 1 .. n /\ k > o /\ k <= m
        BY <1>1, <2>2
      <4>2. q[k] \in Nat /\ i \in Nat
        BY <1>5, <1>6, <1>8, <4>1
      <4>3. k < m => q[k] < q[m]
        BY <1>5, <4>1
      <4>4. q[k] <= i
        BY <2>1, <2>2, <4>1, <4>2, <4>3
      <4> QED
        BY <1>7, <4>1, <4>4
    <3> QED
      BY <3>1, <3>2 DEF Stretch
  <2>4. Cardinality({j \in recent : j <= i}) = m - o
    <3>1. /\ o + 1 \in Nat \ {0} /\ m \in Nat /\ o + 1 <= m + 1 /\ m <= Len(q)
          /\ m - (o + 1) + 1 = m - o
      BY <1>1, <2>2 DEF n
    <3> QED
      BY <2>3, <3>1, ListsCount
  <2>5. m - o \in 1 .. Len(held) /\ o + (m - o) = m
    BY <1>1, <2>2
  <2>6. held[m - o] = Seen(taken, delivered, i)
    BY <1>3, <2>1, <2>5
  <2> QED
    BY <2>4, <2>6 DEF Seen
<1>11. ASSUME NEW i \in 1 .. Len(held), NEW j \in 1 .. Len(held), held[i].doc = held[j].doc, i # j
       PROVE  held[i].doc \in bad
  <2>1. /\ o + i \in 1 .. n /\ o + j \in 1 .. n
        /\ o + i < o + j \/ o + j < o + i
    BY <1>1, <1>11
  <2>2. PICK a : a = q[o + i]
    OBVIOUS
  <2>3. PICK b : b = q[o + j]
    OBVIOUS
  <2>4. (a < b \/ b < a) /\ a \in DOMAIN delivered /\ b \in DOMAIN delivered
    BY <1>5, <1>6, <2>1, <2>2, <2>3
  <2>5. held[i].doc = delivered[a] /\ held[j].doc = delivered[b]
    <3>1. /\ held[i] = [time |-> taken[a], doc |-> delivered[a]]
          /\ held[j] = [time |-> taken[b], doc |-> delivered[b]]
      BY <1>3, <2>2, <2>3 DEF Seen
    <3> QED
      BY <3>1
  <2>6. {delivered[a], delivered[b]} \cap bad # {}
    BY <1>11, <2>4, <2>5 DEF OnceAndInOrder
  <2> QED
    BY <1>11, <2>5, <2>6
<1> QED
  BY <1>2, <1>9, <1>10, <1>11 DEF held, recent

\* last_timestamp is the time of the last row.
LEMMA LastSeenStep ==
  IInv /\ IInv' /\ [IngestNext]_ingest /\ TakenInv' /\ ProfilesInv' /\ LastSeenInv => LastSeenInv'
<1> SUFFICES ASSUME IInv, IInv', [IngestNext]_ingest, TakenInv', ProfilesInv', LastSeenInv,
                    NEW ip \in IPs
             PROVE  lastSeen'[ip] = IF Kept(ip)' = {} THEN Never ELSE taken'[Max(Kept(ip)')]
  BY DEF LastSeenInv
<1>0. lastSeen[ip] = IF Kept(ip) = {} THEN Never ELSE taken[Max(Kept(ip))]
  BY DEF LastSeenInv
<1>1. CASE UNCHANGED histories
  <2>1. Kept(ip)' = Kept(ip) /\ UNCHANGED <<taken, lastSeen>>
    BY <1>1, KeptStays DEF histories
  <2> QED
    BY <1>0, <2>1
<1>2. CASE Restart
  <2>1. Kept(ip)' = {} /\ lastSeen'[ip] = Never
    BY <1>2 DEF Restart, Forget, Fresh, Kept, Events, Flows
  <2> QED
    BY <2>1
<1>3. CASE Process
  <2>1. PICK d : d = Head(batch)
    OBVIOUS
  <2>2. PICK n : n = Len(delivered) + 1
    OBVIOUS
  <2>3. /\ Len(delivered) \in Nat /\ n \in Nat /\ d \in Docs /\ taken'[n] = clock
        /\ \A i \in 1 .. Len(delivered) : taken'[i] = taken[i]
        /\ PassOver(d) \/ BreakOff(d) \/ Observe(d)
    <3>1. /\ Len(delivered) \in Nat /\ d \in Docs /\ taken'[Len(delivered) + 1] = clock
          /\ \A i \in 1 .. Len(delivered) : taken'[i] = taken[i]
          /\ PassOver(d) \/ BreakOff(d) \/ Observe(d)
      BY <1>3, <2>1, Delivering
    <3> QED
      BY <2>2, <3>1
  <2>4. Kept(ip) \subseteq 1 .. Len(delivered)
    BY NumbersOf
  <2>a. PICK docs : docs = Company(ip, n)'
    OBVIOUS
  <2>5. Kept(ip)' = NextNumbers(Kept(ip), Rowed(d, docs, ip), n)
    BY <1>3, <2>1, <2>2, <2>a, KeptNext
  <2>6. lastSeen \in [IPs -> 0 .. clock \cup {Never}]
    BY DEF IInv, IngestTypeOK, ObservationTypeOK
  <2>7. CASE Rowed(d, docs, ip)
    <3>1. lastSeen'[ip] = clock
      BY <1>3, <2>1, <2>2, <2>7, <2>a, RowKept
    <3>2. Kept(ip)' = Kept(ip) \cup {n}
      BY <2>5, <2>7 DEF NextNumbers
    <3>3. Max(Kept(ip) \cup {n}) = n
      <4>1. Kept(ip) \cup {n} \in SUBSET Nat /\ n \in Kept(ip) \cup {n}
            /\ \A i \in Kept(ip) \cup {n} : i <= n
        BY <2>2, <2>3, <2>4
      <4> QED
        BY <4>1, GreatestIs
    <3> QED
      BY <2>3, <3>1, <3>2, <3>3
  <2>8. CASE ~Rowed(d, docs, ip)
    <3>1. lastSeen'[ip] = lastSeen[ip]
      BY <1>3, <2>1, <2>2, <2>8, <2>a, RowKept
    <3>2. Kept(ip)' = Kept(ip)
      BY <2>5, <2>8 DEF NextNumbers
    <3>3. Kept(ip) # {} => Max(Kept(ip)) \in 1 .. Len(delivered)
      BY <2>3, <2>4, NumbersHaveGreatest
    <3> QED
      BY <1>0, <2>3, <3>1, <3>2, <3>3
  <2> QED
    BY <2>7, <2>8
<1> QED
  BY <1>1, <1>2, <1>3, HistoryChanges

-----------------------------------------------------------------------------
(* The histories together. *)

HistoryInv == TakenInv /\ FlowsInv /\ RowsInv /\ ProfilesInv /\ LastSeenInv

LEMMA HistoryInit == IngestInit => HistoryInv
<1> SUFFICES ASSUME IngestInit PROVE HistoryInv
  OBVIOUS
<1>1. /\ delivered = <<>> /\ taken = <<>>
      /\ flows = Fresh.flows /\ window = Fresh.window
      /\ lastSeen = Fresh.lastSeen /\ buffer = Fresh.buffer
  BY DEF IngestInit, Init, ObserverInit
<1>2. \A ip : Flows(ip) = {} /\ Events(ip) = {} /\ Kept(ip) = {}
  BY <1>1 DEF Flows, Events, Kept
<1>3. \A ip \in IPs : flows[ip] = 0 /\ window[ip] = <<>> /\ lastSeen[ip] = Never /\ buffer[ip] = <<>>
  BY <1>1 DEF Fresh
<1>4. TakenInv
  BY <1>1 DEF TakenInv
<1>5. FlowsInv
  BY <1>2, <1>3, FS_EmptySet DEF FlowsInv
<1>6. RowsInv
  <2>1. LastRows(delivered, <<>>, <<>>)
    <3>1. SeqLen \in Nat /\ SeqLen > 0 /\ Len(<<>>) = 0
      BY ObservationAssumption
    <3> QED
      BY <3>1 DEF LastRows
  <2> QED
    BY <1>2, <1>3, <2>1, ListsNone DEF RowsInv
<1>7. ProfilesInv
  <2>1. Holds(taken, delivered, <<>>, <<>>, 0)
    <3>1. Len(<<>>) = 0
      OBVIOUS
    <3> QED
      BY <3>1 DEF Holds
  <2> QED
    BY <1>2, <1>3, <2>1, ListsNone DEF ProfilesInv
<1>8. LastSeenInv
  BY <1>2, <1>3 DEF LastSeenInv
<1> QED
  BY <1>4, <1>5, <1>6, <1>7, <1>8 DEF HistoryInv

LEMMA HistoryStep == IInv /\ IInv' /\ [IngestNext]_ingest /\ HistoryInv => HistoryInv'
BY TakenStep, FlowsStep, RowsStep, ProfilesStep, LastSeenStep DEF HistoryInv

LEMMA HistoryInvariance == IngestSpec => []HistoryInv
<1> QED
  BY Invariance, HistoryInit, HistoryStep, PTL DEF IngestSpec

-----------------------------------------------------------------------------
(* Sums. *)

\* s holds the sums of the first i members of v.
Sums(s, v) == s = [i \in 0 .. Len(v) |-> IF i = 0 THEN 0 ELSE s[i - 1] + v[i]]

\* As the definition of a function by recursion, of its values.
LEMMA SumsAre ==
  ASSUME NEW v, NEW s, Sums(s, v)
  PROVE  /\ \A i \in 0 .. Len(v) : s[i] = IF i = 0 THEN 0 ELSE s[i - 1] + v[i]
         /\ DOMAIN s = 0 .. Len(v)
<1> DEFINE n == Len(v)
           F(g) == [i \in 0 .. n |-> IF i = 0 THEN 0 ELSE g[i - 1] + v[i]]
<1>1. s = F(s)
  BY DEF Sums
<1>2. ASSUME NEW g, NEW i \in 0 .. n PROVE F(g)[i] = IF i = 0 THEN 0 ELSE g[i - 1] + v[i]
  OBVIOUS
<1>3. ASSUME NEW g PROVE DOMAIN F(g) = 0 .. n
  OBVIOUS
<1> HIDE DEF F
<1> QED
  BY <1>1, <1>2, <1>3

\* Sums exist: those of the first k members, for every k.
LEMMA SumsExist == ASSUME NEW v, Len(v) \in Nat PROVE \E s : Sums(s, v)
<1> DEFINE n == Len(v)
           Of(g, k) == g = [i \in 0 .. k |-> IF i = 0 THEN 0 ELSE g[i - 1] + v[i]]
           P == {k \in Nat : \E g : Of(g, k)}
<1>1. 0 \in P
  <2>1. Of([i \in 0 .. 0 |-> 0], 0)
    OBVIOUS
  <2> QED
    BY <2>1
<1>2. ASSUME NEW k \in 0 .. n - 1, k \in P PROVE k + 1 \in P
  <2>1. PICK g : Of(g, k)
    BY <1>2
  <2> DEFINE h == [i \in 0 .. k + 1 |-> IF i = k + 1 THEN g[k] + v[k + 1] ELSE g[i]]
  <2>2. k \in Nat /\ k + 1 \in Nat /\ k + 1 # 0 /\ (k + 1) - 1 = k
    OBVIOUS
  <2>3. ASSUME NEW i \in 0 .. k + 1
        PROVE  h[i] = IF i = 0 THEN 0 ELSE h[i - 1] + v[i]
    <3>1. CASE i = k + 1
      <4>1. k \in 0 .. k + 1 /\ k # k + 1 /\ i # 0 /\ i - 1 = k
        BY <2>2, <3>1
      <4>2. h[k] = g[k]
        BY <4>1
      <4> QED
        BY <3>1, <4>1, <4>2
    <3>2. CASE i # k + 1
      <4>1. i \in 0 .. k /\ h[i] = g[i]
        BY <2>2, <3>2
      <4>2. CASE i = 0
        BY <2>1, <4>1, <4>2
      <4>3. CASE i # 0
        <5>1. i - 1 \in 0 .. k + 1 /\ i - 1 # k + 1
          BY <2>2, <4>1, <4>3
        <5>2. h[i - 1] = g[i - 1]
          BY <5>1
        <5>3. g[i] = g[i - 1] + v[i]
          BY <2>1, <4>1, <4>3
        <5> QED
          BY <4>1, <4>3, <5>2, <5>3
      <4> QED
        BY <4>2, <4>3
    <3> QED
      BY <3>1, <3>2
  <2> HIDE DEF h
  <2>4. h = [i \in 0 .. k + 1 |-> h[i]]
    BY DEF h
  <2>5. Of(h, k + 1)
    BY <2>3, <2>4
  <2> QED
    BY <2>2, <2>5
<1> HIDE DEF P
<1>3. n \in 0 .. n /\ \A k \in 0 .. n : k \in P
  BY <1>1, <1>2, UpTo
<1> QED
  BY <1>3 DEF P, Sums

\* The sum is the last of any such sums.
LEMMA TotalIs ==
  ASSUME NEW v, Len(v) \in Nat
  PROVE  \E s : Sums(s, v) /\ Total(v) = s[Len(v)]
<1> DEFINE s == CHOOSE s : Sums(s, v)
<1>1. Sums(s, v)
  BY SumsExist
<1>2. Total(v) = s[Len(v)]
  BY DEF Total, Sums
<1> QED
  BY <1>1, <1>2

\* Sums are numbers, and those of the first members do not depend on the others.
LEMMA SumsAgree ==
  ASSUME NEW v \in Seq(Int), NEW w \in Seq(Int), NEW s, NEW t, Sums(s, v), Sums(t, w),
         Len(v) <= Len(w), \A i \in 1 .. Len(v) : w[i] = v[i]
  PROVE  \A i \in 0 .. Len(v) : t[i] = s[i] /\ s[i] \in Int
<1> DEFINE P == {i \in 0 .. Len(v) : t[i] = s[i] /\ s[i] \in Int}
           n == Len(v)
<1>1. n \in Nat /\ Len(w) \in Nat /\ 0 \in 0 .. n /\ 0 \in 0 .. Len(w)
  BY LenProperties
<1>2. 0 \in P
  BY <1>1, SumsAre
<1>3. ASSUME NEW k \in 0 .. n - 1, k \in P PROVE k + 1 \in P
  <2>1. /\ k + 1 \in 0 .. n /\ k + 1 \in 0 .. Len(w) /\ k + 1 # 0 /\ (k + 1) - 1 = k
        /\ k + 1 \in 1 .. n /\ k + 1 \in 1 .. Len(v)
    BY <1>1
  <2>2. s[k + 1] = s[k] + v[k + 1]
    BY <2>1, SumsAre
  <2>3. t[k + 1] = t[k] + w[k + 1]
    BY <2>1, SumsAre
  <2>4. v[k + 1] \in Int /\ w[k + 1] = v[k + 1]
    BY <2>1, ElementOfSeq
  <2>5. t[k] = s[k] /\ s[k] \in Int
    BY <1>3
  <2>6. t[k + 1] = s[k + 1] /\ s[k + 1] \in Int
    BY <2>2, <2>3, <2>4, <2>5
  <2> QED
    BY <2>1, <2>6
<1> HIDE DEF P
<1>4. \A k \in 0 .. n : k \in P
  BY <1>1, <1>2, <1>3, UpTo
<1> QED
  BY <1>4 DEF P

\* The sum of no numbers, and of one more.
LEMMA TotalNone == Total(<<>>) = 0
<1>1. Len(<<>>) = 0 /\ 0 \in 0 .. Len(<<>>) /\ Len(<<>>) \in Nat
  OBVIOUS
<1>2. PICK s : Sums(s, <<>>) /\ Total(<<>>) = s[Len(<<>>)]
  BY <1>1, TotalIs
<1> QED
  BY <1>1, <1>2, SumsAre

LEMMA TotalMore ==
  ASSUME NEW v \in Seq(Int), NEW x \in Int
  PROVE  /\ Total(v) \in Int
         /\ Total(Append(v, x)) = Total(v) + x
<1> DEFINE w == Append(v, x)
<1>1. /\ w \in Seq(Int) /\ Len(w) = Len(v) + 1 /\ Len(v) \in Nat /\ Len(w) \in Nat
      /\ w[Len(v) + 1] = x /\ \A i \in 1 .. Len(v) : w[i] = v[i]
  BY AppendProperties, LenProperties
<1> HIDE DEF w
<1>2. PICK s : Sums(s, v) /\ Total(v) = s[Len(v)]
  BY <1>1, TotalIs
<1>3. PICK t : Sums(t, w) /\ Total(w) = t[Len(w)]
  BY <1>1, TotalIs
<1>4. /\ Len(v) <= Len(w) /\ Len(v) \in 0 .. Len(v) /\ Len(w) \in 0 .. Len(w) /\ Len(w) # 0
      /\ Len(w) - 1 = Len(v)
  BY <1>1
<1>5. t[Len(v)] = s[Len(v)] /\ s[Len(v)] \in Int
  BY <1>1, <1>2, <1>3, <1>4, SumsAgree
<1>6. t[Len(w)] = t[Len(w) - 1] + w[Len(w)]
  BY <1>3, <1>4, SumsAre
<1> QED
  BY <1>1, <1>2, <1>3, <1>4, <1>5, <1>6 DEF w

-----------------------------------------------------------------------------
(* The statistics. *)

\* The deliveries a feature is learned from when document d is the next.
LEMMA SamplesNext ==
  ASSUME IInv, IInv', Process, NEW d, d = Head(batch), NEW n, n = Len(delivered) + 1, NEW f,
         NEW docs, docs = Company(IpOf[d], n)'
  PROVE  Samples(f)' = NextNumbers(Samples(f), fault[d] \cap {"no_ip", "proto"} = {}
                                                 /\ f \in Reached(d, docs), n)
<1>1. /\ Len(delivered) \in Nat /\ n \in Nat /\ delivered'[n] = d /\ d \in Docs
      /\ \A i \in 1 .. Len(delivered) : delivered'[i] = delivered[i]
      /\ fault' = fault
  <2>1. /\ Len(delivered) \in Nat /\ delivered'[Len(delivered) + 1] = d /\ d \in Docs
        /\ \A i \in 1 .. Len(delivered) : delivered'[i] = delivered[i]
        /\ fault' = fault
    BY Delivering
  <2> QED
    BY <2>1
<1>2. IpOf[d] \in IPs
  BY <1>1, IngestAssumption, ObservationAssumption
<1> DEFINE counts == fault[d] \cap {"no_ip", "proto"} = {}
<1>3. \A ip : /\ Events(ip) \subseteq 1 .. Len(delivered)
              /\ Events(ip)' = NextNumbers(Events(ip), counts /\ IpOf[d] = ip, n)
  BY NumbersOf, Numbering
<1>4. \A e, h : Reached(e, h)' = Reached(e, h)
  BY <1>1 DEF Reached, Hashable
<1>5. ASSUME NEW ip, NEW i \in Events(ip)
      PROVE  delivered'[i] = delivered[i] /\ i # n /\ Company(ip, i)' = Company(ip, i)
  <2>1. i \in 1 .. Len(delivered)
    BY <1>3
  <2> QED
    BY <1>1, <2>1, CompanySame
<1>6. ASSUME NEW i
      PROVE  i \in Samples(f)' <=> i \in Samples(f) \/ (i = n /\ counts /\ f \in Reached(d, docs))
  <2>1. i \in Samples(f)' <=>
          \E ip \in IPs : i \in Events(ip)' /\ f \in Reached(delivered'[i], Company(ip, i)')
    BY <1>4 DEF Samples
  <2>2. i \in Samples(f) <=>
          \E ip \in IPs : i \in Events(ip) /\ f \in Reached(delivered[i], Company(ip, i))
    BY DEF Samples
  <2>3. \A ip : i \in Events(ip)' <=> i \in Events(ip) \/ (i = n /\ counts /\ IpOf[d] = ip)
    BY <1>3 DEF NextNumbers
  <2> HIDE DEF counts
  <2> QED
    BY <1>1, <1>2, <1>5, <2>1, <2>2, <2>3
<1> HIDE DEF counts
<1>7. Samples(f)' = NextNumbers(Samples(f), counts /\ f \in Reached(d, docs), n)
  BY <1>6 DEF NextNumbers
<1> QED
  BY <1>7 DEF counts

\* What a feature was stays what it was.
LEMMA SampleSame ==
  ASSUME IInv, IInv', Process, NEW f \in Features, NEW i \in 1 .. Len(delivered)
  PROVE  Sample(f, i)' = Sample(f, i)
<1>1. PICK d : d = Head(batch)
  OBVIOUS
<1>2. PICK n : n = Len(delivered) + 1
  OBVIOUS
<1>3. /\ Len(delivered) \in Nat /\ i \in Nat /\ i < n
      /\ \A j \in 1 .. Len(delivered) : delivered'[j] = delivered[j] /\ taken'[j] = taken[j]
  <2>1. /\ Len(delivered) \in Nat
        /\ \A j \in 1 .. Len(delivered) : delivered'[j] = delivered[j] /\ taken'[j] = taken[j]
    BY <1>1, Delivering
  <2>2. i \in Nat /\ i <= Len(delivered)
    BY <2>1, Within
  <2> QED
    BY <1>2, <2>1, <2>2
<1>4. PICK ip : ip = IpOf[delivered[i]]
  OBVIOUS
<1>a. PICK docs : docs = Company(ip, n)'
  OBVIOUS
<1>5. /\ Kept(ip) \subseteq 1 .. Len(delivered)
      /\ Kept(ip)' = NextNumbers(Kept(ip), Rowed(d, docs, ip), n)
  BY <1>1, <1>2, <1>a, NumbersOf, KeptNext
<1>6. ~(n < i)
  BY <1>2, <1>3
<1>7. Before(ip, i)' = Before(ip, i)
  BY <1>5, <1>6 DEF Before, NextNumbers
<1>8. Recent(ip, i)' = Recent(ip, i)
  BY CompanySame
<1>9. Before(ip, i) # {} => taken'[Max(Before(ip, i))] = taken[Max(Before(ip, i))]
  <2>1. Before(ip, i) \in SUBSET (1 .. Len(delivered))
    BY <1>5 DEF Before
  <2> QED
    BY <1>3, <2>1, NumbersHaveGreatest
<1>10. delivered'[i] = delivered[i] /\ taken'[i] = taken[i]
  BY <1>3
<1> QED
  BY <1>4, <1>7, <1>8, <1>9, <1>10 DEF Sample, Features

-----------------------------------------------------------------------------
(* What a normaliser learns. *)

\* A normaliser that has learned n values of the sum S and of squares of the sum Q.
Exact(m, n, S, Q) ==
  /\ m.count = n /\ n * m.mean = Unit * S /\ n * m.m2 = Unit * Unit * (n * Q - S * S)
  /\ n = 0 => m.mean = 0 /\ m.m2 = 0 /\ S = 0 /\ Q = 0

\* One value more.
LEMMA ExactLearned ==
  ASSUME NEW m \in [count : Nat, mean : Int, m2 : Nat], NEW n \in Nat, NEW S \in Int, NEW Q \in Int,
         NEW v \in Int, Unit % (n + 1) = 0, Exact(m, n, S, Q)
  PROVE  Exact(Learned(m, v), n + 1, S + v, Q + v * v)
<1>1. PICK mu \in Int : mu = m.mean
  OBVIOUS
<1>2. PICK m2 \in Int : m2 = m.m2
  OBVIOUS
<1>3. PICK U \in Nat : U = Unit
  BY ObservationAssumption
<1>4. /\ m.count = n /\ n * mu = U * S /\ n * m2 = U * U * (n * Q - S * S)
      /\ n = 0 => mu = 0 /\ m2 = 0 /\ Q = 0 /\ S = 0
      /\ U % (n + 1) = 0
  BY <1>1, <1>2, <1>3 DEF Exact
<1> DEFINE delta == v * U - mu
           next == NextMean(n, mu, U, v)
           w == v * U - next
<1>5. next \in Int /\ (n + 1) * next = U * (S + v) /\ (n + 1) * w = n * delta
  <2>1. MeanOf(n, mu, U, S)
    BY <1>4 DEF MeanOf
  <2> QED
    BY <1>4, <2>1, MeanUpdate
<1>6. w \in Int
  BY <1>5
<1>7. Learned(m, v) = [count |-> n + 1, mean |-> next, m2 |-> m2 + delta * w]
  BY <1>1, <1>2, <1>3, <1>4 DEF Learned, NextMean
<1> HIDE DEF next, w
<1>8. (n + 1) * (m2 + delta * w) = U * U * ((n + 1) * (Q + v * v) - (S + v) * (S + v))
  BY <1>4, <1>5, <1>6, SquaresUpdate
<1> HIDE DEF delta
<1>9. n + 1 # 0
  OBVIOUS
<1> QED
  BY <1>3, <1>5, <1>7, <1>8, <1>9 DEF Exact

-----------------------------------------------------------------------------
(* The features of the next document. *)

\* time_since_last_min is the time since the last row, up to Cap.
LEMMA GapIs ==
  ASSUME IInv, TakenInv, LastSeenInv, NEW ip \in IPs
  PROVE  SinceLast(ip) = IF Kept(ip) = {} THEN 0 ELSE Min({clock - taken[Max(Kept(ip))], Cap})
<1>1. lastSeen[ip] = IF Kept(ip) = {} THEN Never ELSE taken[Max(Kept(ip))]
  BY DEF LastSeenInv
<1>2. CASE Kept(ip) = {}
  BY <1>1, <1>2 DEF SinceLast
<1>3. CASE Kept(ip) # {}
  <2>1. PICK m : m = Max(Kept(ip))
    OBVIOUS
  <2>2. /\ Len(delivered) \in Nat /\ Kept(ip) \in SUBSET (1 .. Len(delivered))
        /\ \A i \in 1 .. Len(delivered) : taken[i] \in 0 .. clock
    BY NumbersOf
  <2>3. m \in 1 .. Len(delivered)
    BY <1>3, <2>1, <2>2, NumbersHaveGreatest
  <2>4. clock \in Nat /\ Cap \in Nat /\ Never \notin Nat
    BY ObservationAssumption DEF IInv, IngestTypeOK, ObservationTypeOK
  <2>5. taken[m] \in Nat /\ clock - taken[m] \in Nat
    BY <2>2, <2>3, <2>4
  <2>6. lastSeen[ip] = taken[m] /\ lastSeen[ip] # Never
    BY <1>1, <1>3, <2>1, <2>4, <2>5
  <2>7. PICK g \in Nat : g = clock - taken[m]
    BY <2>5
  <2>8. SinceLast(ip) = IF g < Cap THEN g ELSE Cap
    BY <2>6, <2>7 DEF SinceLast
  <2>9. PICK k : k = IF g < Cap THEN g ELSE Cap
    OBVIOUS
  <2>10. {g, Cap} \in SUBSET Nat /\ k \in {g, Cap} /\ \A i \in {g, Cap} : k <= i
    BY <2>4, <2>7, <2>9
  <2>11. Min({g, Cap}) = k
    BY <2>10, LeastIs
  <2> QED
    BY <1>3, <2>1, <2>7, <2>8, <2>9, <2>11
<1> QED
  BY <1>2, <1>3

\* A normaliser learns what its feature is.
LEMMA SampleLearned ==
  ASSUME IInv, IInv', Process, HistoryInv, HistoryInv', NEW d, d = Head(batch),
         NEW n, n = Len(delivered) + 1, fault[d] \cap {"no_ip", "proto"} = {}, NEW f \in Features,
         NEW docs, docs = Company(IpOf[d], n)'
  PROVE  \E x \in Int : /\ Sample(f, n)' = x
                        /\ norm'[f] = IF f \in Reached(d, docs) THEN Learned(norm[f], x) ELSE norm[f]
<1>1. /\ Len(delivered) \in Nat /\ n \in Nat /\ delivered'[n] = d /\ taken'[n] = clock /\ d \in Docs
      /\ \A i \in 1 .. Len(delivered) : taken'[i] = taken[i]
  <2>1. /\ Len(delivered) \in Nat /\ delivered'[Len(delivered) + 1] = d
        /\ taken'[Len(delivered) + 1] = clock /\ d \in Docs
        /\ \A i \in 1 .. Len(delivered) : taken'[i] = taken[i]
    BY Delivering
  <2> QED
    BY <2>1
<1>2. PICK ip \in IPs : ip = IpOf[d]
  BY <1>1, IngestAssumption, ObservationAssumption
<1>3. TakenInv /\ LastSeenInv /\ TakenInv' /\ ProfilesInv'
  BY DEF HistoryInv
<1>4. /\ Kept(ip) \in SUBSET (1 .. Len(delivered))
      /\ Kept(ip)' = NextNumbers(Kept(ip), Rowed(d, docs, ip), n)
  BY <1>2, NumbersOf, KeptNext
<1>5. Before(ip, n)' = Kept(ip)
  BY <1>1, <1>4 DEF Before, NextNumbers
<1>6. Kept(ip) # {} => taken'[Max(Kept(ip))] = taken[Max(Kept(ip))]
  BY <1>1, <1>4, NumbersHaveGreatest
<1>7. SinceLast(ip) = IF Kept(ip) = {} THEN 0 ELSE Min({clock - taken[Max(Kept(ip))], Cap})
  BY <1>3, GapIs
<1>8. Cardinality(Recent(ip, n)') = Len(window'[ip])
  BY <1>2, <1>3, RecentIs
<1>9. ObservationTypeOK
  BY DEF IInv, IngestTypeOK
<1>10. PICK events : events = window'[ip]
  OBVIOUS
<1>11. PICK value : value = [number |-> Number[d], time_since_last_min |-> SinceLast(ip),
                             ev_5m |-> Len(events), payload_len |-> PayloadLen[d]]
  OBVIOUS
<1>12. norm' = [g \in Features |-> IF g \in Reached(d, docs) THEN Learned(norm[g], value[g])
                                  ELSE norm[g]]
  BY <1>2, <1>3, <1>10, <1>11, ObservedIs
<1>13. Len(events) \in Int
  <2>1. window' \in [IPs -> Seq([time : 0 .. clock', doc : DOMAIN IpOf])]
    BY DEF IInv, IngestTypeOK, ObservationTypeOK
  <2> QED
    BY <1>10, <2>1, LenProperties
<1>14. Number[d] \in Int /\ PayloadLen[d] \in Int /\ SinceLast(ip) \in Int
  <2>1. SinceLast(ip) \in Nat
    BY <1>9, SinceLastType
  <2> QED
    BY <1>1, <2>1, ObservationAssumption, IngestAssumption
<1>15. norm'[f] = IF f \in Reached(d, docs) THEN Learned(norm[f], value[f]) ELSE norm[f]
  BY <1>12
<1>16. value[f] \in Int
  BY <1>11, <1>13, <1>14 DEF Features
<1>17. Sample(f, n)' = value[f]
  <2>1. CASE f = "number"
    BY <1>1, <1>11, <2>1 DEF Sample
  <2>2. CASE f = "payload_len"
    BY <1>1, <1>11, <2>2 DEF Sample
  <2>3. CASE f = "ev_5m"
    BY <1>1, <1>2, <1>8, <1>10, <1>11, <2>3 DEF Sample
  <2>4. CASE f = "time_since_last_min"
    BY <1>1, <1>2, <1>5, <1>6, <1>7, <1>11, <2>4 DEF Sample
  <2> QED
    BY <2>1, <2>2, <2>3, <2>4 DEF Features
<1> QED
  BY <1>15, <1>16, <1>17

-----------------------------------------------------------------------------
(* The values of a feature. *)

\* Squares of one more.
LEMMA SquaresMore ==
  ASSUME NEW v \in Seq(Int), NEW x \in Int
  PROVE  Squares(v) \in Seq(Int) /\ Squares(Append(v, x)) = Append(Squares(v), x * x)
<1>1. PICK n \in Nat : Len(v) = n
  BY LenProperties
<1>2. PICK a : a = Append(v, x)
  OBVIOUS
<1>3. /\ a \in Seq(Int) /\ Len(a) = n + 1 /\ a[n + 1] = x /\ \A i \in 1 .. n : a[i] = v[i]
  BY <1>1, <1>2, AppendProperties
<1>4. DOMAIN a = 1 .. n + 1 /\ DOMAIN v = 1 .. n
  BY <1>1, <1>3
<1>5. PICK s : s = Squares(v)
  OBVIOUS
<1>6. s = [i \in 1 .. n |-> v[i] * v[i]]
  BY <1>4, <1>5 DEF Squares
<1>7. \A i \in 1 .. n : v[i] \in Int /\ v[i] * v[i] \in Int
  BY <1>1, ElementOfSeq
<1>8. s \in [1 .. n -> Int] /\ s \in Seq(Int) /\ Len(s) = n
  BY <1>6, <1>7
<1>9. PICK w : w = Squares(a)
  OBVIOUS
<1>10. w = [i \in 1 .. n + 1 |-> a[i] * a[i]]
  BY <1>4, <1>9 DEF Squares
<1>11. w = [i \in 1 .. n + 1 |-> w[i]]
  BY <1>10
<1>12. \A i \in 1 .. n : w[i] = s[i]
  <2> SUFFICES ASSUME NEW i \in 1 .. n PROVE w[i] = s[i]
    OBVIOUS
  <2>1. i \in 1 .. n + 1 /\ a[i] = v[i]
    BY <1>3
  <2> QED
    BY <1>6, <1>10, <2>1
<1>13. n + 1 \in 1 .. n + 1 /\ x * x \in Int
  OBVIOUS
<1>14. w[n + 1] = x * x
  BY <1>3, <1>10, <1>13
<1>15. w = Append(s, x * x)
  <2>1. GoesOn(w, s, n, x * x)
    BY <1>8, <1>11, <1>12, <1>14 DEF GoesOn
  <2> QED
    BY <1>8, <1>13, <2>1, AppendIs
<1> QED
  BY <1>2, <1>5, <1>8, <1>9, <1>15

\* The values of a feature, and what its normaliser holds of them.
NormInv ==
  \A f \in Features :
    /\ Values(f) \in Seq(Int)
    /\ Exact(norm[f], Cardinality(Samples(f)), Total(Values(f)), Total(Squares(Values(f))))

\* What one more document does to the values.
LEMMA ValuesNext ==
  ASSUME IInv, IInv', Process, NEW f \in Features, Values(f) \in Seq(Int),
         NEW m, m = Len(delivered) + 1,
         NEW x \in Int, x = IF m \in Samples(f)' THEN Sample(f, m)' ELSE 0
  PROVE  Values(f)' = Append(Values(f), x)
<1>1. PICK d : d = Head(batch)
  OBVIOUS
<1>2. PICK n \in Nat : n = Len(delivered)
  <2>1. Len(delivered) \in Nat
    BY <1>1, Delivering
  <2> QED
    BY <2>1
<1>3. Len(delivered') = n + 1
  BY <1>1, <1>2, Delivering
<1>4. DOMAIN delivered = 1 .. n /\ DOMAIN delivered' = 1 .. n + 1
  BY <1>2, <1>3 DEF IInv, IngestTypeOK, TypeOK
<1>5. PICK v : v = Values(f)
  OBVIOUS
<1>6. PICK w : w = Values(f)'
  OBVIOUS
<1>7. v = [i \in 1 .. n |-> IF i \in Samples(f) THEN Sample(f, i) ELSE 0]
  BY <1>4, <1>5 DEF Values
<1>8. w = [i \in 1 .. n + 1 |-> IF i \in Samples(f)' THEN Sample(f, i)' ELSE 0]
  BY <1>4, <1>6 DEF Values
<1>9. w = [i \in 1 .. n + 1 |-> w[i]]
  BY <1>8
<1>10. v \in Seq(Int) /\ Len(v) = n
  BY <1>5, <1>7
<1>11. ASSUME NEW i \in 1 .. n PROVE w[i] = v[i]
  <2>1. i \in 1 .. n + 1 /\ i # Len(delivered) + 1 /\ i \in 1 .. Len(delivered)
    BY <1>2
  <2>2. i \in Samples(f)' <=> i \in Samples(f)
    <3>1. PICK docs : docs = Company(IpOf[d], Len(delivered) + 1)'
      OBVIOUS
    <3> QED
      BY <1>1, <2>1, <3>1, SamplesNext DEF NextNumbers
  <2>3. Sample(f, i)' = Sample(f, i)
    BY <2>1, SampleSame
  <2>4. w[i] = IF i \in Samples(f)' THEN Sample(f, i)' ELSE 0
    BY <1>8, <2>1
  <2>5. v[i] = IF i \in Samples(f) THEN Sample(f, i) ELSE 0
    BY <1>7
  <2> QED
    BY <2>2, <2>3, <2>4, <2>5
<1>12. w[n + 1] = x
  <2>1. m \in 1 .. n + 1 /\ m = n + 1
    BY <1>2
  <2> QED
    BY <1>2, <1>8, <2>1
<1>13. w = Append(v, x)
  <2>1. GoesOn(w, v, n, x)
    BY <1>9, <1>10, <1>11, <1>12 DEF GoesOn
  <2> QED
    BY <1>10, <2>1, AppendIs
<1> QED
  BY <1>5, <1>6, <1>13

\* A normaliser that has learned nothing, of nothing.
LEMMA ExactNone ==
  ASSUME NEW m, m = [count |-> 0, mean |-> 0, m2 |-> 0], NEW S, S = {}, NEW v, v = <<>>
  PROVE  /\ v \in Seq(Int)
         /\ Exact(m, Cardinality(S), Total(v), Total(Squares(v)))
<1>1. Cardinality(S) = 0
  BY FS_EmptySet
<1>2. v \in Seq(Int) /\ DOMAIN v = {}
  BY EmptySeq
<1>3. Squares(v) = <<>>
  BY <1>2 DEF Squares
<1>4. Total(v) = 0 /\ Total(Squares(v)) = 0
  BY <1>3, TotalNone
<1>5. Unit \in Nat /\ m.count = 0 /\ m.mean = 0 /\ m.m2 = 0
  BY ObservationAssumption
<1>6. Exact(m, 0, 0, 0)
  BY <1>5 DEF Exact
<1> QED
  BY <1>1, <1>2, <1>4, <1>6

LEMMA NormInit == IngestInit => NormInv
<1> SUFFICES ASSUME IngestInit, NEW f \in Features
             PROVE  /\ Values(f) \in Seq(Int)
                    /\ Exact(norm[f], Cardinality(Samples(f)), Total(Values(f)), Total(Squares(Values(f))))
  BY DEF NormInv
<1>1. delivered = <<>> /\ norm[f] = [count |-> 0, mean |-> 0, m2 |-> 0]
  BY DEF IngestInit, Init, ObserverInit, Fresh
<1>2. Samples(f) = {}
  BY <1>1 DEF Samples, Events, Flows
<1>3. Values(f) = <<>>
  BY <1>1 DEF Values
<1> QED
  BY <1>1, <1>2, <1>3, ExactNone

\* What does not change the histories does not change the values.
LEMMA ValuesStay ==
  ASSUME UNCHANGED histories, NEW f
  PROVE  Samples(f)' = Samples(f) /\ Values(f)' = Values(f)
<1>1. UNCHANGED <<delivered, taken, fault>>
  BY DEF histories
<1>2. \A ip : Kept(ip)' = Kept(ip) /\ Events(ip)' = Events(ip)
  BY KeptStays
<1>3. \A ip, i : Recent(ip, i)' = Recent(ip, i) /\ Company(ip, i)' = Company(ip, i)
  BY KeptStays
<1>4. Samples(f)' = Samples(f)
  <2>1. \A d, docs : Reached(d, docs)' = Reached(d, docs)
    BY KeptStays
  <2> QED
    BY <1>1, <1>2, <1>3, <2>1 DEF Samples
<1>5. \A ip, i : Before(ip, i)' = Before(ip, i) /\ Recent(ip, i)' = Recent(ip, i)
  BY <1>2, <1>3 DEF Before
<1>6. \A i : Sample(f, i)' = Sample(f, i)
  BY <1>1, <1>5 DEF Sample
<1> QED
  BY <1>1, <1>4, <1>6 DEF Values

\* Every normaliser learns what its feature is, and nothing else.
LEMMA NormStep ==
  IInv /\ IInv' /\ [IngestNext]_ingest /\ HistoryInv /\ HistoryInv' /\ NormInv => NormInv'
<1> SUFFICES ASSUME IInv, IInv', [IngestNext]_ingest, HistoryInv, HistoryInv', NormInv,
                    NEW f \in Features
             PROVE  /\ Values(f)' \in Seq(Int)
                    /\ Exact(norm'[f], Cardinality(Samples(f)'), Total(Values(f)'),
                             Total(Squares(Values(f)')))
  BY DEF NormInv, Exact, Total, Squares
<1> DEFINE v == Values(f)
           N == Cardinality(Samples(f))
<1>0. v \in Seq(Int) /\ Exact(norm[f], N, Total(v), Total(Squares(v)))
  BY DEF NormInv
<1>1. CASE UNCHANGED histories
  <2>1. norm' = norm
    BY <1>1 DEF histories
  <2> QED
    BY <1>0, <1>1, <2>1, ValuesStay
<1>2. CASE Restart
  <2>1. delivered' = <<>> /\ norm'[f] = [count |-> 0, mean |-> 0, m2 |-> 0]
    BY <1>2 DEF Restart, Forget, Fresh
  <2>2. Samples(f)' = {}
    BY <2>1 DEF Samples, Events, Flows
  <2>3. Values(f)' = <<>>
    BY <2>1 DEF Values
  <2> QED
    BY <2>1, <2>2, <2>3, ExactNone
<1>3. CASE Process
  <2>1. PICK d : d = Head(batch)
    OBVIOUS
  <2>2. PICK n : n = Len(delivered) + 1
    OBVIOUS
  <2>3. /\ Len(delivered) \in Nat /\ n \in 1 .. MaxYields
        /\ PassOver(d) \/ BreakOff(d) \/ Observe(d)
    <3>1. /\ Len(delivered) \in Nat /\ Len(delivered) + 1 \in 1 .. MaxYields
          /\ PassOver(d) \/ BreakOff(d) \/ Observe(d)
      BY <1>3, <2>1, Delivering
    <3> QED
      BY <2>2, <3>1
  <2> DEFINE counts == fault[d] \cap {"no_ip", "proto"} = {}
  <2>a. PICK docs : docs = Company(IpOf[d], n)'
    OBVIOUS
  <2>4. Samples(f)' = NextNumbers(Samples(f), counts /\ f \in Reached(d, docs), n)
    BY <1>3, <2>1, <2>2, <2>a, SamplesNext
  <2>5. Samples(f) \in SUBSET (1 .. Len(delivered))
    BY NumbersOf DEF Samples
  <2>6. IsFiniteSet(Samples(f)) /\ N \in Nat /\ N <= Len(delivered) /\ n \notin Samples(f)
    <3>1. 1 \in Int /\ Len(delivered) \in Int /\ Len(delivered) >= 0
      BY <2>3
    <3>2. IsFiniteSet(1 .. Len(delivered)) /\ Cardinality(1 .. Len(delivered)) = Len(delivered)
      <4>1. IsFiniteSet(1 .. Len(delivered))
            /\ Cardinality(1 .. Len(delivered)) = IF 1 > Len(delivered) THEN 0 ELSE Len(delivered) - 1 + 1
        BY <3>1, FS_Interval
      <4> QED
        BY <3>1, <4>1
    <3>3. IsFiniteSet(Samples(f)) /\ Cardinality(Samples(f)) <= Cardinality(1 .. Len(delivered))
      BY <2>5, <3>2, FS_Subset
    <3>4. N \in Nat
      BY <3>3, FS_CardinalityType
    <3>5. n \notin 1 .. Len(delivered)
      BY <2>2, <3>1
    <3> QED
      BY <2>5, <3>2, <3>3, <3>4, <3>5
  <2>7. norm \in [Features -> [count : Nat, mean : Int, m2 : Nat]]
    BY DEF IInv, IngestTypeOK, ObservationTypeOK
  <2>8. CASE counts /\ f \in Reached(d, docs)
    <3>1. PICK x \in Int : Sample(f, n)' = x /\ norm'[f] = Learned(norm[f], x)
      BY <1>3, <2>1, <2>2, <2>8, <2>a, SampleLearned
    <3>2. Samples(f)' = Samples(f) \cup {n} /\ n \in Samples(f)'
      BY <2>4, <2>8 DEF NextNumbers
    <3>3. Cardinality(Samples(f)') = N + 1
      BY <2>6, <3>2, FS_AddElement
    <3>4. Values(f)' = Append(v, x)
      BY <1>0, <1>3, <2>2, <3>1, <3>2, ValuesNext
    <3>5. Total(v) \in Int /\ Total(Append(v, x)) = Total(v) + x
      BY <1>0, TotalMore
    <3>6. /\ Total(Squares(v)) \in Int /\ x * x \in Int
          /\ Total(Squares(Append(v, x))) = Total(Squares(v)) + x * x
      <4>1. Squares(v) \in Seq(Int) /\ Squares(Append(v, x)) = Append(Squares(v), x * x)
        BY <1>0, SquaresMore
      <4>2. x * x \in Int
        OBVIOUS
      <4> QED
        BY <4>1, <4>2, TotalMore
    <3>7. Unit % (N + 1) = 0
      <4>1. N + 1 \in 1 .. MaxYields
        BY <2>2, <2>3, <2>6, EventSourceAssumption
      <4> QED
        BY <4>1, IngestAssumption
    <3> HIDE DEF v, N
    <3>8. Exact(Learned(norm[f], x), N + 1, Total(v) + x, Total(Squares(v)) + x * x)
      BY <1>0, <2>6, <2>7, <3>5, <3>6, <3>7, ExactLearned
    <3>9. Append(v, x) \in Seq(Int)
      BY <1>0, AppendProperties
    <3> QED
      BY <3>1, <3>3, <3>4, <3>5, <3>6, <3>8, <3>9
  <2>9. CASE ~(counts /\ f \in Reached(d, docs))
    <3>1. norm'[f] = norm[f]
      <4>1. CASE counts
        BY <1>3, <2>1, <2>2, <2>9, <2>a, <4>1, SampleLearned
      <4>2. CASE ~counts
        BY <2>3, <4>2 DEF PassOver, BreakOff, Observe, observer
      <4> QED
        BY <4>1, <4>2
    <3>2. Samples(f)' = Samples(f) /\ n \notin Samples(f)'
      BY <2>4, <2>6, <2>9 DEF NextNumbers
    <3>3. Values(f)' = Append(v, 0)
      BY <1>0, <1>3, <2>2, <3>2, ValuesNext
    <3>4. Total(v) \in Int /\ Total(Append(v, 0)) = Total(v)
      <4>1. Total(v) \in Int /\ Total(Append(v, 0)) = Total(v) + 0
        BY <1>0, TotalMore
      <4> QED
        BY <4>1
    <3>5. Total(Squares(Append(v, 0))) = Total(Squares(v))
      <4>1. PICK z \in Int : z = 0 /\ z * z = 0
        OBVIOUS
      <4>2. Squares(v) \in Seq(Int) /\ Squares(Append(v, z)) = Append(Squares(v), z * z)
        BY <1>0, SquaresMore
      <4>3. PICK t \in Int : t = Total(Squares(v)) /\ Total(Append(Squares(v), z)) = t + z
        BY <4>2, TotalMore
      <4>4. t + z = t
        BY <4>1
      <4>5. Squares(Append(v, 0)) = Append(Squares(v), z)
        BY <4>1, <4>2
      <4> QED
        BY <4>3, <4>4, <4>5
    <3> HIDE DEF v, N
    <3>6. Append(v, 0) \in Seq(Int)
      BY <1>0, AppendProperties
    <3> QED
      BY <1>0, <3>1, <3>2, <3>3, <3>4, <3>5, <3>6 DEF N
  <2> QED
    BY <2>8, <2>9
<1> QED
  BY <1>1, <1>2, <1>3, HistoryChanges

LEMMA NormInvariance == IngestSpec => []NormInv
<1> QED
  BY Invariance, HistoryInvariance, NormInit, NormStep, PTL DEF IngestSpec

-----------------------------------------------------------------------------
(* Theorems. *)

\* The variables keep their types, from start-up (main.py:111-149) through any
\* number of searches, documents, clock readings and restarts.
THEOREM TypeCorrect == IngestSpec => []IngestTypeOK
<1>1. IInv => IngestTypeOK
  BY DEF IInv
<1> QED
  BY Invariance, <1>1, PTL

\* Whichever requests of start-up failed, with or without effect, and however
\* often they were repeated, the event loop runs only with a transform that was
\* created, and started unless its source index was missing for MaxWait, and
\* with redis_host (es.py:45, 136-206, event_loop.py:131-135).
THEOREM RunsPreparedAlways == IngestSpec => []RunsPrepared
<1>1. IInv => RunsPrepared
  BY DEF IInv, PreparedInv, RunsPrepared
<1> QED
  BY Invariance, <1>1, PTL

\* A process handles a document whose time parses at most once, and such
\* documents in the order of their time, whatever becomes visible when and
\* wherever a batch breaks off (event_loop.py:83-109).
THEOREM OnceAndInOrderAlways == IngestSpec => []OnceAndInOrder
<1> QED
  BY Invariance, InOrder, PTL

\* A document the source has gone past without yielding it was late, or shares
\* its time with one that was yielded: last_timestamp never moves past a time of
\* which nothing was delivered (event_loop.py:85-109).
THEOREM SkippedOnlyLateOrTiedAlways == IngestSpec => []SkippedOnlyLateOrTied
<1>1. IInv => SkippedOnlyLateOrTied
  <2> SUFFICES ASSUME IInv, NEW d \in visible \ late, stamp[d] <= last
               PROVE  \E e \in ToSet(delivered) : stamp[e] = stamp[d]
    BY DEF SkippedOnlyLateOrTied
  <2>1. PICK i \in 1 .. Len(delivered) : stamp[delivered[i]] = stamp[d]
    BY DEF IInv, SourceInv, ReachedInv, Tied
  <2>2. delivered[i] \in ToSet(delivered)
    BY <2>1 DEF IInv, SourceInv, TypeOK, ToSet
  <2> QED
    BY <2>1, <2>2
<1> QED
  BY Invariance, <1>1, PTL

\* Both histories of every attacker are what was delivered: the rows the agent
\* decides on are the last SeqLen events that were extracted, and a profile holds
\* the events of the Window before its last one, in any interleaving of
\* deliveries, exceptions of extract, clock readings and restarts
\* (event_loop.py:225-228, connection_tracker.py:45-69).
THEOREM HistoriesExactAlways == IngestSpec => []HistoriesExact
<1>1. IInv /\ HistoryInv => HistoriesExact
  <2> SUFFICES ASSUME IInv, HistoryInv PROVE HistoriesExact
    OBVIOUS
  <2>1. OnceAndInOrder
    BY InOrder
  <2>2. TakenInv /\ FlowsInv /\ RowsInv /\ ProfilesInv
    BY DEF HistoryInv
  <2>3. StatesAreWindows
    <3> SUFFICES ASSUME NEW ip \in IPs
                 PROVE  LET rows == buffer[ip]
                            ago(i) == Cardinality({j \in Kept(ip) : j >= i})
                        IN /\ Len(rows) = Min({SeqLen, Cardinality(Kept(ip))})
                           /\ \A i \in Kept(ip) :
                                ago(i) <= Len(rows) => rows[Len(rows) + 1 - ago(i)] = delivered[i]
                           /\ \A i, j \in DOMAIN rows :
                                (i < j /\ {rows[i], rows[j]} \cap bad = {}) =>
                                  rows[i] # rows[j] /\ stamp[rows[i]] <= stamp[rows[j]]
      BY DEF StatesAreWindows
    <3>1. PICK q : Lists(q, Kept(ip)) /\ LastRows(delivered, buffer[ip], q)
      BY <2>2 DEF RowsInv
    <3> QED
      BY <2>1, <3>1, RowsAre
  <2>4. ProfilesAreWindows
    <3> SUFFICES ASSUME NEW ip \in IPs
                 PROVE  LET events == Events(ip)
                            recent == {i \in events : \A j \in events : taken[j] - taken[i] <= Window}
                            held == window[ip]
                        IN /\ flows[ip] = Cardinality(Flows(ip))
                           /\ Len(held) = Cardinality(recent)
                           /\ \A i \in recent : LET k == Cardinality({j \in recent : j <= i})
                                                IN held[k] = [time |-> taken[i], doc |-> delivered[i]]
                           /\ \A i, j \in DOMAIN held : held[i].doc = held[j].doc => i = j \/ held[i].doc \in bad
      BY DEF ProfilesAreWindows
    <3>1. PICK q, o : Lists(q, Events(ip)) /\ Holds(taken, delivered, window[ip], q, o)
      BY <2>2 DEF ProfilesInv
    <3>2. flows[ip] = Cardinality(Flows(ip))
      BY <2>2 DEF FlowsInv
    <3> QED
      BY <2>1, <2>2, <3>1, <3>2, ProfileIs
  <2> QED
    BY <2>3, <2>4 DEF HistoriesExact
<1> QED
  BY Invariance, HistoryInvariance, <1>1, PTL

\* Welford's statistics are exact: every normaliser holds the count, the mean and
\* the sum of squared differences of exactly the values its feature had for the
\* documents whose extraction came to it, whatever broke off extractions and
\* updates in between (features.py:170-175, 219-303).
THEOREM StatisticsExactAlways == IngestSpec => []StatisticsExact
<1>1. NormInv => StatisticsExact
  BY DEF NormInv, StatisticsExact, Exact
<1> QED
  BY NormInvariance, <1>1, PTL
=============================================================================
