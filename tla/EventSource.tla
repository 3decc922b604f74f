----------------------------- MODULE EventSource -----------------------------
(***************************************************************************)
(* ElasticsearchEventSource (hive/rl-agent/rl_agent/event_loop.py:64-109): *)
(* the generator that feeds the event loop.  It asks Elasticsearch for the *)
(* oldest documents after last_timestamp, at most Limit of them, yields    *)
(* one after the other, and moves last_timestamp to the document's time    *)
(* when the loop comes back for the next one.                              *)
(*                                                                         *)
(* Logs travel through filebeat and logstash, so that a document may       *)
(* become visible at any time, also after younger ones.  Elasticsearch     *)
(* orders by time only; documents of one time come in any order.  A        *)
(* search that fails or finds nothing is repeated and changes nothing.     *)
(***************************************************************************)
EXTENDS Integers, SequencesExt

CONSTANTS
  Docs,          \* documents
  MaxTime,       \* bound: their timestamps are 0 .. MaxTime; 0 is too old
  Limit,         \* es_batch_size
  MaxYields,     \* bound: documents yielded, repeated ones included
  Unparsables    \* sets of documents whose time fromisoformat may refuse

ASSUME EventSourceAssumption ==
  /\ IsFiniteSet(Docs)
  /\ MaxTime \in Nat /\ MaxYields \in Nat /\ Limit \in Nat \ {0}
  /\ Unparsables \subseteq SUBSET Docs

VARIABLES
  stamp,      \* '@timestamp' of a document
  bad,        \* documents whose '@timestamp' does not parse
  visible,    \* documents a search may find
  last,       \* last_timestamp
  batch,      \* documents of the last search, from the current one on
  pc,         \* "search", "yield", "advance"
  delivered,  \* documents yielded, in order
  late        \* history: documents visible only after a search went past them

vars == <<stamp, bad, visible, last, batch, pc, delivered, late>>

\* The source starts at time 0, after the lookback.  Only the order of times
\* matters, so that there are no gaps between them.
Init == /\ stamp \in [Docs -> 0 .. MaxTime]
        /\ \A d \in Docs : stamp[d] > 1 => \E e \in Docs : stamp[e] = stamp[d] - 1
        /\ bad \in Unparsables
        /\ visible \in SUBSET Docs
        /\ last = 0 /\ batch = <<>> /\ pc = "search"
        /\ delivered = <<>>
        /\ late = {d \in visible : stamp[d] = 0}

\* Answers of get_recent_logs to "after t": the oldest, in the order of time.
Answers(t) ==
  LET found == {d \in visible : stamp[d] > t}
      oldest(S) == \A d \in S, e \in found \ S : stamp[d] <= stamp[e]
      size == IF Cardinality(found) < Limit THEN Cardinality(found) ELSE Limit
      sorted(q) == \A i, j \in DOMAIN q : i < j => stamp[q[i]] <= stamp[q[j]]
  IN UNION {{q \in SetToSeqs(S) : sorted(q)} :
              S \in {T \in SUBSET found : Cardinality(T) = size /\ oldest(T)}}

\* Mutant: documents of the last time are asked for again.
SearchFromLast == /\ pc = "search"
                  /\ batch' \in Answers(last - 1) \ {<<>>}
                  /\ pc' = "yield"
                  /\ UNCHANGED <<stamp, bad, visible, last, delivered, late>>

Search == /\ pc = "search"
          /\ batch' \in Answers(last) \ {<<>>}
          /\ pc' = "yield"
          /\ UNCHANGED <<stamp, bad, visible, last, delivered, late>>

\* The event loop takes the document, and handles it before it comes back.
Yield == /\ pc = "yield" /\ Len(delivered) < MaxYields
         /\ delivered' = Append(delivered, Head(batch))
         /\ pc' = "advance"
         /\ UNCHANGED <<stamp, bad, visible, last, batch, late>>

\* Mutant: the first document moves last_timestamp past the whole batch.
AdvancePastBatch ==
  /\ pc = "advance"
  /\ IF Head(batch) \in bad
     THEN batch' = <<>> /\ UNCHANGED last
     ELSE batch' = Tail(batch) /\ last' = stamp[Last(batch)]
  /\ pc' = IF batch' = <<>> THEN "search" ELSE "yield"
  /\ UNCHANGED <<stamp, bad, visible, delivered, late>>

\* Mutant: the generator ends with its first batch.
AdvanceEnds ==
  /\ pc = "advance"
  /\ IF Head(batch) \in bad
     THEN batch' = <<>> /\ UNCHANGED last
     ELSE batch' = Tail(batch) /\ last' = stamp[Head(batch)]
  /\ pc' = IF batch' = <<>> THEN "end" ELSE "yield"
  /\ UNCHANGED <<stamp, bad, visible, delivered, late>>

\* Lines 100-109: a time that does not parse ends the batch (after 5 s).
Advance ==
  /\ pc = "advance"
  /\ IF Head(batch) \in bad
     THEN batch' = <<>> /\ UNCHANGED last
     ELSE /\ batch' = Tail(batch)
          /\ last' = IF stamp[Head(batch)] > last THEN stamp[Head(batch)] ELSE last
  /\ pc' = IF batch' = <<>> THEN "search" ELSE "yield"
  /\ UNCHANGED <<stamp, bad, visible, delivered, late>>

\* A search has gone past every document up to this time.
Reach == IF batch = <<>> THEN last ELSE stamp[Last(batch)]

\* Elasticsearch makes a document visible.
Index(d) == /\ d \notin visible
            /\ visible' = visible \cup {d}
            /\ late' = IF stamp[d] <= Reach THEN late \cup {d} ELSE late
            /\ UNCHANGED <<stamp, bad, last, batch, pc, delivered>>

Next == Search \/ Yield \/ Advance \/ \E d \in Docs : Index(d)

Spec == Init /\ [][Next]_vars

\* The source is asked for events forever, and searches keep being answered.
FairSpec == Spec /\ WF_vars(Search \/ Yield \/ Advance)

-----------------------------------------------------------------------------
(* Properties *)

\* The variables range over the values the code can give them.
TypeOK == /\ stamp \in [Docs -> Nat] /\ bad \subseteq Docs /\ visible \subseteq Docs
          /\ last \in Nat
          /\ batch \in Seq(Docs) /\ delivered \in Seq(Docs)
          /\ pc \in {"search", "yield", "advance"}
          /\ late \subseteq Docs

(***************************************************************************)
(* The event loop sees a document whose time parses at most once, and such *)
(* documents in the order of their time: attackers' windows of events and  *)
(* transitions rely on it.  Interrupted batches do not break it, because   *)
(* last_timestamp moves document by document (event_loop.py:97-103).       *)
(***************************************************************************)
OnceAndInOrder ==
  \A i, j \in DOMAIN delivered :
    (i < j /\ {delivered[i], delivered[j]} \cap bad = {}) =>
      /\ delivered[i] # delivered[j]
      /\ stamp[delivered[i]] <= stamp[delivered[j]]

(***************************************************************************)
(* A document the source has gone past without yielding it was late, or    *)
(* shares its time with one that was yielded.                              *)
(***************************************************************************)
SkippedOnlyLateOrTied ==
  \A d \in visible \ (late \cup ToSet(delivered) \cup ToSet(batch)) :
    stamp[d] <= last => \E e \in ToSet(delivered) : stamp[e] = stamp[d]

(***************************************************************************)
(* "Start slightly in the past to avoid missing recent events on startup"  *)
(* (event_loop.py:69): a visible document after the start is not missed.   *)
(***************************************************************************)
NothingMissed ==
  \A d \in visible \ late :
    stamp[d] <= last => d \in ToSet(delivered) \cup ToSet(batch)
=============================================================================
