----------------------- MODULE MadcatRedirector_proofs -----------------------
(***************************************************************************)
(* Proofs about the redirector of the MADCAT container, for any sources,   *)
(* destinations, ttls, number of messages and restarts, and with iptables  *)
(* commands that fail: TypeOK, OneRulePerSource, EveryRuleRecorded and     *)
(* ChainsAgree.                                                            *)
(*                                                                         *)
(* There is no lock.  What keeps the two threads apart is the dictionary:  *)
(* the main thread adds rules only for a source without an entry, the gc   *)
(* thread deletes rules only for a source with one, and each thread alone  *)
(* changes which of the two a source is.  EntriesInv says this; from it    *)
(* follow the two invariants about the kernel, which hold as long as no    *)
(* command failed for no reason.                                           *)
(***************************************************************************)
EXTENDS MadcatRedirector, CommonLemmas

AddingTo(s) == mpc \in {"dnat", "snat", "record"} /\ msg.src = s
Removing(s) == gpc \in {"dnat", "snat", "del"} /\ read.src = s

\* A source that is added has no entry; one that is removed or that the gc thread
\* has yet to look at has one, and is only one of the two.
EntriesInv ==
  \A s \in Sources :
    /\ AddingTo(s) => rules[s] = NoRule
    /\ Removing(s) => rules[s] # NoRule /\ s \notin left
    /\ s \in left => rules[s] # NoRule

OfSource(s) == {r \in NatRules : r.src = s}
OfDest(d) == {r \in NatRules : r.dst = d}

\* Each source has the DNAT rules that the two threads believe it to have.
DnatInv ==
  ~failed =>
    /\ \A s \in Sources : Count(dnat, OfSource(s)) <= 1
    /\ \A s \in Sources :
         Count(dnat, OfSource(s)) # 0 => rules[s] # NoRule \/ Adding(s)
    /\ mpc \in {"snat", "record"} => Contains(dnat, Target)
    /\ gpc \in {"snat", "del"} => Count(dnat, OfSource(read.src)) = 0

\* The SNAT rules of a destination that are to come, and those that are to go.
ToCome(d) == IF mpc = "snat" /\ msg.entry.dst = d THEN 1 ELSE 0
ToGo(d) == IF gpc = "snat" /\ read.dst = d THEN 1 ELSE 0

\* ChainsAgree at every step.
SnatInv ==
  ~failed => \A d \in Dests :
               snat[d] + ToCome(d) = Count(dnat, OfDest(d)) + ToGo(d)

IInv == /\ TypeOK
        /\ EntriesInv
        /\ DnatInv
        /\ SnatInv

-----------------------------------------------------------------------------
(* What one iptables command does to the DNAT chain. *)

\* A rule that is appended is counted once.
LEMMA AddEffect ==
  ASSUME NEW s \in Seq(NatRules), NEW r \in NatRules
  PROVE  /\ Append(s, r) \in Seq(NatRules)
         /\ Contains(Append(s, r), r)
         /\ \A X : Count(Append(s, r), X) = Count(s, X) + IF r \in X THEN 1 ELSE 0
<1> DEFINE t == Append(s, r)
<1>1. t \in Seq(NatRules) /\ OneMore(s, Len(s) + 1, r, t)
  BY PutLast
<1> HIDE DEF t
<1>2. Contains(t, r) /\ \A X : Count(t, X) = Count(s, X) + IF r \in X THEN 1 ELSE 0
  BY <1>1, ContainsOneMore, CountOneMore
<1> QED
  BY <1>1, <1>2 DEF t

\* A rule that is deleted is counted once less; other rules stay.
LEMMA RemoveEffect ==
  ASSUME NEW s \in Seq(NatRules), NEW r \in NatRules, Contains(s, r)
  PROVE  /\ RemoveFirst(s, r) \in Seq(NatRules)
         /\ \A x : Contains(s, x) /\ x # r => Contains(RemoveFirst(s, r), x)
         /\ \A X : Count(s, X) = Count(RemoveFirst(s, r), X) + IF r \in X THEN 1 ELSE 0
<1> DEFINE t == RemoveFirst(s, r)
<1>1. t \in Seq(NatRules)
  BY DeleteFirst
<1>2. PICK k : OneMore(t, k, r, s)
  BY DeleteFirst
<1> HIDE DEF t
<1>3. /\ \A x : Contains(s, x) /\ x # r => Contains(t, x)
      /\ \A X : Count(s, X) = Count(t, X) + IF r \in X THEN 1 ELSE 0
  BY <1>1, <1>2, ContainsOneMore, CountOneMore
<1> QED
  BY <1>1, <1>3 DEF t

\* An empty chain has no rules of any kind, and one with a rule of a kind has some.
LEMMA Counting ==
  ASSUME NEW s \in Seq(NatRules), NEW X
  PROVE  /\ Count(s, X) \in Nat
         /\ s = <<>> => Count(s, X) = 0
         /\ \A r \in X : Contains(s, r) => Count(s, X) > 0
<1>1. Count(s, X) \in Nat /\ (Count(s, X) = 0 <=> \A i \in 1 .. Len(s) : s[i] \notin X)
  BY CountType
<1>2. s = <<>> => Count(s, X) = 0
  BY <1>1
<1>3. ASSUME NEW r \in X, Contains(s, r) PROVE Count(s, X) # 0
  BY <1>1, <1>3 DEF Contains
<1> QED
  BY <1>1, <1>2, <1>3

\* The rules of the message and of the gc thread, by source and by destination.
LEMMA RuleTypes ==
  ASSUME TypeOK
  PROVE  /\ msg.src \in Sources /\ msg.entry \in Entries /\ msg.entry.dst \in Dests
         /\ Target \in NatRules /\ read \in NatRules
         /\ read.src \in Sources /\ read.dst \in Dests
         /\ \A s : Target \in OfSource(s) <=> msg.src = s
         /\ \A d : Target \in OfDest(d) <=> msg.entry.dst = d
         /\ \A s : read \in OfSource(s) <=> read.src = s
         /\ \A d : read \in OfDest(d) <=> read.dst = d
BY DEF TypeOK, Target, NatRules, Entries, OfSource, OfDest

-----------------------------------------------------------------------------
(* The types, and who may touch a source. *)

LEMMA Typing == IInv /\ [Next]_vars => TypeOK'
<1> SUFFICES ASSUME IInv, [Next]_vars PROVE TypeOK'
  OBVIOUS
<1>t. TypeOK /\ EntriesInv /\ MadcatAssumption
  BY MadcatAssumption DEF IInv, MadcatAssumption
<1>r. /\ msg.src \in Sources /\ msg.entry \in Entries /\ msg.entry.dst \in Dests
      /\ Target \in NatRules /\ read \in NatRules
      /\ read.src \in Sources /\ read.dst \in Dests
  BY <1>t, RuleTypes
<1> USE <1>t DEF TypeOK, kernel, main, gc
<1>1. CASE Receive
  <2>1. PICK s \in Sources, d \in Dests, ttl \in Ttls :
          /\ msg' = [src |-> s, entry |-> [dst |-> d, exp |-> clock + ttl]]
          /\ mpc' = IF rules[s] # NoRule THEN "extend" ELSE "dnat"
    BY <1>1 DEF Receive
  <2>2. ttl \in Int /\ clock \in Nat
    BY MadcatAssumption
  <2>3. clock + ttl \in Int
    BY <2>2
  <2>4. msg' \in [src : Sources, entry : Entries]
    BY <2>1, <2>3 DEF Entries
  <2> QED
    BY <1>1, <2>1, <2>4 DEF Receive
<1>2. CASE Extend
  BY <1>r, <1>2 DEF Extend
<1>3. CASE AddDnat
  BY <1>r, <1>3, AddEffect DEF AddDnat
<1>4. CASE AddSnat
  BY <1>r, <1>4 DEF AddSnat
<1>5. CASE Record
  BY <1>r, <1>5 DEF Record
<1>6. CASE Wake
  BY <1>6 DEF Wake
<1>7. CASE DeleteDnat
  BY <1>r, <1>7, RemoveEffect DEF DeleteDnat
<1>8. CASE DeleteSnat
  BY <1>r, <1>8 DEF DeleteSnat
<1>9. CASE Del
  BY <1>r, <1>9 DEF Del
<1>10. CASE Sleep
  BY <1>10 DEF Sleep
<1>11. ASSUME NEW s \in Sources, Look(s) PROVE TypeOK'
  <2>1. rules[s] \in Entries
    BY <1>11 DEF Look, EntriesInv
  <2>2. [src |-> s, dst |-> rules[s].dst] \in NatRules
    BY <2>1 DEF NatRules, Entries
  <2> QED
    BY <1>11, <2>2 DEF Look
<1>12. CASE Tick
  BY <1>12 DEF Tick
<1>13. CASE Crash
  BY <1>13 DEF Crash
<1>14. CASE UNCHANGED vars
  BY <1>14 DEF vars
<1> QED
  BY <1>1, <1>2, <1>3, <1>4, <1>5, <1>6, <1>7, <1>8, <1>9, <1>10, <1>11, <1>12,
     <1>13, <1>14 DEF Next, Main, Gc

LEMMA Entering == IInv /\ [Next]_vars => EntriesInv'
<1> SUFFICES ASSUME IInv, [Next]_vars PROVE EntriesInv'
  OBVIOUS
<1>t. TypeOK /\ EntriesInv
  BY DEF IInv
<1>r. msg.src \in Sources /\ msg.entry \in Entries /\ read.src \in Sources
  BY <1>t, RuleTypes
<1>n. NoRule \notin Entries
  BY MadcatAssumption DEF Entries
<1> USE <1>t DEF TypeOK, EntriesInv, AddingTo, Removing, kernel, main, gc
<1>1. CASE Receive
  BY <1>1 DEF Receive
<1>2. CASE Extend
  BY <1>r, <1>n, <1>2 DEF Extend
<1>3. CASE AddDnat
  BY <1>3 DEF AddDnat
<1>4. CASE AddSnat
  BY <1>4 DEF AddSnat
<1>5. CASE Record
  BY <1>r, <1>n, <1>5 DEF Record
<1>6. CASE Wake
  BY <1>6 DEF Wake
<1>7. CASE DeleteDnat
  BY <1>7 DEF DeleteDnat
<1>8. CASE DeleteSnat
  BY <1>8 DEF DeleteSnat
<1>9. CASE Del
  BY <1>r, <1>9 DEF Del
<1>10. CASE Sleep
  BY <1>10 DEF Sleep
<1>11. ASSUME NEW s \in Sources, Look(s) PROVE EntriesInv'
  BY <1>11 DEF Look
<1>12. CASE Tick
  BY <1>12 DEF Tick
<1>13. CASE Crash
  BY <1>13 DEF Crash
<1>14. CASE UNCHANGED vars
  BY <1>14 DEF vars
<1> QED
  BY <1>1, <1>2, <1>3, <1>4, <1>5, <1>6, <1>7, <1>8, <1>9, <1>10, <1>11, <1>12,
     <1>13, <1>14 DEF Next, Main, Gc

-----------------------------------------------------------------------------
(* The DNAT rules of a source. *)

LEMMA Routing == IInv /\ [Next]_vars => DnatInv'
<1> SUFFICES ASSUME IInv, [Next]_vars, ~failed' PROVE
      /\ \A s \in Sources : Count(dnat', OfSource(s)) <= 1
      /\ \A s \in Sources :
           Count(dnat', OfSource(s)) # 0 => rules'[s] # NoRule \/ Adding(s)'
      /\ mpc' \in {"snat", "record"} => Contains(dnat', Target')
      /\ gpc' \in {"snat", "del"} => Count(dnat', OfSource(read.src)')  = 0
  BY DEF DnatInv, Count, Positions, Contains, OfSource, NatRules
<1> DEFINE Goal ==
      /\ \A s \in Sources : Count(dnat', OfSource(s)) <= 1
      /\ \A s \in Sources :
           Count(dnat', OfSource(s)) # 0 => rules'[s] # NoRule \/ Adding(s)'
      /\ mpc' \in {"snat", "record"} => Contains(dnat', Target')
      /\ gpc' \in {"snat", "del"} => Count(dnat', OfSource(read.src)')  = 0
<1>t. TypeOK /\ EntriesInv /\ dnat \in Seq(NatRules)
  BY DEF IInv, TypeOK
<1>r. /\ msg.src \in Sources /\ msg.entry \in Entries /\ read.src \in Sources
      /\ Target \in NatRules /\ read \in NatRules
      /\ \A s : Target \in OfSource(s) <=> msg.src = s
      /\ \A s : read \in OfSource(s) <=> read.src = s
  BY <1>t, RuleTypes
<1>n. NoRule \notin Entries
  BY MadcatAssumption DEF Entries
<1>c. \A s \in Sources : Count(dnat, OfSource(s)) \in Nat
  BY <1>t, Counting
<1>i. ~failed =>
        /\ \A s \in Sources : Count(dnat, OfSource(s)) <= 1
        /\ \A s \in Sources :
             Count(dnat, OfSource(s)) # 0 => rules[s] # NoRule \/ Adding(s)
        /\ mpc \in {"snat", "record"} => Contains(dnat, Target)
        /\ gpc \in {"snat", "del"} => Count(dnat, OfSource(read.src)) = 0
  BY DEF IInv, DnatInv
<1> USE <1>t, <1>i DEF TypeOK, EntriesInv, AddingTo, Removing, Adding, Target,
                       kernel, main, gc
<1>1. CASE Receive
  BY <1>1 DEF Receive, OfSource
<1>2. CASE Extend
  BY <1>r, <1>n, <1>2 DEF Extend, OfSource
<1>3. CASE AddDnat
  <2>1. /\ ~failed /\ dnat' = Append(dnat, Target) /\ mpc = "dnat" /\ mpc' = "snat"
        /\ UNCHANGED <<rules, msg, gpc, read, left>>
    BY <1>3 DEF AddDnat
  <2>2. \A X : Count(dnat', X) = Count(dnat, X) + IF Target \in X THEN 1 ELSE 0
    BY <1>r, <2>1, AddEffect
  <2>3. \A s \in Sources : Count(dnat', OfSource(s)) =
                             Count(dnat, OfSource(s)) + IF msg.src = s THEN 1 ELSE 0
    BY <1>r, <2>2
  <2>4. rules[msg.src] = NoRule /\ Count(dnat, OfSource(msg.src)) = 0
    BY <1>r, <2>1
  <2>5. \A s \in Sources : Count(dnat', OfSource(s)) <= 1
    BY <1>c, <2>1, <2>3, <2>4
  <2>6. \A s \in Sources :
          Count(dnat', OfSource(s)) # 0 => rules'[s] # NoRule \/ Adding(s)'
    <3> SUFFICES ASSUME NEW s \in Sources, s # msg.src, Count(dnat', OfSource(s)) # 0
                 PROVE  rules[s] # NoRule
      BY <2>1
    <3>1. Count(dnat, OfSource(s)) # 0
      BY <1>c, <2>3
    <3> QED
      BY <2>1, <3>1
  <2>7. Contains(dnat', Target')
    BY <1>r, <2>1, AddEffect
  <2>8. gpc' \in {"snat", "del"} => Count(dnat', OfSource(read.src)') = 0
    <3>1. OfSource(read.src)' = OfSource(read.src)
      BY <2>1 DEF OfSource
    <3>2. gpc \in {"snat", "del"} => read.src # msg.src
      BY <1>r, <2>1, <2>4
    <3> QED
      BY <1>r, <2>1, <2>3, <3>1, <3>2
  <2> QED
    BY <2>5, <2>6, <2>7, <2>8
<1>4. CASE AddSnat
  BY <1>4 DEF AddSnat, OfSource
<1>5. CASE Record
  BY <1>r, <1>n, <1>5 DEF Record, OfSource
<1>6. CASE Wake
  BY <1>6 DEF Wake, OfSource
<1>7. CASE DeleteDnat
  <2>1. ~failed /\ gpc = "dnat" /\ UNCHANGED <<rules, mpc, msg, read, left>>
    BY <1>7 DEF DeleteDnat
  <2>o. OfSource(read.src)' = OfSource(read.src)
    BY <2>1 DEF OfSource
  <2>2. CASE dnat' = dnat /\ gpc' = "loop"
    BY <2>1, <2>2
  <2>3. CASE /\ Contains(dnat, read)
             /\ dnat' = RemoveFirst(dnat, read) /\ gpc' = "snat"
    <3>1. \A X : Count(dnat, X) = Count(dnat', X) + IF read \in X THEN 1 ELSE 0
      BY <1>r, <2>3, RemoveEffect
    <3>2. \A s \in Sources : Count(dnat, OfSource(s)) =
                               Count(dnat', OfSource(s)) + IF read.src = s THEN 1 ELSE 0
      BY <1>r, <3>1
    <3>3. dnat' \in Seq(NatRules)
      BY <1>r, <2>3, RemoveEffect
    <3>4. \A s \in Sources : Count(dnat', OfSource(s)) \in Nat
      BY <3>3, Counting
    <3>5. \A s \in Sources : Count(dnat', OfSource(s)) <= Count(dnat, OfSource(s))
      <4> SUFFICES ASSUME NEW s \in Sources
                   PROVE  Count(dnat', OfSource(s)) <= Count(dnat, OfSource(s))
        OBVIOUS
      <4>1. Count(dnat', OfSource(s)) \in Nat
        BY <3>4
      <4>2. Count(dnat, OfSource(s)) \in {Count(dnat', OfSource(s)),
                                         Count(dnat', OfSource(s)) + 1}
        BY <3>2, <4>1
      <4> QED
        BY <4>1, <4>2
    <3>6. \A s \in Sources : Count(dnat', OfSource(s)) <= 1
      BY <1>c, <2>1, <3>4, <3>5
    <3>7. \A s \in Sources :
            Count(dnat', OfSource(s)) # 0 => rules'[s] # NoRule \/ Adding(s)'
      <4>1. \A s \in Sources : Count(dnat', OfSource(s)) # 0 => Count(dnat, OfSource(s)) # 0
        BY <1>c, <3>4, <3>5
      <4> QED
        BY <2>1, <4>1
    <3>8. mpc' \in {"snat", "record"} => Contains(dnat', Target')
      <4>1. mpc \in {"snat", "record"} => msg.src # read.src
        BY <1>r, <2>1
      <4>2. mpc \in {"snat", "record"} => Target # read
        BY <4>1
      <4>3. \A x : Contains(dnat, x) /\ x # read => Contains(dnat', x)
        BY <1>r, <2>3, RemoveEffect
      <4> QED
        BY <2>1, <4>2, <4>3
    <3>9. Count(dnat', OfSource(read.src)) = 0
      BY <1>r, <1>c, <2>1, <3>2, <3>4
    <3> QED
      BY <2>o, <3>6, <3>7, <3>8, <3>9
  <2> QED
    BY <1>7, <2>2, <2>3 DEF DeleteDnat
<1>8. CASE DeleteSnat
  BY <1>8 DEF DeleteSnat, OfSource
<1>9. CASE Del
  BY <1>r, <1>9 DEF Del, OfSource
<1>10. CASE Sleep
  BY <1>10 DEF Sleep, OfSource
<1>11. ASSUME NEW s \in Sources, Look(s) PROVE Goal
  BY <1>11 DEF Look, OfSource
<1>12. CASE Tick
  BY <1>12 DEF Tick, OfSource
<1>13. CASE Crash
  <2>1. dnat' = <<>> /\ mpc' = "listen" /\ gpc' = "sleep"
    BY <1>13 DEF Crash
  <2>2. \A X : Count(dnat', X) = 0
    <3>1. <<>> \in Seq(NatRules)
      OBVIOUS
    <3>2. \A X : Count(<<>>, X) = 0
      BY <3>1, Counting
    <3> QED
      BY <2>1, <3>2
  <2> QED
    BY <2>1, <2>2
<1>14. CASE UNCHANGED vars
  BY <1>14 DEF vars, OfSource
<1> QED
  BY <1>1, <1>2, <1>3, <1>4, <1>5, <1>6, <1>7, <1>8, <1>9, <1>10, <1>11, <1>12,
     <1>13, <1>14 DEF Next, Main, Gc

-----------------------------------------------------------------------------
(* The SNAT rules of a destination. *)

LEMMA Counterparts == IInv /\ [Next]_vars => SnatInv'
<1> SUFFICES ASSUME IInv, [Next]_vars, ~failed', NEW d \in Dests
             PROVE  snat'[d] + ToCome(d)' = Count(dnat', OfDest(d)) + ToGo(d)'
  BY DEF SnatInv, Count, Positions, OfDest, NatRules
<1> DEFINE Goal == snat'[d] + ToCome(d)' = Count(dnat', OfDest(d)) + ToGo(d)'
<1>t. TypeOK /\ EntriesInv /\ dnat \in Seq(NatRules)
  BY DEF IInv, TypeOK
<1>r. /\ msg.src \in Sources /\ msg.entry.dst \in Dests
      /\ read.src \in Sources /\ read.dst \in Dests
      /\ Target \in NatRules /\ read \in NatRules
      /\ Target \in OfDest(d) <=> msg.entry.dst = d
      /\ read \in OfDest(d) <=> read.dst = d
  BY <1>t, RuleTypes
<1>c. Count(dnat, OfDest(d)) \in Nat /\ snat[d] \in Nat
  BY <1>t, Counting DEF TypeOK
<1>i. ~failed => /\ snat[d] + ToCome(d) = Count(dnat, OfDest(d)) + ToGo(d)
                 /\ mpc \in {"snat", "record"} => Contains(dnat, Target)
  BY DEF IInv, SnatInv, DnatInv
<1>u. ASSUME ~failed, UNCHANGED <<dnat, snat>>, ToCome(d)' = ToCome(d), ToGo(d)' = ToGo(d)
      PROVE  Goal
  BY <1>i, <1>u
<1> USE DEF kernel, main, gc
<1>1. CASE Receive
  BY <1>1, <1>u DEF Receive, ToCome, ToGo
<1>2. CASE Extend
  BY <1>2, <1>u DEF Extend, ToCome, ToGo
<1>3. CASE AddDnat
  <2>1. /\ ~failed /\ dnat' = Append(dnat, Target) /\ mpc = "dnat" /\ mpc' = "snat"
        /\ UNCHANGED <<snat, msg, gpc, read>>
    BY <1>3 DEF AddDnat
  <2>2. Count(dnat', OfDest(d)) =
          Count(dnat, OfDest(d)) + IF Target \in OfDest(d) THEN 1 ELSE 0
    BY <1>r, <1>t, <2>1, AddEffect
  <2>3. /\ ToCome(d) = 0 /\ ToCome(d)' = (IF msg.entry.dst = d THEN 1 ELSE 0)
        /\ ToGo(d)' = ToGo(d) /\ ToGo(d) \in {0, 1}
    BY <2>1 DEF ToCome, ToGo
  <2> QED
    BY <1>c, <1>i, <1>r, <2>1, <2>2, <2>3
<1>4. CASE AddSnat
  <2>1. /\ ~failed /\ snat' = [snat EXCEPT ![msg.entry.dst] = @ + 1]
        /\ mpc = "snat" /\ mpc' = "record" /\ UNCHANGED <<dnat, msg, gpc, read>>
    BY <1>4 DEF AddSnat
  <2>2. snat'[d] = snat[d] + ToCome(d) /\ ToCome(d)' = 0 /\ ToGo(d)' = ToGo(d)
    BY <1>c, <1>r, <1>t, <2>1 DEF TypeOK, ToCome, ToGo
  <2>3. snat'[d] + 0 = snat[d] + ToCome(d)
    BY <1>c, <2>2 DEF ToCome
  <2> QED
    BY <1>i, <2>1, <2>2, <2>3
<1>5. CASE Record
  BY <1>5, <1>u DEF Record, ToCome, ToGo
<1>6. CASE Wake
  BY <1>6, <1>u DEF Wake, ToCome, ToGo
<1>7. CASE DeleteDnat
  <2>1. /\ ~failed /\ gpc = "dnat" /\ UNCHANGED <<snat, mpc, msg, read>>
        /\ ToGo(d) = 0 /\ ToCome(d)' = ToCome(d) /\ ToCome(d) \in {0, 1}
    BY <1>7 DEF DeleteDnat, ToGo, ToCome
  <2>2. CASE dnat' = dnat /\ gpc' = "loop"
    BY <1>u, <2>1, <2>2 DEF ToGo
  <2>3. CASE /\ Contains(dnat, read)
             /\ dnat' = RemoveFirst(dnat, read) /\ gpc' = "snat"
    <3>1. Count(dnat, OfDest(d)) =
            Count(dnat', OfDest(d)) + IF read \in OfDest(d) THEN 1 ELSE 0
      BY <1>r, <1>t, <2>3, RemoveEffect
    <3>2. Count(dnat', OfDest(d)) \in Nat
      BY <1>r, <1>t, <2>3, RemoveEffect, Counting
    <3>3. ToGo(d)' = IF read.dst = d THEN 1 ELSE 0
      BY <2>1, <2>3 DEF ToGo
    <3> QED
      BY <1>c, <1>i, <1>r, <2>1, <3>1, <3>2, <3>3
  <2> QED
    BY <1>7, <2>2, <2>3 DEF DeleteDnat
<1>8. CASE DeleteSnat
  <2>1. /\ ~failed /\ gpc = "snat" /\ UNCHANGED <<dnat, mpc, msg, read>>
        /\ ToCome(d)' = ToCome(d) /\ ToCome(d) \in {0, 1}
    BY <1>8 DEF DeleteSnat, ToCome
  <2>2. CASE /\ ~(snat[read.dst] > 0)
             /\ UNCHANGED snat /\ gpc' = "loop"
    \* This case does not occur for d: when the main thread has yet to insert one
    \* SNAT rule of d, the DNAT rule it goes with is counted besides the others.
    <3>1. CASE read.dst = d
      <4>1. ToGo(d) = 1
        BY <2>1, <3>1 DEF ToGo
      <4>2. ToCome(d) = 1 => Count(dnat, OfDest(d)) > 0
        BY <1>i, <1>r, <1>t, <2>1, Counting DEF ToCome
      <4>3. snat[d] > 0
        BY <1>c, <1>i, <2>1, <4>1, <4>2
      <4> QED
        BY <2>2, <3>1, <4>3
    <3>2. CASE read.dst # d
      BY <1>u, <2>1, <2>2, <3>2 DEF ToGo
    <3> QED
      BY <3>1, <3>2
  <2>3. CASE /\ snat[read.dst] > 0
             /\ snat' = [snat EXCEPT ![read.dst] = @ - 1] /\ gpc' = "del"
    <3>1. ToGo(d)' = 0 /\ ToGo(d) = IF read.dst = d THEN 1 ELSE 0
      BY <2>1, <2>3 DEF ToGo
    <3>2. snat'[d] = IF read.dst = d THEN snat[d] - 1 ELSE snat[d]
      BY <1>r, <1>t, <2>3 DEF TypeOK
    <3> QED
      BY <1>c, <1>i, <2>1, <3>1, <3>2
  <2> QED
    BY <1>8, <2>2, <2>3 DEF DeleteSnat
<1>9. CASE Del
  BY <1>9, <1>u DEF Del, ToCome, ToGo
<1>10. CASE Sleep
  BY <1>10, <1>u DEF Sleep, ToCome, ToGo
<1>11. ASSUME NEW s \in Sources, Look(s) PROVE Goal
  BY <1>11, <1>u DEF Look, ToCome, ToGo
<1>12. CASE Tick
  BY <1>12, <1>u DEF Tick, ToCome, ToGo
<1>13. CASE Crash
  <2>1. dnat' = <<>> /\ snat'[d] = 0 /\ mpc' = "listen" /\ gpc' = "sleep"
    BY <1>13 DEF Crash
  <2>2. <<>> \in Seq(NatRules)
    OBVIOUS
  <2>3. Count(dnat', OfDest(d)) = 0
    BY <2>1, <2>2, Counting
  <2> QED
    BY <2>1, <2>3 DEF ToCome, ToGo
<1>14. CASE UNCHANGED vars
  BY <1>14, <1>u DEF vars, ToCome, ToGo
<1> QED
  BY <1>1, <1>2, <1>3, <1>4, <1>5, <1>6, <1>7, <1>8, <1>9, <1>10, <1>11, <1>12,
     <1>13, <1>14 DEF Next, Main, Gc

-----------------------------------------------------------------------------
(* The theorems. *)

LEMMA InitInv == Init => IInv
<1> SUFFICES ASSUME Init PROVE IInv
  OBVIOUS
<1> USE MadcatAssumption
<1>1. \E s \in Sources, d \in Dests : [src |-> s, dst |-> d] \in NatRules
  BY DEF NatRules
<1>2. (CHOOSE r \in NatRules : TRUE) \in NatRules
  BY <1>1
<1>3. /\ (CHOOSE s \in Sources : TRUE) \in Sources
      /\ [dst |-> CHOOSE d \in Dests : TRUE, exp |-> 0] \in Entries
  BY DEF Entries
<1>4. <<>> \in Seq(NatRules)
  OBVIOUS
<1>5. TypeOK
  BY <1>2, <1>3, <1>4 DEF Init, TypeOK
<1>6. EntriesInv
  BY DEF Init, EntriesInv, AddingTo, Removing
<1>7. \A X : Count(dnat, X) = 0
  BY <1>4, Counting DEF Init
<1>8. DnatInv /\ SnatInv
  BY <1>7 DEF Init, DnatInv, SnatInv, ToCome, ToGo
<1> QED
  BY <1>5, <1>6, <1>8 DEF IInv

LEMMA Invariance == Spec => []IInv
<1>1. IInv /\ [Next]_vars => IInv'
  BY Typing, Entering, Routing, Counterparts DEF IInv
<1> QED
  BY InitInv, <1>1, PTL DEF Spec

(***************************************************************************)
(* The redirector's variables range over the values the code can give      *)
(* them: every source the gc thread looks at, or removes, still has the    *)
(* entry it reads from, though the main thread changes `rules` meanwhile   *)
(* (redirector.py:63-70).                                                  *)
(***************************************************************************)
THEOREM TypeCorrect == Spec => []TypeOK
<1>1. IInv => TypeOK
  BY DEF IInv
<1> QED
  BY Invariance, <1>1, PTL

\* The DNAT rules of a source, counted by position.
LEMMA RulesCounted ==
  ASSUME TypeOK, NEW s \in Sources
  PROVE  /\ Cardinality(RulesOf(s)) = Count(dnat, OfSource(s))
         /\ RulesOf(s) # {} => Count(dnat, OfSource(s)) # 0
<1>1. /\ dnat \in Seq(NatRules) /\ DOMAIN dnat = 1 .. Len(dnat)
      /\ \A i \in 1 .. Len(dnat) : dnat[i] \in NatRules
  BY LenProperties, ElementOfSeq DEF TypeOK
<1>2. RulesOf(s) = Positions(dnat, OfSource(s))
  BY <1>1 DEF RulesOf, Positions, OfSource
<1>3. Count(dnat, OfSource(s)) = 0 => Positions(dnat, OfSource(s)) = {}
  BY <1>1, CountType DEF Positions
<1> QED
  BY <1>2, <1>3 DEF Count

(***************************************************************************)
(* Without a lock, no source ever gets a second DNAT rule, whatever the    *)
(* order of the two threads' steps, as long as no command failed for no    *)
(* reason and no restart forgot rules (redirector.py:50-57, 65-70).        *)
(***************************************************************************)
THEOREM OneRulePerSourceAlways == Spec => []OneRulePerSource
<1>1. IInv => OneRulePerSource
  <2> SUFFICES ASSUME IInv, ~failed, NEW s \in Sources
               PROVE  Cardinality(RulesOf(s)) <= 1
    BY DEF OneRulePerSource
  <2> QED
    BY RulesCounted DEF IInv, DnatInv
<1> QED
  BY Invariance, <1>1, PTL

(***************************************************************************)
(* Every DNAT rule has an entry that the gc thread will look at, or is     *)
(* being added, under the same conditions (redirector.py:55-57, 69-70).    *)
(***************************************************************************)
THEOREM EveryRuleRecordedAlways == Spec => []EveryRuleRecorded
<1>1. IInv => EveryRuleRecorded
  BY RulesCounted DEF EveryRuleRecorded, IInv, DnatInv
<1> QED
  BY Invariance, <1>1, PTL

(***************************************************************************)
(* A destination has as many SNAT rules as DNAT rules when no thread is    *)
(* between its two commands, also when sources share the destination,      *)
(* under the same conditions (redirector.py:31-38).                        *)
(***************************************************************************)
THEOREM ChainsAgreeAlways == Spec => []ChainsAgree
<1>1. IInv => ChainsAgree
  <2> SUFFICES ASSUME IInv, ~failed, mpc # "snat", gpc # "snat", NEW d \in Dests
               PROVE  snat[d] = Cardinality({i \in DOMAIN dnat : dnat[i].dst = d})
    BY DEF ChainsAgree
  <2>1. /\ dnat \in Seq(NatRules) /\ DOMAIN dnat = 1 .. Len(dnat) /\ snat[d] \in Nat
        /\ \A i \in 1 .. Len(dnat) : dnat[i] \in NatRules
    BY LenProperties, ElementOfSeq DEF IInv, TypeOK
  <2>2. {i \in DOMAIN dnat : dnat[i].dst = d} = Positions(dnat, OfDest(d))
    BY <2>1 DEF Positions, OfDest
  <2>3. ToCome(d) = 0 /\ ToGo(d) = 0
    BY DEF ToCome, ToGo
  <2>4. snat[d] + 0 = Count(dnat, OfDest(d)) + 0
    BY <2>3 DEF IInv, SnatInv
  <2>5. Count(dnat, OfDest(d)) \in Nat
    BY <2>1, CountType
  <2>6. snat[d] = Count(dnat, OfDest(d))
    BY <2>1, <2>4, <2>5
  <2> QED
    BY <2>2, <2>6 DEF Count
<1> QED
  BY Invariance, <1>1, PTL
=============================================================================
