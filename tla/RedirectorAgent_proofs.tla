----------------------- MODULE RedirectorAgent_proofs ------------------------
(***************************************************************************)
(* Proofs about the redirector agent, for any attackers, honeypods, ttls,  *)
(* number of commands and crashes, and with iptables commands that fail:   *)
(* TypeOK, RedirectedAsRecorded, ChainsAgree and NeverDroppedEarly.        *)
(*                                                                         *)
(* The properties speak of the states in which no update is in progress;   *)
(* the invariant says what holds half way: who has the lock, what is left  *)
(* of the list of expired entries, how far the kernel has followed the     *)
(* update, and how the chains are going to agree when it is over.          *)
(***************************************************************************)
EXTENDS RedirectorAgent, CommonLemmas

Updating == mpc \in {"dnat", "snat", "record"}
Cleaning == cpc \in {"loop", "dnat", "snat"}

\* The thread that is between its first access and its last has the lock, and
\* while the process starts up there is neither an entry nor a cleanup thread.
LockInv == /\ lock = "main" <=> Updating
           /\ lock = "cleaner" <=> Cleaning
           /\ mpc \in {"flushPre", "flushPost"} =>
                cpc = "off" /\ \A a \in Attackers : active[a] = NoRule

\* What was found expired stays so while the lock is held.
ExpiredInv ==
  /\ now <= clock
  /\ Cleaning => \A a \in expired : active[a] # NoRule /\ now > active[a].expires

\* An update is about the rule its command names; the entry is forgotten before
\* its rules are deleted, and recorded after they are inserted.
UpdateInv ==
  /\ Updating /\ command.action = "add" =>
       target = [attacker |-> command.attacker, pod |-> command.pod]
  /\ Updating /\ command.action = "remove" =>
       mpc # "record" /\ active[target.attacker] = NoRule
  /\ cpc \in {"dnat", "snat"} => active[dropped.attacker] = NoRule

RulesOf(a) == {r \in NatRules : r.attacker = a}

\* The kernel has followed an "add" for attacker a as far as one chain, or both.
DnatInserted(a) == /\ mpc \in {"snat", "record"}
                   /\ command.action = "add" /\ command.attacker = a
SnatInserted(a) == mpc = "record" /\ DnatInserted(a)

\* The rule that attacker a is to be led by.
RuleOf(a) == [attacker |-> a, pod |-> active[a].pod]

\* Attacker a is led by the rule of the entry, or of the update in progress.
Led(a) ==
  /\ active[a] # NoRule /\ ~DnatInserted(a) =>
       FirstIs(pre, RulesOf(a), RuleOf(a)) /\ Contains(post, RuleOf(a))
  /\ DnatInserted(a) => FirstIs(pre, RulesOf(a), target)
  /\ SnatInserted(a) => Contains(post, target)

\* RedirectedAsRecorded at every step.
LedInv == \A a \in Attackers \ faulty : Led(a)

\* The two chains have the same rules, each as often.
SameRules(s, t) == \A r \in NatRules : Count(s, {r}) = Count(t, {r})

\* The SNAT chain when the update in progress is over.
PostToBe ==
  IF mpc = "snat"
  THEN IF command.action = "add" THEN Insert(post, target) ELSE Delete(post, target)
  ELSE IF cpc = "snat" THEN Delete(post, dropped) ELSE post

\* ChainsAgree at every step.
AgreeInv ==
  faulty = {} => /\ mpc = "flushPost" => pre = <<>>
                 /\ mpc \notin {"flushPre", "flushPost"} => SameRules(pre, PostToBe)

IInv == /\ TypeOK
        /\ LockInv
        /\ ExpiredInv
        /\ UpdateInv
        /\ LedInv
        /\ AgreeInv

-----------------------------------------------------------------------------
(* What one iptables command does to a chain. *)

\* A rule that is inserted comes first; the other attackers are led as before.
LEMMA InsertEffect ==
  ASSUME NEW s \in Seq(NatRules), NEW r \in NatRules
  PROVE  /\ Insert(s, r) \in Seq(NatRules)
         /\ Contains(Insert(s, r), r)
         /\ FirstIs(Insert(s, r), RulesOf(r.attacker), r)
         /\ \A x : Contains(s, x) => Contains(Insert(s, r), x)
         /\ \A a \in Attackers \ {r.attacker} : \A x :
              FirstIs(s, RulesOf(a), x) => FirstIs(Insert(s, r), RulesOf(a), x)
         /\ \A x \in NatRules :
              Count(Insert(s, r), {x}) = Count(s, {x}) + IF r = x THEN 1 ELSE 0
<1> DEFINE t == Insert(s, r)
<1>1. t \in Seq(NatRules) /\ OneMore(s, 1, r, t)
  BY PutFirst DEF Insert
<1>2. r \in RulesOf(r.attacker)
  BY DEF RulesOf
<1> HIDE DEF t
<1>3. Contains(t, r) /\ \A x : Contains(s, x) => Contains(t, x)
  BY <1>1, ContainsOneMore
<1>4. FirstIs(t, RulesOf(r.attacker), r)
  BY <1>1, <1>2, FirstOneMore
<1>5. ASSUME NEW a \in Attackers \ {r.attacker}, NEW x, FirstIs(s, RulesOf(a), x)
      PROVE  FirstIs(t, RulesOf(a), x)
  <2>1. r \notin RulesOf(a)
    BY DEF RulesOf
  <2> QED
    BY <1>1, <1>5, <2>1, FirstOneMore
<1>6. ASSUME NEW x \in NatRules
      PROVE  Count(t, {x}) = Count(s, {x}) + IF r = x THEN 1 ELSE 0
  <2>1. Count(t, {x}) = Count(s, {x}) + IF r \in {x} THEN 1 ELSE 0
    BY <1>1, CountOneMore
  <2> QED
    BY <2>1
<1> QED
  BY <1>1, <1>3, <1>4, <1>5, <1>6 DEF t

\* A rule that is deleted is there once less; the other attackers are led as before.
LEMMA DeleteEffect ==
  ASSUME NEW s \in Seq(NatRules), NEW r \in NatRules
  PROVE  /\ Delete(s, r) \in Seq(NatRules)
         /\ \A x : Contains(s, x) /\ x # r => Contains(Delete(s, r), x)
         /\ \A a \in Attackers \ {r.attacker} : \A x :
              FirstIs(s, RulesOf(a), x) => FirstIs(Delete(s, r), RulesOf(a), x)
         /\ \A x \in NatRules :
              Count(Delete(s, r), {x}) =
                Count(s, {x}) - IF r = x /\ Count(s, {x}) > 0 THEN 1 ELSE 0
<1> DEFINE t == Delete(s, r)
<1>1. t \in Seq(NatRules)
  BY DeleteFirst DEF Delete
<1>2. CASE ~Contains(s, r)
  <2>1. t = s
    BY <1>2, DeleteFirst DEF Delete
  <2>2. \A x \in NatRules : Count(s, {x}) \in Nat /\ (r = x => Count(s, {x}) = 0)
    BY <1>2, CountType DEF Contains
  <2> QED
    BY <2>1, <2>2
<1>3. CASE Contains(s, r)
  <2>1. PICK k : OneMore(t, k, r, s)
    BY <1>3, DeleteFirst DEF Delete
  <2> HIDE DEF t
  <2>2. \A x : Contains(s, x) /\ x # r => Contains(t, x)
    BY <1>1, <2>1, ContainsOneMore
  <2>3. ASSUME NEW a \in Attackers \ {r.attacker}, NEW x, FirstIs(s, RulesOf(a), x)
        PROVE  FirstIs(t, RulesOf(a), x)
    <3>1. r \notin RulesOf(a)
      BY DEF RulesOf
    <3> QED
      BY <1>1, <2>1, <2>3, <3>1, FirstOneMore
  <2>4. ASSUME NEW x \in NatRules
        PROVE  Count(t, {x}) = Count(s, {x}) - IF r = x /\ Count(s, {x}) > 0 THEN 1 ELSE 0
    <3>1. Count(s, {x}) = Count(t, {x}) + IF r \in {x} THEN 1 ELSE 0
      BY <1>1, <2>1, CountOneMore
    <3>2. Count(s, {x}) \in Nat /\ Count(t, {x}) \in Nat
      BY <1>1, CountType
    <3> QED
      BY <3>1, <3>2
  <2> QED
    BY <1>1, <2>2, <2>3, <2>4 DEF t
<1> QED
  BY <1>1, <1>2, <1>3

\* Chains with the same rules keep them when both get or lose the same rule.
LEMMA SameAfter ==
  ASSUME NEW s \in Seq(NatRules), NEW t \in Seq(NatRules), SameRules(s, t),
         NEW r \in NatRules
  PROVE  /\ SameRules(Insert(s, r), Insert(t, r))
         /\ SameRules(Delete(s, r), Delete(t, r))
<1>1. \A x \in NatRules : Count(s, {x}) = Count(t, {x})
  BY DEF SameRules
<1>2. SameRules(Insert(s, r), Insert(t, r))
  <2> SUFFICES ASSUME NEW x \in NatRules
               PROVE  Count(Insert(s, r), {x}) = Count(Insert(t, r), {x})
    BY DEF SameRules
  <2>1. Count(Insert(s, r), {x}) = Count(s, {x}) + IF r = x THEN 1 ELSE 0
    BY InsertEffect
  <2>2. Count(Insert(t, r), {x}) = Count(t, {x}) + IF r = x THEN 1 ELSE 0
    BY InsertEffect
  <2> QED
    BY <1>1, <2>1, <2>2
<1>3. SameRules(Delete(s, r), Delete(t, r))
  <2> SUFFICES ASSUME NEW x \in NatRules
               PROVE  Count(Delete(s, r), {x}) = Count(Delete(t, r), {x})
    BY DEF SameRules
  <2>1. Count(Delete(s, r), {x}) = Count(s, {x}) - IF r = x /\ Count(s, {x}) > 0 THEN 1 ELSE 0
    BY DeleteEffect
  <2>2. Count(Delete(t, r), {x}) = Count(t, {x}) - IF r = x /\ Count(t, {x}) > 0 THEN 1 ELSE 0
    BY DeleteEffect
  <2> QED
    BY <1>1, <2>1, <2>2
<1> QED
  BY <1>2, <1>3

\* Chains with the same rules are equal as bags.
LEMMA SameBag ==
  ASSUME NEW s \in Seq(NatRules), NEW t \in Seq(NatRules), SameRules(s, t)
  PROVE  ToBag(s) = ToBag(t)
<1>1. ASSUME NEW u \in Seq(NatRules)
      PROVE  /\ DOMAIN u = 1 .. Len(u)
             /\ Range(u) = {x \in NatRules : Count(u, {x}) # 0}
             /\ ToBag(u) = [x \in Range(u) |-> Count(u, {x})]
  <2>1. DOMAIN u = 1 .. Len(u) /\ \A i \in 1 .. Len(u) : u[i] \in NatRules
    BY <1>1, LenProperties, ElementOfSeq
  <2>2. ASSUME NEW x \in NatRules
        PROVE  x \in Range(u) <=> Count(u, {x}) # 0
    <3>1. Count(u, {x}) = 0 <=> \A i \in 1 .. Len(u) : u[i] \notin {x}
      BY CountType
    <3> QED
      BY <2>1, <3>1 DEF Range
  <2>3. Range(u) \subseteq NatRules
    BY <2>1 DEF Range
  <2>4. ASSUME NEW x
        PROVE  Cardinality({i \in DOMAIN u : u[i] = x}) = Count(u, {x})
    <3>1. {i \in DOMAIN u : u[i] = x} = Positions(u, {x})
      BY <2>1 DEF Positions
    <3> QED
      BY <3>1 DEF Count
  <2> QED
    BY <2>1, <2>2, <2>3, <2>4 DEF ToBag
<1>2. \A x \in NatRules : Count(s, {x}) = Count(t, {x})
  BY DEF SameRules
<1>3. Range(s) = Range(t) /\ Range(s) \subseteq NatRules
  BY <1>1, <1>2
<1> QED
  BY <1>1, <1>2, <1>3

\* The first match of an attacker, when there is a first rule of his.
LEMMA FirstIsMatch ==
  ASSUME NEW s \in Seq(NatRules), NEW a \in Attackers, NEW r, FirstIs(s, RulesOf(a), r)
  PROVE  FirstMatch(s, a) = {r}
<1> DEFINE I == {i \in 1 .. Len(s) : s[i].attacker = a}
<1>1. PICK k \in 1 .. Len(s) : /\ s[k] = r /\ r \in RulesOf(a)
                               /\ \A j \in 1 .. k - 1 : s[j] \notin RulesOf(a)
  BY DEF FirstIs
<1>2. Len(s) \in Nat /\ \A i \in 1 .. Len(s) : s[i] \in NatRules
  BY LenProperties, ElementOfSeq
<1>3. I \in SUBSET Nat /\ k \in I
  BY <1>1, <1>2 DEF RulesOf
<1>4. \A i \in I : k <= i
  <2> SUFFICES ASSUME NEW i \in I, i < k PROVE FALSE
    BY <1>2, <1>3
  <2>1. i \in 1 .. k - 1 /\ s[i] \in RulesOf(a)
    BY <1>2 DEF RulesOf
  <2> QED
    BY <1>1, <2>1
<1>5. Min(I) = k /\ k # 0
  BY <1>3, <1>4, LeastIs
<1>6. SelectInSeq(s, LAMBDA x : x.attacker = a) = IF I # {} THEN Min(I) ELSE 0
  BY DEF SelectInSeq
<1> QED
  BY <1>1, <1>3, <1>5, <1>6 DEF FirstMatch

-----------------------------------------------------------------------------
(* The types. *)

\* The commands, told apart by their action.
LEMMA CommandTypes ==
  ASSUME NEW m \in Commands
  PROVE  /\ m.action \in {"add", "remove"} /\ m.attacker \in Attackers
         /\ m.action = "add" => m.pod \in Pods /\ m.ttl \in Ttls
BY DEF Commands

\* A command on a chain leaves a chain, and at most one more attacker at fault.
LEMMA RunTypes ==
  ASSUME TypeOK, NEW r \in NatRules, NEW chain, NEW chainNext, NEW new,
         chain \in Seq(NatRules), new \in Seq(NatRules),
         \E ok \in CommandOutcomes :
           /\ chainNext = IF ok THEN new ELSE chain
           /\ faulty' = IF ok THEN faulty ELSE faulty \cup {r.attacker}
  PROVE  chainNext \in Seq(NatRules) /\ faulty' \subseteq Attackers
BY DEF TypeOK, NatRules

LEMMA Typing == IInv /\ [Next]_vars => TypeOK'
<1> SUFFICES ASSUME IInv, [Next]_vars PROVE TypeOK'
  OBVIOUS
<1> USE AgentAssumption
<1>t. /\ TypeOK /\ UpdateInv /\ ExpiredInv
      /\ command.action \in {"add", "remove"} /\ command.attacker \in Attackers
      /\ command.action = "add" => command.pod \in Pods /\ command.ttl \in Ttls
  BY CommandTypes DEF IInv, TypeOK
<1>e. <<>> \in Seq(NatRules)
  OBVIOUS
<1>1. CASE FlushPre
  BY <1>t, <1>e, <1>1 DEF TypeOK, FlushPre, Flush
<1>2. CASE FlushPost
  BY <1>t, <1>e, <1>2 DEF TypeOK, FlushPost, Flush
<1>3. CASE Receive
  BY <1>t, <1>3 DEF TypeOK, Receive
<1>4. CASE BeginAdd
  BY <1>t, <1>4 DEF TypeOK, BeginAdd, NatRules
<1>5. CASE BeginRemove
  <2>1. /\ UNCHANGED <<clock, pre, post, command, dropped, cpc, now, expired, commands,
                       crashes, faulty>>
        /\ lock' \in {lock, "main"} /\ mpc' \in {"listen", "dnat"}
    BY <1>5 DEF BeginRemove
  <2>2. active' \in [Attackers -> Entries \cup {NoRule}] /\ target' \in NatRules
    <3> DEFINE a == command.attacker
    <3>1. CASE active[a] = NoRule
      BY <1>t, <1>5, <3>1 DEF TypeOK, BeginRemove
    <3>2. CASE active[a] # NoRule
      <4>1. active[a] \in Entries
        BY <1>t, <3>2 DEF TypeOK
      <4>2. [attacker |-> a, pod |-> active[a].pod] \in NatRules
        BY <1>t, <4>1 DEF NatRules, Entries
      <4>3. /\ target' = [attacker |-> a, pod |-> active[a].pod]
            /\ active' = [active EXCEPT ![a] = NoRule]
        BY <1>5, <3>2 DEF BeginRemove
      <4> QED
        BY <1>t, <4>2, <4>3 DEF TypeOK
    <3> QED
      BY <3>1, <3>2
  <2> QED
    BY <1>t, <2>1, <2>2 DEF TypeOK
<1>6. CASE Dnat
  <2>1. (IF command.action = "add" THEN Insert(pre, target) ELSE Delete(pre, target))
           \in Seq(NatRules)
    BY <1>t, InsertEffect, DeleteEffect DEF TypeOK
  <2>2. pre' \in Seq(NatRules) /\ faulty' \subseteq Attackers
    BY <1>t, <1>6, <2>1, RunTypes DEF TypeOK, Dnat, Run
  <2> QED
    BY <1>t, <1>6, <2>2 DEF TypeOK, Dnat
<1>7. CASE Snat
  <2>1. (IF command.action = "add" THEN Insert(post, target) ELSE Delete(post, target))
           \in Seq(NatRules)
    BY <1>t, InsertEffect, DeleteEffect DEF TypeOK
  <2>2. post' \in Seq(NatRules) /\ faulty' \subseteq Attackers
    BY <1>t, <1>7, <2>1, RunTypes DEF TypeOK, Snat, Run
  <2> QED
    BY <1>t, <1>7, <2>2 DEF TypeOK, Snat
<1>8. CASE Record
  <2>1. command.action = "add"
    BY <1>t, <1>8 DEF UpdateInv, Updating, Record
  <2>2. CASE command.ttl = BadTtl
    BY <1>t, <1>8, <2>2 DEF TypeOK, Record
  <2>3. CASE command.ttl # BadTtl
    <3>1. [pod |-> command.pod, expires |-> clock + command.ttl] \in Entries
      <4>1. command.ttl \in Int /\ command.pod \in Pods /\ clock \in Nat
        BY <1>t, <2>1, <2>3 DEF TypeOK
      <4>2. clock + command.ttl \in Int
        BY <4>1
      <4> QED
        BY <4>1, <4>2 DEF Entries
    <3>2. /\ active' = [active EXCEPT ![command.attacker] =
                           [pod |-> command.pod, expires |-> clock + command.ttl]]
          /\ UNCHANGED faulty
      BY <1>8, <2>3 DEF Record
    <3>3. active' \in [Attackers -> Entries \cup {NoRule}]
      BY <1>t, <3>1, <3>2 DEF TypeOK
    <3> QED
      BY <1>t, <1>8, <3>2, <3>3 DEF TypeOK, Record
  <2> QED
    BY <2>2, <2>3
<1>9. CASE CleanerWakes
  BY <1>t, <1>9 DEF TypeOK, CleanerWakes
<1>10. CASE Scan
  BY <1>t, <1>10 DEF TypeOK, Scan, ExpiredAt
<1>11. ASSUME NEW a \in Attackers, DropExpired(a) PROVE TypeOK'
  <2>1. active[a] # NoRule
    BY <1>t, <1>11 DEF DropExpired, ExpiredInv, Cleaning
  <2>2. [attacker |-> a, pod |-> active[a].pod] \in NatRules
    BY <1>t, <2>1 DEF TypeOK, NatRules, Entries
  <2> QED
    BY <1>t, <1>11, <2>2 DEF TypeOK, DropExpired
<1>12. CASE CleanerDnat
  <2>1. Delete(pre, dropped) \in Seq(NatRules)
    BY <1>t, DeleteEffect DEF TypeOK
  <2>2. pre' \in Seq(NatRules) /\ faulty' \subseteq Attackers
    BY <1>t, <1>12, <2>1, RunTypes DEF TypeOK, CleanerDnat, Run
  <2> QED
    BY <1>t, <1>12, <2>2 DEF TypeOK, CleanerDnat
<1>13. CASE CleanerSnat
  <2>1. Delete(post, dropped) \in Seq(NatRules)
    BY <1>t, DeleteEffect DEF TypeOK
  <2>2. post' \in Seq(NatRules) /\ faulty' \subseteq Attackers
    BY <1>t, <1>13, <2>1, RunTypes DEF TypeOK, CleanerSnat, Run
  <2> QED
    BY <1>t, <1>13, <2>2 DEF TypeOK, CleanerSnat
<1>14. CASE CleanerSleeps
  BY <1>t, <1>14 DEF TypeOK, CleanerSleeps
<1>15. CASE Tick
  BY <1>t, <1>15 DEF TypeOK, Tick, agent
<1>16. CASE Crash
  BY <1>t, <1>16 DEF TypeOK, Crash
<1>17. CASE UNCHANGED vars
  BY <1>t, <1>17 DEF TypeOK, vars, agent
<1> QED
  BY <1>1, <1>2, <1>3, <1>4, <1>5, <1>6, <1>7, <1>8, <1>9, <1>10, <1>11, <1>12,
     <1>13, <1>14, <1>15, <1>16, <1>17 DEF Next, Main, Cleaner

-----------------------------------------------------------------------------
(* The lock, and what is known while a thread has it. *)

\* No step takes the lock from the thread that has it.
LEMMA Locking == IInv /\ [Next]_vars => LockInv'
<1> SUFFICES ASSUME IInv, [Next]_vars PROVE LockInv'
  OBVIOUS
<1>t. TypeOK /\ LockInv
  BY DEF IInv
<1> USE <1>t DEF TypeOK, LockInv, Updating, Cleaning
<1>1. CASE FlushPre
  BY <1>1 DEF FlushPre
<1>2. CASE FlushPost
  BY <1>2 DEF FlushPost
<1>3. CASE Receive
  BY <1>3 DEF Receive
<1>4. CASE BeginAdd
  BY <1>4 DEF BeginAdd
<1>5. CASE BeginRemove
  BY <1>5 DEF BeginRemove
<1>6. CASE Dnat
  BY <1>6 DEF Dnat
<1>7. CASE Snat
  BY <1>7 DEF Snat
<1>8. CASE Record
  BY <1>8 DEF Record
<1>9. CASE CleanerWakes
  BY <1>9 DEF CleanerWakes
<1>10. CASE Scan
  BY <1>10 DEF Scan
<1>11. ASSUME NEW a \in Attackers, DropExpired(a) PROVE LockInv'
  BY <1>11 DEF DropExpired
<1>12. CASE CleanerDnat
  BY <1>12 DEF CleanerDnat
<1>13. CASE CleanerSnat
  BY <1>13 DEF CleanerSnat
<1>14. CASE CleanerSleeps
  BY <1>14 DEF CleanerSleeps
<1>15. CASE Tick
  BY <1>15 DEF Tick, agent
<1>16. CASE Crash
  BY <1>16 DEF Crash
<1>17. CASE UNCHANGED vars
  BY <1>17 DEF vars, agent
<1> QED
  BY <1>1, <1>2, <1>3, <1>4, <1>5, <1>6, <1>7, <1>8, <1>9, <1>10, <1>11, <1>12,
     <1>13, <1>14, <1>15, <1>16, <1>17 DEF Next, Main, Cleaner

\* No step revives an entry that the cleanup thread found expired.
LEMMA Expiring == IInv /\ [Next]_vars => ExpiredInv'
<1> SUFFICES ASSUME IInv, [Next]_vars PROVE ExpiredInv'
  OBVIOUS
<1>t. TypeOK /\ LockInv /\ ExpiredInv
  BY DEF IInv
<1> USE <1>t DEF TypeOK, LockInv, ExpiredInv, Updating, Cleaning, ExpiredAt
<1>1. CASE FlushPre
  BY <1>1 DEF FlushPre
<1>2. CASE FlushPost
  BY <1>2 DEF FlushPost
<1>3. CASE Receive
  BY <1>3 DEF Receive
<1>4. CASE BeginAdd
  BY <1>4 DEF BeginAdd
<1>5. CASE BeginRemove
  BY <1>5 DEF BeginRemove
<1>6. CASE Dnat
  BY <1>6 DEF Dnat
<1>7. CASE Snat
  BY <1>7 DEF Snat
<1>8. CASE Record
  BY <1>8 DEF Record
<1>9. CASE CleanerWakes
  BY <1>9 DEF CleanerWakes
<1>10. CASE Scan
  BY <1>10 DEF Scan
<1>11. ASSUME NEW a \in Attackers, DropExpired(a) PROVE ExpiredInv'
  BY <1>11 DEF DropExpired
<1>12. CASE CleanerDnat
  BY <1>12 DEF CleanerDnat
<1>13. CASE CleanerSnat
  BY <1>13 DEF CleanerSnat
<1>14. CASE CleanerSleeps
  BY <1>14 DEF CleanerSleeps
<1>15. CASE Tick
  BY <1>15 DEF Tick, agent
<1>16. CASE Crash
  BY <1>16 DEF Crash
<1>17. CASE UNCHANGED vars
  BY <1>17 DEF vars, agent
<1> QED
  BY <1>1, <1>2, <1>3, <1>4, <1>5, <1>6, <1>7, <1>8, <1>9, <1>10, <1>11, <1>12,
     <1>13, <1>14, <1>15, <1>16, <1>17 DEF Next, Main, Cleaner

\* No step changes what an update is about.
LEMMA UpdatingStep == IInv /\ [Next]_vars => UpdateInv'
<1> SUFFICES ASSUME IInv, [Next]_vars PROVE UpdateInv'
  OBVIOUS
<1>t. TypeOK /\ LockInv /\ UpdateInv /\ command.action \in {"add", "remove"}
  BY CommandTypes DEF IInv, TypeOK
<1> USE <1>t DEF TypeOK, LockInv, UpdateInv, Updating, Cleaning
<1>1. CASE FlushPre
  BY <1>1 DEF FlushPre
<1>2. CASE FlushPost
  BY <1>2 DEF FlushPost
<1>3. CASE Receive
  BY <1>3 DEF Receive
<1>4. CASE BeginAdd
  BY <1>4 DEF BeginAdd
<1>5. CASE BeginRemove
  <2>1. command.attacker \in Attackers /\ cpc \notin {"dnat", "snat"}
    BY <1>5, CommandTypes DEF BeginRemove
  <2>2. CASE active[command.attacker] = NoRule
    BY <1>5, <2>1, <2>2 DEF BeginRemove
  <2>3. CASE active[command.attacker] # NoRule
    <3>1. /\ mpc' = "dnat" /\ UNCHANGED <<command, cpc>>
          /\ target'.attacker = command.attacker
          /\ active'[command.attacker] = NoRule
      BY <1>5, <2>1, <2>3 DEF BeginRemove
    <3> QED
      BY <1>5, <2>1, <3>1 DEF BeginRemove
  <2> QED
    BY <2>2, <2>3
<1>6. CASE Dnat
  BY <1>6 DEF Dnat
<1>7. CASE Snat
  BY <1>7 DEF Snat
<1>8. CASE Record
  BY <1>8 DEF Record
<1>9. CASE CleanerWakes
  BY <1>9 DEF CleanerWakes
<1>10. CASE Scan
  BY <1>10 DEF Scan
<1>11. ASSUME NEW a \in Attackers, DropExpired(a) PROVE UpdateInv'
  BY <1>11 DEF DropExpired
<1>12. CASE CleanerDnat
  BY <1>12 DEF CleanerDnat
<1>13. CASE CleanerSnat
  BY <1>13 DEF CleanerSnat
<1>14. CASE CleanerSleeps
  BY <1>14 DEF CleanerSleeps
<1>15. CASE Tick
  BY <1>15 DEF Tick, agent
<1>16. CASE Crash
  BY <1>16 DEF Crash
<1>17. CASE UNCHANGED vars
  BY <1>17 DEF vars, agent
<1> QED
  BY <1>1, <1>2, <1>3, <1>4, <1>5, <1>6, <1>7, <1>8, <1>9, <1>10, <1>11, <1>12,
     <1>13, <1>14, <1>15, <1>16, <1>17 DEF Next, Main, Cleaner

-----------------------------------------------------------------------------
(* Attackers are led where their entries say. *)

\* A command about one attacker's rule, done or failed, leaves the others' alone.
LEMMA OthersLed ==
  ASSUME NEW s \in Seq(NatRules), NEW r \in NatRules,
         NEW t \in {s, Insert(s, r), Delete(s, r)},
         NEW a \in Attackers \ {r.attacker}, NEW x, x.attacker = a
  PROVE  /\ FirstIs(s, RulesOf(a), x) => FirstIs(t, RulesOf(a), x)
         /\ Contains(s, x) => Contains(t, x)
<1>1. x # r
  OBVIOUS
<1> QED
  BY <1>1, InsertEffect, DeleteEffect

LEMMA Leading == IInv /\ [Next]_vars => LedInv'
<1> SUFFICES ASSUME IInv, [Next]_vars, NEW a \in Attackers, a \notin faulty'
             PROVE  Led(a)'
  BY DEF LedInv
<1>t. /\ TypeOK /\ LockInv /\ UpdateInv /\ LedInv
      /\ command.action \in {"add", "remove"} /\ command.attacker \in Attackers
      /\ a \notin faulty => Led(a)
  BY CommandTypes DEF IInv, TypeOK, LedInv
<1> USE <1>t DEF Led, RuleOf, DnatInserted, SnatInserted
<1>1. CASE FlushPre
  BY <1>1 DEF FlushPre, LockInv
<1>2. CASE FlushPost
  BY <1>2 DEF FlushPost, LockInv
<1>3. CASE Receive
  BY <1>3 DEF Receive
<1>4. CASE BeginAdd
  BY <1>4 DEF BeginAdd
<1>5. CASE BeginRemove
  <2>1. active'[a] \in {NoRule, active[a]}
    BY <1>5 DEF BeginRemove, TypeOK
  <2>2. /\ UNCHANGED <<pre, post, faulty>>
        /\ mpc \notin {"snat", "record"} /\ mpc' \notin {"snat", "record"}
    BY <1>5 DEF BeginRemove
  <2> QED
    BY <2>1, <2>2
<1>6. CASE Dnat
  <2>1. /\ target \in NatRules /\ pre \in Seq(NatRules)
        /\ UNCHANGED <<active, post, command, target>> /\ mpc = "dnat" /\ mpc' = "snat"
    BY <1>6 DEF Dnat, TypeOK
  <2>2. PICK ok \in CommandOutcomes :
          /\ pre' = IF ok THEN IF command.action = "add" THEN Insert(pre, target)
                                                         ELSE Delete(pre, target)
                    ELSE pre
          /\ faulty' = IF ok THEN faulty ELSE faulty \cup {target.attacker}
    BY <1>6 DEF Dnat, Run
  <2>3. a \notin faulty /\ (a = target.attacker => ok)
    BY <2>2
  <2>4. CASE a # target.attacker
    <3>1. pre' \in {pre, Insert(pre, target), Delete(pre, target)}
      BY <2>2
    <3>2. ~DnatInserted(a) /\ ~DnatInserted(a)'
      BY <2>1, <2>4 DEF UpdateInv, Updating
    <3>3. FirstIs(pre, RulesOf(a), RuleOf(a)) => FirstIs(pre', RulesOf(a), RuleOf(a))
      BY <2>1, <2>4, <3>1, OthersLed
    <3> QED
      BY <2>1, <2>3, <3>2, <3>3
  <2>5. CASE a = target.attacker /\ command.action = "add"
    <3>1. FirstIs(pre', RulesOf(a), target)
      BY <2>1, <2>2, <2>3, <2>5, InsertEffect
    <3>2. command.attacker = a
      BY <2>1, <2>5 DEF UpdateInv, Updating
    <3> QED
      BY <2>1, <2>5, <3>1, <3>2
  <2>6. CASE a = target.attacker /\ command.action = "remove"
    BY <2>1, <2>6 DEF UpdateInv, Updating
  <2> QED
    BY <2>4, <2>5, <2>6
<1>7. CASE Snat
  <2>1. /\ target \in NatRules /\ post \in Seq(NatRules)
        /\ UNCHANGED <<active, pre, command, target>> /\ mpc = "snat"
        /\ mpc' = IF command.action = "add" THEN "record" ELSE "listen"
    BY <1>7 DEF Snat, TypeOK
  <2>2. PICK ok \in CommandOutcomes :
          /\ post' = IF ok THEN IF command.action = "add" THEN Insert(post, target)
                                                          ELSE Delete(post, target)
                     ELSE post
          /\ faulty' = IF ok THEN faulty ELSE faulty \cup {target.attacker}
    BY <1>7 DEF Snat, Run
  <2>3. a \notin faulty /\ (a = target.attacker => ok)
    BY <2>2
  <2>4. CASE a # target.attacker
    <3>1. post' \in {post, Insert(post, target), Delete(post, target)}
      BY <2>2
    <3>2. ~DnatInserted(a) /\ ~DnatInserted(a)'
      BY <2>1, <2>4 DEF UpdateInv, Updating
    <3>3. Contains(post, RuleOf(a)) => Contains(post', RuleOf(a))
      BY <2>1, <2>4, <3>1, OthersLed
    <3> QED
      BY <2>1, <2>3, <3>2, <3>3
  <2>5. CASE a = target.attacker /\ command.action = "add"
    <3>1. Contains(post', target)
      BY <2>1, <2>2, <2>3, <2>5, InsertEffect
    <3>2. command.attacker = a
      BY <2>1, <2>5 DEF UpdateInv, Updating
    <3> QED
      BY <2>1, <2>3, <2>5, <3>1, <3>2
  <2>6. CASE a = target.attacker /\ command.action = "remove"
    BY <2>1, <2>6 DEF UpdateInv, Updating
  <2> QED
    BY <2>4, <2>5, <2>6
<1>8. CASE Record
  <2>1. /\ UNCHANGED <<pre, post, target>> /\ mpc = "record" /\ mpc' = "listen"
        /\ command.action = "add"
        /\ target = [attacker |-> command.attacker, pod |-> command.pod]
    BY <1>8 DEF Record, UpdateInv, Updating
  <2>2. CASE a # command.attacker
    <3>1. active'[a] = active[a] /\ a \notin faulty
      BY <1>8, <2>2 DEF Record, TypeOK
    <3> QED
      BY <2>1, <2>2, <3>1
  <2>3. CASE a = command.attacker
    <3>1. active'[a].pod = command.pod /\ a \notin faulty
      BY <1>8, <2>3 DEF Record, TypeOK
    <3> QED
      BY <2>1, <2>3, <3>1
  <2> QED
    BY <2>2, <2>3
<1>9. CASE CleanerWakes
  BY <1>9 DEF CleanerWakes
<1>10. CASE Scan
  BY <1>10 DEF Scan
<1>11. ASSUME NEW b \in Attackers, DropExpired(b) PROVE Led(a)'
  <2>1. active'[a] \in {NoRule, active[a]}
    BY <1>11 DEF DropExpired, TypeOK
  <2> QED
    BY <1>11, <2>1 DEF DropExpired
<1>12. CASE CleanerDnat
  <2>1. /\ dropped \in NatRules /\ pre \in Seq(NatRules) /\ active[dropped.attacker] = NoRule
        /\ UNCHANGED <<active, post, mpc, command, target>> /\ mpc \notin {"snat", "record"}
    BY <1>12 DEF CleanerDnat, TypeOK, UpdateInv, LockInv, Updating, Cleaning
  <2>2. pre' \in {pre, Delete(pre, dropped)} /\ a \notin faulty
    BY <1>12 DEF CleanerDnat, Run
  <2>3. CASE active[a] # NoRule
    <3>1. FirstIs(pre', RulesOf(a), RuleOf(a))
      BY <2>1, <2>2, <2>3, OthersLed
    <3> QED
      BY <2>1, <2>2, <3>1
  <2> QED
    BY <2>1, <2>3
<1>13. CASE CleanerSnat
  <2>1. /\ dropped \in NatRules /\ post \in Seq(NatRules) /\ active[dropped.attacker] = NoRule
        /\ UNCHANGED <<active, pre, mpc, command, target>> /\ mpc \notin {"snat", "record"}
    BY <1>13 DEF CleanerSnat, TypeOK, UpdateInv, LockInv, Updating, Cleaning
  <2>2. post' \in {post, Delete(post, dropped)} /\ a \notin faulty
    BY <1>13 DEF CleanerSnat, Run
  <2>3. CASE active[a] # NoRule
    <3>1. Contains(post', RuleOf(a))
      BY <2>1, <2>2, <2>3, OthersLed
    <3> QED
      BY <2>1, <2>2, <3>1
  <2> QED
    BY <2>1, <2>3
<1>14. CASE CleanerSleeps
  BY <1>14 DEF CleanerSleeps
<1>15. CASE Tick
  BY <1>15 DEF Tick, agent
<1>16. CASE Crash
  BY <1>16 DEF Crash
<1>17. CASE UNCHANGED vars
  BY <1>17 DEF vars, agent
<1> QED
  BY <1>1, <1>2, <1>3, <1>4, <1>5, <1>6, <1>7, <1>8, <1>9, <1>10, <1>11, <1>12,
     <1>13, <1>14, <1>15, <1>16, <1>17 DEF Next, Main, Cleaner

-----------------------------------------------------------------------------
(* The chains are going to agree. *)

LEMMA Agreeing == IInv /\ [Next]_vars => AgreeInv'
<1> SUFFICES ASSUME IInv, [Next]_vars, faulty' = {}
             PROVE  /\ mpc' = "flushPost" => pre' = <<>>
                    /\ mpc' \notin {"flushPre", "flushPost"} => SameRules(pre, PostToBe)'
  BY DEF AgreeInv
<1>t. /\ TypeOK /\ LockInv /\ UpdateInv /\ command.action \in {"add", "remove"}
      /\ pre \in Seq(NatRules) /\ post \in Seq(NatRules)
      /\ target \in NatRules /\ dropped \in NatRules
  BY CommandTypes DEF IInv, TypeOK
<1>a. faulty = {} => /\ mpc = "flushPost" => pre = <<>>
                     /\ mpc \notin {"flushPre", "flushPost"} => SameRules(pre, PostToBe)
  BY DEF IInv, AgreeInv
<1>m. ASSUME faulty = {}, mpc \notin {"flushPre", "flushPost"},
             mpc' \notin {"flushPre", "flushPost"}, pre' = pre, PostToBe' = PostToBe
      PROVE  SameRules(pre, PostToBe)'
  BY <1>a, <1>m DEF SameRules
<1>c. mpc \notin {"dnat", "snat", "record"} \/ cpc \notin {"loop", "dnat", "snat"}
  BY <1>t DEF LockInv, Updating, Cleaning
<1>1. CASE FlushPre
  <2>1. pre' = <<>>
    BY <1>1, AgentAssumption DEF FlushPre, Flush
  <2> QED
    BY <1>1, <2>1 DEF FlushPre
<1>2. CASE FlushPost
  <2>1. faulty = {} /\ post' = <<>>
    BY <1>2, AgentAssumption DEF FlushPost, Flush
  <2>2. pre' = <<>> /\ mpc' = "listen" /\ cpc' = "sleep"
    BY <1>2, <1>a, <2>1 DEF FlushPost
  <2> QED
    BY <2>1, <2>2 DEF SameRules, PostToBe
<1>3. CASE Receive
  BY <1>3, <1>m DEF Receive, PostToBe
<1>4. CASE BeginAdd
  BY <1>t, <1>4, <1>m DEF BeginAdd, PostToBe, LockInv, Cleaning
<1>5. CASE BeginRemove
  <2>1. /\ mpc = "lock" /\ mpc' \in {"listen", "dnat"} /\ cpc # "snat"
        /\ UNCHANGED <<pre, post, cpc, faulty>>
    BY <1>t, <1>5 DEF BeginRemove, LockInv, Cleaning
  <2>2. PostToBe' = PostToBe
    BY <2>1 DEF PostToBe
  <2> QED
    BY <1>m, <2>1, <2>2
<1>6. CASE Dnat
  <2>1. /\ mpc = "dnat" /\ mpc' = "snat" /\ cpc # "snat"
        /\ UNCHANGED <<post, command, target, cpc>>
    BY <1>6, <1>c DEF Dnat
  <2>2. /\ faulty = {}
        /\ pre' = IF command.action = "add" THEN Insert(pre, target)
                                            ELSE Delete(pre, target)
    BY <1>6 DEF Dnat, Run
  <2>3. SameRules(pre, post)
    BY <1>a, <2>1, <2>2 DEF PostToBe
  <2>4. /\ SameRules(Insert(pre, target), Insert(post, target))
        /\ SameRules(Delete(pre, target), Delete(post, target))
    BY <1>t, <2>3, SameAfter
  <2>5. PostToBe' = IF command.action = "add" THEN Insert(post, target)
                                              ELSE Delete(post, target)
    BY <2>1 DEF PostToBe, Insert, Delete
  <2>6. SameRules(pre', PostToBe')
    BY <2>2, <2>4, <2>5
  <2> QED
    BY <2>1, <2>6 DEF SameRules
<1>7. CASE Snat
  <2>1. /\ mpc = "snat" /\ mpc' \in {"record", "listen"} /\ cpc # "snat"
        /\ UNCHANGED <<pre, command, target, cpc>>
    BY <1>7, <1>c DEF Snat
  <2>2. /\ faulty = {}
        /\ post' = IF command.action = "add" THEN Insert(post, target)
                                             ELSE Delete(post, target)
    BY <1>7 DEF Snat, Run
  <2>3. PostToBe' = PostToBe
    BY <2>1, <2>2 DEF PostToBe
  <2> QED
    BY <1>m, <2>1, <2>2, <2>3
<1>8. CASE Record
  <2>1. mpc = "record" /\ mpc' = "listen" /\ UNCHANGED <<pre, post, cpc>> /\ cpc # "snat"
    BY <1>8, <1>c DEF Record
  <2>2. faulty = {}
    BY <1>8 DEF Record
  <2>3. PostToBe' = PostToBe
    BY <2>1 DEF PostToBe
  <2> QED
    BY <1>m, <2>1, <2>2, <2>3
<1>9. CASE CleanerWakes
  <2>1. PostToBe' = PostToBe
    BY <1>9 DEF CleanerWakes, PostToBe, Insert, Delete
  <2> QED
    BY <1>t, <1>9, <1>m, <2>1 DEF CleanerWakes, LockInv
<1>10. CASE Scan
  <2>1. PostToBe' = PostToBe
    BY <1>10 DEF Scan, PostToBe, Insert, Delete
  <2> QED
    BY <1>t, <1>10, <1>m, <2>1 DEF Scan, LockInv
<1>11. ASSUME NEW a \in Attackers, DropExpired(a)
       PROVE  mpc' \notin {"flushPre", "flushPost"} /\ SameRules(pre, PostToBe)'
  <2>1. /\ cpc = "loop" /\ cpc' = "dnat" /\ UNCHANGED <<pre, post, mpc, faulty>>
        /\ mpc \notin {"flushPre", "flushPost", "snat"}
    BY <1>t, <1>11, <1>c DEF DropExpired, LockInv
  <2>2. PostToBe' = PostToBe
    BY <2>1 DEF PostToBe
  <2> QED
    BY <1>m, <2>1, <2>2
<1>12. CASE CleanerDnat
  <2>1. /\ cpc = "dnat" /\ cpc' = "snat" /\ UNCHANGED <<post, mpc, dropped>>
        /\ mpc \notin {"flushPre", "flushPost", "snat"}
    BY <1>t, <1>12, <1>c DEF CleanerDnat, LockInv
  <2>2. faulty = {} /\ pre' = Delete(pre, dropped)
    BY <1>12 DEF CleanerDnat, Run
  <2>3. SameRules(pre, post)
    BY <1>a, <2>1, <2>2 DEF PostToBe
  <2>4. SameRules(Delete(pre, dropped), Delete(post, dropped))
    BY <1>t, <2>3, SameAfter
  <2>5. PostToBe' = Delete(post, dropped)
    BY <2>1 DEF PostToBe, Delete
  <2>6. SameRules(pre', PostToBe')
    BY <2>2, <2>4, <2>5
  <2> QED
    BY <2>1, <2>6 DEF SameRules
<1>13. CASE CleanerSnat
  <2>1. /\ cpc = "snat" /\ cpc' = "loop" /\ UNCHANGED <<pre, mpc, dropped>>
        /\ mpc \notin {"flushPre", "flushPost", "snat"}
    BY <1>t, <1>13, <1>c DEF CleanerSnat, LockInv
  <2>2. faulty = {} /\ post' = Delete(post, dropped)
    BY <1>13 DEF CleanerSnat, Run
  <2>3. PostToBe' = PostToBe
    BY <2>1, <2>2 DEF PostToBe
  <2> QED
    BY <1>m, <2>1, <2>2, <2>3
<1>14. CASE CleanerSleeps
  <2>1. /\ cpc = "loop" /\ cpc' = "sleep" /\ UNCHANGED <<pre, post, mpc, faulty>>
        /\ mpc \notin {"flushPre", "flushPost", "snat"}
    BY <1>t, <1>14, <1>c DEF CleanerSleeps, LockInv
  <2>2. PostToBe' = PostToBe
    BY <2>1 DEF PostToBe
  <2> QED
    BY <1>m, <2>1, <2>2
<1>15. CASE Tick
  <2>1. PostToBe' = PostToBe /\ UNCHANGED <<pre, mpc, faulty>>
    BY <1>15 DEF Tick, agent, PostToBe, Insert, Delete
  <2> QED
    BY <1>a, <1>m, <2>1
<1>16. CASE Crash
  BY <1>16 DEF Crash
<1>17. CASE UNCHANGED vars
  <2>1. PostToBe' = PostToBe /\ UNCHANGED <<pre, mpc, faulty>>
    BY <1>17 DEF vars, agent, PostToBe, Insert, Delete
  <2> QED
    BY <1>a, <1>m, <2>1
<1> QED
  BY <1>1, <1>2, <1>3, <1>4, <1>5, <1>6, <1>7, <1>8, <1>9, <1>10, <1>11, <1>12,
     <1>13, <1>14, <1>15, <1>16, <1>17 DEF Next, Main, Cleaner

-----------------------------------------------------------------------------
(* The theorems. *)

LEMMA InitInv == Init => IInv
<1> SUFFICES ASSUME Init PROVE IInv
  OBVIOUS
<1> USE AgentAssumption
<1>1. \E a \in Attackers, p \in Pods :
        /\ [action |-> "remove", attacker |-> a] \in Commands
        /\ [attacker |-> a, pod |-> p] \in NatRules
  BY DEF Commands, NatRules
<1>2. (CHOOSE m \in Commands : TRUE) \in Commands
  BY <1>1
<1>3. (CHOOSE r \in NatRules : TRUE) \in NatRules
  BY <1>1
<1>4. <<>> \in Seq(NatRules)
  OBVIOUS
<1>5. TypeOK
  BY <1>2, <1>3, <1>4 DEF Init, TypeOK
<1>6. LockInv /\ ExpiredInv /\ UpdateInv
  BY DEF Init, LockInv, ExpiredInv, UpdateInv, Updating, Cleaning
<1>7. LedInv /\ AgreeInv
  BY DEF Init, LedInv, Led, DnatInserted, SnatInserted, AgreeInv
<1> QED
  BY <1>5, <1>6, <1>7 DEF IInv

LEMMA Invariance == Spec => []IInv
<1>1. IInv /\ [Next]_vars => IInv'
  BY Typing, Locking, Expiring, UpdatingStep, Leading, Agreeing DEF IInv
<1> QED
  BY InitInv, <1>1, PTL DEF Spec

(***************************************************************************)
(* The agent's variables range over the values the code can give them: an  *)
(* expired entry is still there when its rule is read from it, and a ttl   *)
(* that int() refuses is never stored (agent.py:101-104, 127-131).         *)
(***************************************************************************)
THEOREM TypeCorrect == Spec => []TypeOK
<1>1. IInv => TypeOK
  BY DEF IInv
<1> QED
  BY Invariance, <1>1, PTL

(***************************************************************************)
(* Between updates, every attacker with an entry, none of whose commands   *)
(* failed, is led to the honeypod of that entry, in both chains: however   *)
(* often it was redirected, whatever expired or was removed, and after     *)
(* any number of crashes (agent.py:63-64, 98-118, 120-138).                *)
(***************************************************************************)
THEOREM RedirectedAsRecordedAlways == Spec => []RedirectedAsRecorded
<1>1. IInv => RedirectedAsRecorded
  <2> SUFFICES ASSUME IInv, Quiet, NEW a \in Attackers \ faulty, active[a] # NoRule
               PROVE  FirstMatch(pre, a) = {RuleOf(a)} /\ Contains(post, RuleOf(a))
    BY DEF RedirectedAsRecorded, RuleOf
  <2>1. ~DnatInserted(a)
    BY DEF IInv, LockInv, Quiet, Updating, DnatInserted
  <2>2. FirstIs(pre, RulesOf(a), RuleOf(a)) /\ Contains(post, RuleOf(a))
    BY <2>1 DEF IInv, LedInv, Led
  <2>3. pre \in Seq(NatRules)
    BY DEF IInv, TypeOK
  <2> QED
    BY <2>2, <2>3, FirstIsMatch
<1> QED
  BY Invariance, <1>1, PTL

(***************************************************************************)
(* Between updates, the two chains hold the same rules, each as often, as  *)
(* long as no command failed (agent.py:54-81).                             *)
(***************************************************************************)
THEOREM ChainsAgreeAlways == Spec => []ChainsAgree
<1>1. IInv => ChainsAgree
  <2> SUFFICES ASSUME IInv, Quiet, faulty = {} PROVE ToBag(pre) = ToBag(post)
    BY DEF ChainsAgree
  <2>1. PostToBe = post
    BY DEF IInv, LockInv, Quiet, Updating, Cleaning, PostToBe
  <2>2. SameRules(pre, post)
    BY <2>1 DEF IInv, AgreeInv, Quiet
  <2>3. pre \in Seq(NatRules) /\ post \in Seq(NatRules)
    BY DEF IInv, TypeOK
  <2> QED
    BY <2>2, <2>3, SameBag
<1> QED
  BY Invariance, <1>1, PTL

(***************************************************************************)
(* The cleanup thread drops an entry only when it has expired, though it   *)
(* read the time before it waited for the lock and the list of expired     *)
(* entries before it worked through it (agent.py:123-133).                 *)
(***************************************************************************)
THEOREM NeverDroppedEarlyAlways == Spec => NeverDroppedEarly
<1> DEFINE A(a) == (cpc = "loop" /\ cpc' = "dnat" /\ active'[a] # active[a])
                     => active[a] # NoRule /\ clock > active[a].expires
<1>1. IInv /\ [Next]_vars => [\A a \in Attackers : A(a)]_vars
  <2> SUFFICES ASSUME IInv, Next, NEW a \in Attackers,
                      cpc = "loop", cpc' = "dnat", active'[a] # active[a]
               PROVE  active[a] # NoRule /\ clock > active[a].expires
    OBVIOUS
  <2>1. ~Main /\ ~Tick /\ ~Crash
    BY DEF Main, FlushPre, FlushPost, Receive, BeginAdd, BeginRemove, Dnat, Snat,
           Record, Tick, agent, Crash
  <2>2. PICK b \in Attackers : DropExpired(b)
    BY <2>1 DEF Next, Cleaner, CleanerWakes, Scan, CleanerDnat, CleanerSnat, CleanerSleeps
  <2>3. b = a
    BY <2>2 DEF DropExpired, IInv, TypeOK
  <2>4. a \in expired
    BY <2>2, <2>3 DEF DropExpired
  <2>5. active[a] # NoRule /\ now > active[a].expires /\ now <= clock
    BY <2>4 DEF IInv, ExpiredInv, Cleaning
  <2>6. active[a].expires \in Int /\ now \in Int /\ clock \in Int
    BY <2>5 DEF IInv, TypeOK, Entries
  <2> QED
    BY <2>5, <2>6
<1> QED
  BY Invariance, <1>1, PTL DEF Spec, NeverDroppedEarly
=============================================================================
