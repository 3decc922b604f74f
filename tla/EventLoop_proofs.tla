-------------------------- MODULE EventLoop_proofs --------------------------
(***************************************************************************)
(* Proofs about the decision loop, for any attackers, deadlines, memory    *)
(* and batch sizes: the type invariant, RememberedOnce, Chained,           *)
(* JudgedOnce and HitsAreTrained.                                          *)
(*                                                                         *)
(* The invariant speaks of the memory m, the pending deployments D, the    *)
(* pending transitions T and the number e of events: operators of these,   *)
(* because an event takes them through up to four steps (complete, store,  *)
(* reward, maintain), each of which keeps it.  What Chained needs is that  *)
(* a pending transition is the newest decision of its attacker, and that   *)
(* no decision that may still be penalised lies between the two of a       *)
(* completed transition.                                                   *)
(***************************************************************************)
EXTENDS EventLoop, CommonLemmas

\* What is pending was decided for this attacker, in one of the first e events.
PendingInv(D, T, e) ==
  \A ip \in IPs :
    /\ D[ip] # None => D[ip].state[1] = ip /\ D[ip].state[2] <= e
    /\ T[ip] # None => /\ T[ip].state[1] = ip /\ T[ip].state[2] <= e
                       /\ T[ip].reward \in {0, CooldownPenalty}

\* Every decision remembered was made in one of the first e events.
MadeInv(m, e) == \A i \in 1 .. Len(m) : m[i].state[2] <= e

\* A pending transition is the newest decision of its attacker.
LatestInv(m, D, T) ==
  \A ip \in IPs : T[ip] # None =>
    /\ D[ip] # None => D[ip].state[2] <= T[ip].state[2]
    /\ \A i \in 1 .. Len(m) : m[i].state[1] = ip => m[i].state[2] <= T[ip].state[2]

\* A transition that was completed leads on, or was a hit.
ForwardInv(m, e) ==
  \A i \in 1 .. Len(m) : ~m[i].done =>
    /\ m[i].next[1] = m[i].state[1] /\ m[i].next[2] <= e
    /\ m[i].state[2] < m[i].next[2] \/ (m[i].next = m[i].state /\ IsHit(m[i]))

\* RememberedOnce.
OnceInv(m, T) ==
  \A i \in 1 .. Len(m) : ~IsPenalty(m[i]) =>
    /\ \A j \in 1 .. Len(m) : ~IsPenalty(m[j]) /\ m[j].state = m[i].state => i = j
    /\ \A ip \in IPs : T[ip] # None => m[i].state # T[ip].state

\* The state u lies between those of the completed transition x.
Between(u, x) == ~x.done /\ u[1] = x.state[1] /\ x.state[2] < u[2] /\ u[2] < x.next[2]

\* No decision, remembered or pending, lies between those of a completed one.
GapInv(m, D, T) ==
  \A i \in 1 .. Len(m) :
    /\ \A j \in 1 .. Len(m) : ~Between(m[j].state, m[i])
    /\ \A ip \in IPs : /\ D[ip] # None => ~Between(D[ip].state, m[i])
                       /\ T[ip] # None => ~Between(T[ip].state, m[i])

\* JudgedOnce, where n deployments succeeded.
Verdicts == {x \in Experiences : IsPenalty(x) \/ IsHit(x)}
WaitingIn(D) == {ip \in IPs : D[ip] # None}
JudgedInv(m, D, n) == Count(m, Verdicts) + Cardinality(WaitingIn(D)) <= n

\* The replay memory holds the newest experiences.
ReplayInv(a, m) == Len(a.replay) = IF Len(m) <= Capacity THEN Len(m) ELSE Capacity

\* The target network was copied at a multiple of TargetEvery steps.
InPhase(a) == \E k \in Nat : a.target = k * TargetEvery

Pendings == [state : States, time : Nat] \cup {None}
Decisions == [state : States, action : {"wait", "deploy"}, reward : Rewards, time : Nat]
Transitions == Decisions \cup {None}

\* The learner: agent a, memory m, and what is pending.
LearnerType(a, m, D, T) ==
  /\ a \in Agents(Experiences) /\ InPhase(a) /\ ReplayInv(a, m)
  /\ m \in Seq(Experiences) /\ D \in [IPs -> Pendings] /\ T \in [IPs -> Transitions]

MemoryInv(m, D, T, e, n) ==
  /\ PendingInv(D, T, e)
  /\ MadeInv(m, e)
  /\ LatestInv(m, D, T)
  /\ ForwardInv(m, e)
  /\ OnceInv(m, T)
  /\ GapInv(m, D, T)
  /\ JudgedInv(m, D, n)

LearnerInv(a, m, D, T, e, n) == LearnerType(a, m, D, T) /\ MemoryInv(m, D, T, e, n)

IInv == TypeOK /\ LearnerInv(agent, memory, deploys, transitions, events, triggered)

-----------------------------------------------------------------------------
(* The learning agent. *)

\* The steps of train_batch, as a function of their number.
After(f, a, n) == f = [i \in 0 .. n |-> IF i = 0 THEN a ELSE Replayed(f[i - 1])]

LEMMA AfterExists == ASSUME NEW a, NEW n \in Nat PROVE \E f : After(f, a, n)
<1> DEFINE S == {k \in Nat : \E f : After(f, a, k)}
<1>1. 0 \in S
  <2>1. After([i \in 0 .. 0 |-> a], a, 0)
    BY DEF After
  <2> QED
    BY <2>1
<1>2. ASSUME NEW k \in 0 .. n - 1, k \in S PROVE k + 1 \in S
  <2>1. PICK f : After(f, a, k)
    BY <1>2
  <2> DEFINE g == [i \in 0 .. k + 1 |-> IF i = k + 1 THEN Replayed(f[k]) ELSE f[i]]
  <2>2. k \in Nat /\ k + 1 \in Nat /\ k + 1 # 0 /\ (k + 1) - 1 = k
    OBVIOUS
  <2>3. ASSUME NEW i \in 0 .. k + 1
        PROVE  g[i] = IF i = 0 THEN a ELSE Replayed(g[i - 1])
    <3>1. CASE i = k + 1
      <4>1. k \in 0 .. k + 1 /\ k # k + 1 /\ i # 0 /\ i - 1 = k
        BY <2>2, <3>1
      <4>2. g[k] = f[k]
        BY <4>1
      <4> QED
        BY <3>1, <4>1, <4>2
    <3>2. CASE i # k + 1
      <4>1. i \in 0 .. k /\ g[i] = f[i]
        BY <2>2, <3>2
      <4>2. CASE i = 0
        BY <2>1, <4>1, <4>2 DEF After
      <4>3. CASE i # 0
        <5>1. i - 1 \in 0 .. k + 1 /\ i - 1 # k + 1
          BY <2>2, <4>1, <4>3
        <5>2. g[i - 1] = f[i - 1]
          BY <5>1
        <5>3. f[i] = Replayed(f[i - 1])
          BY <2>1, <4>1, <4>3 DEF After
        <5> QED
          BY <4>1, <4>3, <5>2, <5>3
      <4> QED
        BY <4>2, <4>3
    <3> QED
      BY <3>1, <3>2
  <2> HIDE DEF g
  <2>4. g = [i \in 0 .. k + 1 |-> g[i]]
    BY DEF g
  <2>5. After(g, a, k + 1)
    BY <2>3, <2>4 DEF After
  <2> QED
    BY <2>2, <2>5
<1> HIDE DEF S
<1>3. n \in 0 .. n /\ \A k \in 0 .. n : k \in S
  BY <1>1, <1>2, UpTo
<1> QED
  BY <1>3 DEF S

LEMMA TrainedAfter ==
  ASSUME NEW a, NEW n \in Nat
  PROVE  \E f : After(f, a, n) /\ Trained(a, n) = f[n]
<1>1. PICK g : After(g, a, n)
  BY AfterExists
<1> DEFINE h == CHOOSE f : f = [i \in 0 .. n |-> IF i = 0 THEN a ELSE Replayed(f[i - 1])]
<1>2. h = [i \in 0 .. n |-> IF i = 0 THEN a ELSE Replayed(h[i - 1])]
  BY <1>1 DEF After
<1>3. Trained(a, n) = h[n]
  BY DEF Trained
<1> HIDE DEF h
<1> QED
  BY <1>2, <1>3 DEF After

\* A multiple of TargetEvery steps after another one leaves no remainder.
LEMMA NextMultiple ==
  ASSUME NEW k \in Nat, NEW n \in Nat, n = (k + 1) * TargetEvery
  PROVE  n % TargetEvery = 0
<1> DEFINE T == TargetEvery
           q == n \div T
           r == n % T
<1>1. T \in Nat \ {0}
  BY LearningAssumption
<1>2. q \in Int /\ r \in 0 .. T - 1 /\ n = T * q + r
  BY <1>1
<1> HIDE DEF q, r, T
<1> DEFINE d == k + 1 - q
<1>3. d \in Int /\ T * d = r
  BY <1>1, <1>2 DEF T
<1> HIDE DEF d
<1>4. d = 0
  <2>1. CASE d >= 1
    <3>1. T * d >= T
      BY <1>1, <1>3, <2>1
    <3> QED
      BY <1>1, <1>2, <1>3, <3>1
  <2>2. CASE d <= -1
    <3>1. T * d <= -T
      BY <1>1, <1>3, <2>2
    <3> QED
      BY <1>1, <1>2, <1>3, <3>1
  <2> QED
    BY <1>3, <2>1, <2>2
<1>5. r = 0
  BY <1>1, <1>3, <1>4
<1> QED
  BY <1>5 DEF r, T

\* A number without remainder is a multiple.
LEMMA MultipleOf ==
  ASSUME NEW n \in Nat, n % TargetEvery = 0
  PROVE  \E k \in Nat : n = k * TargetEvery
<1> DEFINE T == TargetEvery
           q == n \div T
<1>1. T \in Nat \ {0}
  BY LearningAssumption
<1>2. q \in Int /\ n % T = 0 /\ n = (T * q) + (n % T)
  BY <1>1
<1> HIDE DEF q, T
<1>3. n = q * T
  BY <1>1, <1>2
<1>4. q \in Nat
  <2>1. CASE q <= -1
    <3>1. q * T <= -T
      BY <1>1, <1>2, <2>1
    <3> QED
      BY <1>1, <1>3, <3>1
  <2> QED
    BY <1>2, <2>1
<1> QED
  BY <1>3, <1>4 DEF T

\* One training step.
LEMMA ReplayedIs ==
  ASSUME NEW X, NEW a \in Agents(X), InPhase(a)
  PROVE  /\ Replayed(a) \in Agents(X) /\ InPhase(Replayed(a))
         /\ Replayed(a).replay = a.replay
         /\ Replayed(a).steps = IF Len(a.replay) < BatchSize THEN a.steps ELSE a.steps + 1
<1>1. /\ a \in [replay : Seq(X), steps : Nat, target : Nat]
      /\ Len(a.replay) <= Capacity
      /\ a.target <= a.steps /\ a.steps < a.target + TargetEvery
  BY DEF Agents
<1>2. TargetEvery \in Nat \ {0}
  BY LearningAssumption
<1>3. PICK k \in Nat : a.target = k * TargetEvery
  BY DEF InPhase
<1>4. CASE Len(a.replay) < BatchSize
  BY <1>4 DEF Replayed
<1>5. CASE ~(Len(a.replay) < BatchSize)
  <2> DEFINE t == IF (a.steps + 1) % TargetEvery = 0 THEN a.steps + 1 ELSE a.target
  <2>1. Replayed(a) = [a EXCEPT !.steps = @ + 1, !.target = t]
    BY <1>5 DEF Replayed
  <2>2. /\ t \in Nat /\ t <= a.steps + 1 /\ a.steps + 1 < t + TargetEvery
        /\ \E j \in Nat : t = j * TargetEvery
    <3>1. CASE (a.steps + 1) % TargetEvery = 0
      <4>1. a.steps + 1 \in Nat /\ \E j \in Nat : a.steps + 1 = j * TargetEvery
        BY <1>1, <3>1, MultipleOf
      <4> QED
        <5>1. t = a.steps + 1
          BY <3>1
        <5> HIDE DEF t
        <5>2. a.steps + 1 < (a.steps + 1) + TargetEvery
          BY <1>1, <1>2
        <5> QED
          BY <1>1, <4>1, <5>1, <5>2
    <3>2. CASE (a.steps + 1) % TargetEvery # 0
      <4>1. a.steps + 1 # (k + 1) * TargetEvery
        BY <1>1, <3>2, NextMultiple
      <4>2. (k + 1) * TargetEvery = a.target + TargetEvery
        BY <1>2, <1>3
      <4> QED
        <5>1. t = a.target
          BY <3>2
        <5>2. a.steps + 1 # a.target + TargetEvery
          BY <4>1, <4>2
        <5>3. a.steps + 1 < a.target + TargetEvery /\ a.target <= a.steps + 1
          BY <1>1, <1>2, <5>2
        <5> HIDE DEF t
        <5> QED
          BY <1>1, <1>3, <5>1, <5>3
    <3> QED
      BY <3>1, <3>2
  <2> HIDE DEF t
  <2>3. /\ Replayed(a) \in [replay : Seq(X), steps : Nat, target : Nat]
        /\ Replayed(a).replay = a.replay /\ Replayed(a).target = t
        /\ Replayed(a).steps = a.steps + 1
    <3>1. a.steps + 1 \in Nat /\ t \in Nat
      BY <1>1, <2>2
    <3> QED
      BY <1>1, <2>1, <3>1
  <2> QED
    BY <1>1, <1>5, <2>2, <2>3 DEF Agents, InPhase
<1> QED
  BY <1>4, <1>5

\* Training keeps the memory, and makes a step if there is a batch in it.
LEMMA TrainedIs ==
  ASSUME NEW X, NEW a \in Agents(X), InPhase(a), NEW n \in Nat
  PROVE  /\ Trained(a, n) \in Agents(X) /\ InPhase(Trained(a, n))
         /\ Trained(a, n).replay = a.replay
         /\ Trained(a, n).steps >= a.steps
         /\ n > 0 /\ Len(a.replay) >= BatchSize => Trained(a, n).steps > a.steps
<1>1. PICK f : After(f, a, n) /\ Trained(a, n) = f[n]
  BY TrainedAfter
<1> DEFINE Good(b, i) == /\ b \in Agents(X) /\ InPhase(b) /\ b.replay = a.replay
                         /\ b.steps >= a.steps
                         /\ i > 0 /\ Len(a.replay) >= BatchSize => b.steps > a.steps
           S == {i \in 0 .. n : Good(f[i], i)}
<1>a. a.steps \in Nat /\ Len(a.replay) \in Nat /\ BatchSize \in Nat
  BY LearningAssumption DEF Agents
<1>2. 0 \in S
  <2>1. f[0] = a
    BY <1>1 DEF After
  <2> QED
    BY <1>a, <2>1
<1>3. ASSUME NEW k \in 0 .. n - 1, k \in S PROVE k + 1 \in S
  <2>1. k + 1 \in 0 .. n /\ k + 1 # 0 /\ (k + 1) - 1 = k /\ k + 1 > 0
    OBVIOUS
  <2>2. f[k + 1] = Replayed(f[k])
    BY <1>1, <2>1 DEF After
  <2> DEFINE b == f[k]
  <2>3. Good(b, k)
    BY <1>3
  <2> HIDE DEF b
  <2>4. b.steps \in Nat
    BY <2>3 DEF Agents
  <2>5. Good(Replayed(b), k + 1)
    BY <1>a, <2>1, <2>3, <2>4, ReplayedIs
  <2> QED
    BY <2>1, <2>2, <2>5 DEF b
<1> HIDE DEF S
<1>4. n \in 0 .. n /\ \A k \in 0 .. n : k \in S
  BY <1>2, <1>3, UpTo
<1> QED
  BY <1>1, <1>4 DEF S

\* A bounded deque.
LEMMA NewestIs ==
  ASSUME NEW X, NEW q \in Seq(X)
  PROVE  /\ Newest(q) \in Seq(X)
         /\ Len(Newest(q)) = IF Len(q) <= Capacity THEN Len(q) ELSE Capacity
<1>1. Len(q) \in Nat /\ Capacity \in Nat \ {0}
  BY LearningAssumption, LenProperties
<1>2. CASE Len(q) <= Capacity
  BY <1>2 DEF Newest
<1>3. CASE ~(Len(q) <= Capacity)
  <2> DEFINE p == Len(q) - Capacity + 1
  <2>1. p \in 1 .. Len(q) /\ Len(q) \in 1 .. Len(q) /\ Len(q) - p + 1 = Capacity
    BY <1>1, <1>3
  <2>2. Newest(q) = SubSeq(q, p, Len(q))
    BY <1>3 DEF Newest
  <2> HIDE DEF p
  <2>3. \A i \in p .. Len(q) : q[i] \in X
    BY <1>1, <2>1, ElementOfSeq
  <2> QED
    BY <1>1, <1>3, <2>1, <2>2, <2>3, SubSeqProperties
<1> QED
  BY <1>2, <1>3

LEMMA RememberedIs ==
  ASSUME NEW X, NEW a \in Agents(X), InPhase(a), NEW q \in Seq(X)
  PROVE  /\ Remembered(a, q) \in Agents(X) /\ InPhase(Remembered(a, q))
         /\ Remembered(a, q).steps = a.steps
         /\ Remembered(a, q).replay = Newest(a.replay \o q)
<1>1. a \in [replay : Seq(X), steps : Nat, target : Nat]
  BY DEF Agents
<1>2. Remembered(a, q) = [a EXCEPT !.replay = Newest(a.replay \o q)]
  BY DEF Remembered
<1>3. a.replay \o q \in Seq(X)
  BY <1>1, ConcatProperties
<1>4. Newest(a.replay \o q) \in Seq(X) /\ Len(Newest(a.replay \o q)) <= Capacity
  <2>1. Len(a.replay \o q) \in Nat /\ Capacity \in Nat
    BY <1>3, LearningAssumption, LenProperties
  <2> QED
    <3> DEFINE s == a.replay \o q
    <3>1. s \in Seq(X) /\ Len(s) \in Nat
      BY <1>3, <2>1
    <3> HIDE DEF s
    <3>2. Newest(s) \in Seq(X) /\ Len(Newest(s)) <= Capacity
      BY <2>1, <3>1, NewestIs
    <3> QED
      BY <3>2 DEF s
<1>5. /\ Remembered(a, q) \in [replay : Seq(X), steps : Nat, target : Nat]
      /\ Remembered(a, q).steps = a.steps /\ Remembered(a, q).target = a.target
      /\ Remembered(a, q).replay = Newest(a.replay \o q)
  BY <1>1, <1>2, <1>4
<1> QED
  BY <1>4, <1>5 DEF Agents, InPhase

-----------------------------------------------------------------------------
(* Experiences. *)

\* States, and what else an experience consists of.
LEMMA StateIs ==
  /\ \A s \in States : s[1] \in IPs /\ s[2] \in Nat /\ s = <<s[1], s[2]>>
  /\ \A x \in Experiences : /\ x.state \in States /\ x.next[2] \in Nat
                            /\ x.done \in BOOLEAN /\ x.reward \in Int
BY EventLoopAssumption DEF States, Experiences, Terminal, Rewards, AttackReward,
   CooldownPenalty, FalseDeployPenalty

\* The reward of a decision is neither a penalty's nor a hit's.
LEMMA RewardIs ==
  ASSUME NEW r \in {0, CooldownPenalty}
  PROVE  /\ r \in Rewards /\ r # FalseDeployPenalty /\ ~(r >= AttackReward - 1)
         /\ r + AttackReward \in Rewards /\ r + AttackReward >= AttackReward - 1
         /\ r + AttackReward # FalseDeployPenalty
BY DEF Rewards, AttackReward, CooldownPenalty, FalseDeployPenalty

\* s is m with the experiences q behind it: each is an old one or a new one.
Grows(m, q, s) ==
  /\ s = m \o q /\ Len(s) = Len(m) + Len(q)
  /\ \A i \in 1 .. Len(m) : i \in 1 .. Len(s) /\ s[i] = m[i]
  /\ \A i \in 1 .. Len(s) : \/ i \in 1 .. Len(m) /\ s[i] = m[i]
                            \/ \E k \in 1 .. Len(q) : i = Len(m) + k /\ s[i] = q[k]

LEMMA Grown ==
  ASSUME NEW X, NEW m \in Seq(X), NEW q \in Seq(X)
  PROVE  m \o q \in Seq(X) /\ Grows(m, q, m \o q)
<1>1. Len(m) \in Nat /\ Len(q) \in Nat
  BY LenProperties
<1>2. /\ m \o q \in Seq(X) /\ Len(m \o q) = Len(m) + Len(q)
      /\ \A i \in 1 .. Len(m) + Len(q) :
           (m \o q)[i] = IF i <= Len(m) THEN m[i] ELSE q[i - Len(m)]
  BY ConcatProperties
<1>3. ASSUME NEW i \in 1 .. Len(m) + Len(q), ~(i <= Len(m))
      PROVE  \E k \in 1 .. Len(q) : i = Len(m) + k /\ (m \o q)[i] = q[k]
  <2>1. i - Len(m) \in 1 .. Len(q) /\ i = Len(m) + (i - Len(m))
    BY <1>1, <1>3
  <2> QED
    BY <1>2, <1>3, <2>1
<1>4. ASSUME NEW i \in 1 .. Len(m)
      PROVE  i \in 1 .. Len(m) + Len(q) /\ i <= Len(m)
  BY <1>1
<1>5. \A i \in 1 .. Len(m) + Len(q) : i <= Len(m) => i \in 1 .. Len(m)
  BY <1>1
<1> QED
  BY <1>2, <1>3, <1>4, <1>5 DEF Grows

\* By one experience.
LEMMA GrownByOne ==
  ASSUME NEW X, NEW m \in Seq(X), NEW x \in X
  PROVE  /\ m \o <<x>> \in Seq(X) /\ Grows(m, <<x>>, m \o <<x>>)
         /\ <<x>> \in Seq(X) /\ Len(<<x>>) = 1
         /\ \A k \in 1 .. Len(<<x>>) : k = 1 /\ <<x>>[k] = x
<1> DEFINE q == <<x>>
<1>1. q \in Seq(X) /\ Len(q) = 1 /\ q[1] = x /\ \A k \in 1 .. 1 : k = 1
  OBVIOUS
<1> HIDE DEF q
<1>2. m \o q \in Seq(X) /\ Grows(m, q, m \o q)
  BY <1>1, Grown
<1>3. \A k \in 1 .. Len(q) : k = 1 /\ q[k] = x
  BY <1>1
<1> QED
  BY <1>1, <1>2, <1>3 DEF q

\* How the number of verdicts grows: by nothing, or by all that is new.
LEMMA CountGrown ==
  ASSUME NEW X, NEW m \in Seq(X), NEW q \in Seq(X), NEW Y
  PROVE  /\ (\A k \in 1 .. Len(q) : q[k] \notin Y) => Count(m \o q, Y) = Count(m, Y)
         /\ (\A k \in 1 .. Len(q) : q[k] \in Y) => Count(m \o q, Y) = Count(m, Y) + Len(q)
<1> DEFINE s == m \o q
           P == Positions(m, Y)
           N == (Len(m) + 1) .. (Len(m) + Len(q))
<1>1. Len(m) \in Nat /\ Len(q) \in Nat
  BY LenProperties
<1>0. Grows(m, q, s)
  BY Grown
<1> HIDE DEF s
<1>2. /\ Len(s) = Len(m) + Len(q)
      /\ \A i \in 1 .. Len(m) : i \in 1 .. Len(s) /\ s[i] = m[i]
      /\ \A i \in 1 .. Len(s) :
              \/ i \in 1 .. Len(m) /\ s[i] = m[i]
              \/ \E k \in 1 .. Len(q) : i = Len(m) + k /\ s[i] = q[k]
  BY <1>0 DEF Grows
<1>3. IsFiniteSet(P) /\ IsFiniteSet(N) /\ Cardinality(N) = Len(q)
  <2>1. IsFiniteSet(1 .. Len(m)) /\ P \subseteq 1 .. Len(m)
    BY <1>1, FS_Interval DEF Positions
  <2>2. IsFiniteSet(N) /\ Cardinality(N) = Len(q)
    <3>1. Len(m) + 1 \in Int /\ Len(m) + Len(q) \in Int
      BY <1>1
    <3>2. IsFiniteSet(N)
      BY <3>1, FS_Interval
    <3>3. Cardinality(N) = IF Len(m) + 1 > Len(m) + Len(q) THEN 0
                           ELSE (Len(m) + Len(q)) - (Len(m) + 1) + 1
      BY <3>1, FS_Interval
    <3> QED
      BY <1>1, <3>2, <3>3
  <2> QED
    BY <2>1, <2>2, FS_Subset
<1>4. P \cap N = {}
  BY <1>1 DEF Positions
<1>5. ASSUME \A k \in 1 .. Len(q) : q[k] \notin Y PROVE Positions(s, Y) = P
  BY <1>2, <1>5 DEF Positions
<1>6. ASSUME \A k \in 1 .. Len(q) : q[k] \in Y PROVE Positions(s, Y) = P \cup N
  <2>1. ASSUME NEW i \in N PROVE i \in 1 .. Len(s) /\ s[i] \in Y
    <3>1. i \in 1 .. Len(s) /\ i \notin 1 .. Len(m)
      BY <1>1, <1>2
    <3> QED
      BY <1>2, <1>6, <3>1
  <2>2. ASSUME NEW i \in Positions(s, Y) PROVE i \in P \cup N
    <3>1. i \in 1 .. Len(s) /\ s[i] \in Y
      BY DEF Positions
    <3>2. i \in 1 .. Len(m) \/ i \in N
      BY <1>1, <1>2, <3>1
    <3>3. i \in 1 .. Len(m) => s[i] = m[i]
      BY <1>2
    <3> QED
      BY <3>1, <3>2, <3>3 DEF Positions
  <2>3. ASSUME NEW i \in P PROVE i \in Positions(s, Y)
    BY <1>2 DEF Positions
  <2>4. N \subseteq Positions(s, Y)
    BY <2>1 DEF Positions
  <2> QED
    BY <2>2, <2>3, <2>4
<1> HIDE DEF P, N
<1>7. Cardinality(P \cup N) = Cardinality(P) + Cardinality(N)
  <2>1. /\ IsFiniteSet(P \cup N) /\ Cardinality(P \cap N) = 0
        /\ Cardinality(P \cup N) = Cardinality(P) + Cardinality(N) - Cardinality(P \cap N)
    BY <1>3, <1>4, FS_Union, FS_EmptySet
  <2>2. Cardinality(P) \in Nat /\ Cardinality(N) \in Nat
    BY <1>3, FS_CardinalityType
  <2> QED
    BY <2>1, <2>2
<1> QED
  BY <1>3, <1>5, <1>6, <1>7 DEF Count, s, P

-----------------------------------------------------------------------------
(* What an event does to the memory and to what is pending, one after the  *)
(* other.                                                                  *)

\* One event more has been taken.
LEMMA Counting ==
  ASSUME NEW m, NEW D, NEW T, NEW e \in Nat, NEW n, MemoryInv(m, D, T, e, n),
         m \in Seq(Experiences), D \in [IPs -> Pendings], T \in [IPs -> Transitions]
  PROVE  MemoryInv(m, D, T, e + 1, n)
<1>1. \A i \in 1 .. Len(m) : m[i] \in Experiences
  BY ElementOfSeq
<1>2. MadeInv(m, e + 1)
  BY <1>1, StateIs DEF MemoryInv, MadeInv
<1>3. ForwardInv(m, e + 1)
  BY <1>1, StateIs DEF MemoryInv, ForwardInv
<1>4. PendingInv(D, T, e + 1)
  <2>1. ASSUME NEW ip \in IPs, D[ip] # None PROVE D[ip].state[1] = ip /\ D[ip].state[2] <= e + 1
    <3>1. D[ip].state \in States
      BY <2>1 DEF Pendings
    <3> QED
      BY <2>1, <3>1, StateIs DEF MemoryInv, PendingInv
  <2>2. ASSUME NEW ip \in IPs, T[ip] # None
        PROVE  T[ip].state[1] = ip /\ T[ip].state[2] <= e + 1 /\ T[ip].reward \in {0, CooldownPenalty}
    <3>1. T[ip].state \in States
      BY <2>2 DEF Transitions, Decisions
    <3> QED
      BY <2>2, <3>1, StateIs DEF MemoryInv, PendingInv
  <2> QED
    BY <2>1, <2>2 DEF PendingInv
<1> QED
  BY <1>2, <1>3, <1>4 DEF MemoryInv

\* s is m with the one experience x behind it.
GrowsBy(m, x, s) ==
  /\ s \in Seq(Experiences) /\ Len(s) = Len(m) + 1 /\ Len(m) \in Nat
  /\ \A i \in 1 .. Len(m) : i \in 1 .. Len(s) /\ s[i] = m[i]
  /\ \A i \in 1 .. Len(s) : \/ i \in 1 .. Len(m) /\ s[i] = m[i]
                            \/ i = Len(m) + 1 /\ s[i] = x
  /\ \A X : Count(s, X) = Count(m, X) + (IF x \in X THEN 1 ELSE 0)

LEMMA GrownBy ==
  ASSUME NEW m \in Seq(Experiences), NEW x \in Experiences
  PROVE  GrowsBy(m, x, m \o <<x>>)
<1> DEFINE s == m \o <<x>>
           q == <<x>>
<1>1. s \in Seq(Experiences) /\ Grows(m, q, s) /\ q \in Seq(Experiences)
  BY GrownByOne
<1>2. Len(q) = 1 /\ \A k \in 1 .. Len(q) : k = 1 /\ q[k] = x
  OBVIOUS
<1>3. Len(m) \in Nat
  BY LenProperties
<1>e. s = m \o q
  OBVIOUS
<1> HIDE DEF s, q
<1>4. ASSUME NEW X PROVE Count(s, X) = Count(m, X) + (IF x \in X THEN 1 ELSE 0)
  <2>1. Count(m, X) \in Nat
    BY CountType
  <2>2. CASE x \in X
    <3>1. \A k \in 1 .. Len(q) : q[k] \in X
      BY <1>2, <2>2
    <3>2. Count(m \o q, X) = Count(m, X) + Len(q)
      BY <1>1, <3>1, CountGrown
    <3> QED
      BY <1>2, <1>e, <2>1, <2>2, <3>2
  <2>3. CASE x \notin X
    <3>1. Count(m \o q, X) = Count(m, X)
      BY <1>1, <1>2, <2>3, CountGrown
    <3> QED
      BY <1>e, <2>1, <2>3, <3>1
  <2> QED
    BY <2>2, <2>3
<1>5. /\ Len(s) = Len(m) + Len(q)
      /\ \A i \in 1 .. Len(m) : i \in 1 .. Len(s) /\ s[i] = m[i]
      /\ \A i \in 1 .. Len(s) : \/ i \in 1 .. Len(m) /\ s[i] = m[i]
                                \/ \E k \in 1 .. Len(q) : i = Len(m) + k /\ s[i] = q[k]
  BY <1>1 DEF Grows
<1>6. \A i \in 1 .. Len(s) : \/ i \in 1 .. Len(m) /\ s[i] = m[i]
                             \/ i = Len(m) + 1 /\ s[i] = x
  BY <1>2, <1>5
<1> QED
  BY <1>1, <1>2, <1>3, <1>4, <1>5, <1>6 DEF GrowsBy, s, q

\* T2 is T without what is pending for ip.
Drops(T, ip, T2) == \A jp \in IPs : T2[jp] # None => T2[jp] = T[jp] /\ jp # ip

\* The previous transition t of ip, completed by the state of event e + 1.
Advanced(t, s) == Completed(t, s, FALSE)

LEMMA Completes ==
  ASSUME NEW t \in Decisions, t.reward \in {0, CooldownPenalty}, NEW s \in States
  PROVE  LET x == Advanced(t, s)
         IN /\ x \in Experiences /\ ~IsHit(x) /\ ~IsPenalty(x)
            /\ x.state = t.state /\ x.next = s /\ x.done = FALSE
<1> DEFINE x == Advanced(t, s)
<1>1. /\ t.state \in States /\ t.action \in {"wait", "deploy"}
      /\ t.reward \in Rewards /\ ~(t.reward >= AttackReward - 1)
  BY RewardIs DEF Transitions, Decisions
<1>2. x = [state |-> t.state, action |-> t.action, reward |-> t.reward, next |-> s,
           done |-> FALSE]
  BY DEF Advanced, Completed, Experience
<1> HIDE DEF x
<1>3. x \in Experiences
  BY <1>1, <1>2 DEF Experiences
<1>4. x.state = t.state /\ x.next = s /\ x.done = FALSE /\ x.reward = t.reward
  BY <1>2
<1>5. ~IsHit(x) /\ ~IsPenalty(x)
  BY <1>1, <1>4 DEF IsHit, IsPenalty
<1> QED
  BY <1>3, <1>4, <1>5 DEF x

LEMMA Completing ==
  ASSUME NEW m, NEW D, NEW T, NEW e \in Nat, NEW n \in Nat, MemoryInv(m, D, T, e, n),
         m \in Seq(Experiences), D \in [IPs -> Pendings], T \in [IPs -> Transitions],
         NEW ip \in IPs, T[ip] # None,
         NEW x \in Experiences, ~IsHit(x), ~IsPenalty(x), x.done = FALSE,
         x.state = T[ip].state, x.next[1] = ip, x.next[2] = e + 1,
         NEW m2, GrowsBy(m, x, m2), NEW T2, Drops(T, ip, T2)
  PROVE  /\ MemoryInv(m2, D, T2, e + 1, n) /\ MadeInv(m2, e) /\ PendingInv(D, T2, e)
<1>1. /\ x.state \in States /\ x.state[1] = ip /\ x.state[2] <= e /\ x.state[2] \in Nat
  BY StateIs DEF MemoryInv, PendingInv
<1>3. /\ Len(m) \in Nat
      /\ \A i \in 1 .. Len(m) : i \in 1 .. Len(m2) /\ m2[i] = m[i]
      /\ \A i \in 1 .. Len(m2) : \/ i \in 1 .. Len(m) /\ m2[i] = m[i]
                                 \/ i = Len(m) + 1 /\ m2[i] = x
  BY DEF GrowsBy
<1>4. /\ \A i \in 1 .. Len(m) : m[i] \in Experiences
      /\ \A i \in 1 .. Len(m2) : m2[i] \in Experiences
  BY ElementOfSeq DEF GrowsBy
<1>5. \A jp \in IPs : T2[jp] # None => T2[jp] = T[jp] /\ jp # ip
  BY DEF Drops
<1>6. \A jp \in IPs : /\ D[jp] # None => D[jp].state \in States
                      /\ T[jp] # None => T[jp].state \in States
  BY DEF Pendings, Transitions, Decisions
<1>7. MadeInv(m2, e)
  <2>1. \A i \in 1 .. Len(m) : m[i].state[2] <= e
    BY DEF MemoryInv, MadeInv
  <2> QED
    BY <1>1, <1>3, <2>1 DEF MadeInv
<1>8. PendingInv(D, T2, e)
  BY <1>5 DEF MemoryInv, PendingInv
<1>9. LatestInv(m2, D, T2)
  <2> SUFFICES ASSUME NEW jp \in IPs, T2[jp] # None
               PROVE  /\ D[jp] # None => D[jp].state[2] <= T2[jp].state[2]
                      /\ \A i \in 1 .. Len(m2) : m2[i].state[1] = jp =>
                           m2[i].state[2] <= T2[jp].state[2]
    BY DEF LatestInv
  <2>1. T2[jp] = T[jp] /\ jp # ip
    BY <1>5
  <2>2. /\ D[jp] # None => D[jp].state[2] <= T[jp].state[2]
        /\ \A i \in 1 .. Len(m) : m[i].state[1] = jp => m[i].state[2] <= T[jp].state[2]
    BY <2>1 DEF MemoryInv, LatestInv
  <2> QED
    BY <1>1, <1>3, <2>1, <2>2
<1>10. ForwardInv(m2, e + 1)
  <2> SUFFICES ASSUME NEW i \in 1 .. Len(m2), ~m2[i].done
               PROVE  /\ m2[i].next[1] = m2[i].state[1] /\ m2[i].next[2] <= e + 1
                      /\ \/ m2[i].state[2] < m2[i].next[2]
                         \/ m2[i].next = m2[i].state /\ IsHit(m2[i])
    BY DEF ForwardInv
  <2>1. CASE i \in 1 .. Len(m) /\ m2[i] = m[i]
    <3>1. m[i].next[2] \in Nat
      BY <1>4, <2>1, StateIs
    <3> QED
      BY <2>1, <3>1 DEF MemoryInv, ForwardInv
  <2>2. CASE m2[i] = x
    BY <1>1, <2>2
  <2> QED
    BY <1>3, <2>1, <2>2
<1>11. OnceInv(m2, T2)
  <2>1. ASSUME NEW i \in 1 .. Len(m2), ~IsPenalty(m2[i]),
               NEW j \in 1 .. Len(m2), ~IsPenalty(m2[j]), m2[j].state = m2[i].state
        PROVE  i = j
    <3>1. \A k \in 1 .. Len(m) : ~IsPenalty(m[k]) => m[k].state # x.state
      BY DEF MemoryInv, OnceInv
    <3>2. \A k, l \in 1 .. Len(m) :
            ~IsPenalty(m[k]) /\ ~IsPenalty(m[l]) /\ m[l].state = m[k].state => k = l
      BY DEF MemoryInv, OnceInv
    <3> QED
      BY <1>3, <2>1, <3>1, <3>2
  <2>2. ASSUME NEW i \in 1 .. Len(m2), ~IsPenalty(m2[i]), NEW jp \in IPs, T2[jp] # None
        PROVE  m2[i].state # T2[jp].state
    <3>1. T2[jp].state[1] = jp /\ jp # ip /\ T2[jp] = T[jp]
      BY <1>5, <1>8, <2>2 DEF PendingInv
    <3>2. \A k \in 1 .. Len(m) : ~IsPenalty(m[k]) => m[k].state # T[jp].state
      BY <2>2, <3>1 DEF MemoryInv, OnceInv
    <3> QED
      BY <1>1, <1>3, <2>2, <3>1, <3>2
  <2> QED
    BY <2>1, <2>2 DEF OnceInv
<1>12. GapInv(m2, D, T2)
  <2>1. ASSUME NEW u \in States, u[1] = ip => u[2] <= x.state[2] PROVE ~Between(u, x)
    <3>1. u[2] \in Nat
      BY StateIs
    <3> QED
      BY <1>1, <2>1, <3>1 DEF Between
  <2>2. ASSUME NEW i \in 1 .. Len(m2), NEW j \in 1 .. Len(m2)
        PROVE  ~Between(m2[j].state, m2[i])
    <3>1. m2[j].state \in States
      BY <1>4, StateIs
    <3>2. \A k \in 1 .. Len(m) : m[k].state[1] = ip => m[k].state[2] <= x.state[2]
      BY DEF MemoryInv, LatestInv
    <3>3. m2[j].state[1] = ip => m2[j].state[2] <= x.state[2]
      BY <1>1, <1>3, <3>2
    <3>4. CASE m2[i] = x
      BY <2>1, <3>1, <3>3, <3>4
    <3>5. CASE i \in 1 .. Len(m) /\ m2[i] = m[i]
      <4>1. /\ \A k \in 1 .. Len(m) : ~Between(m[k].state, m[i])
            /\ ~Between(x.state, m[i])
        BY <3>5 DEF MemoryInv, GapInv
      <4> QED
        BY <1>3, <3>5, <4>1
    <3> QED
      BY <1>3, <3>4, <3>5
  <2>3. ASSUME NEW i \in 1 .. Len(m2), NEW jp \in IPs, D[jp] # None
        PROVE  ~Between(D[jp].state, m2[i])
    <3>1. D[jp].state \in States /\ (D[jp].state[1] = ip => D[jp].state[2] <= x.state[2])
      BY <1>6, <2>3 DEF MemoryInv, LatestInv, PendingInv
    <3>2. \A k \in 1 .. Len(m) : ~Between(D[jp].state, m[k])
      BY <2>3 DEF MemoryInv, GapInv
    <3> QED
      BY <1>3, <2>1, <3>1, <3>2
  <2>4. ASSUME NEW i \in 1 .. Len(m2), NEW jp \in IPs, T2[jp] # None
        PROVE  ~Between(T2[jp].state, m2[i])
    <3>1. T2[jp].state \in States /\ T2[jp].state[1] # ip /\ T2[jp] = T[jp]
      BY <1>5, <1>6, <1>8, <2>4 DEF PendingInv
    <3>2. \A k \in 1 .. Len(m) : ~Between(T[jp].state, m[k])
      BY <2>4, <3>1 DEF MemoryInv, GapInv
    <3> QED
      BY <1>3, <2>1, <3>1, <3>2
  <2> QED
    BY <2>2, <2>3, <2>4 DEF GapInv
<1>13. JudgedInv(m2, D, n)
  <2>1. x \notin Verdicts
    BY DEF Verdicts
  <2>2. Count(m2, Verdicts) = Count(m, Verdicts) + 0
    BY <2>1 DEF GrowsBy
  <2>3. Count(m, Verdicts) \in Nat
    BY CountType
  <2> QED
    BY <2>2, <2>3 DEF MemoryInv, JudgedInv
<1>14. PendingInv(D, T2, e + 1)
  <2> SUFFICES ASSUME NEW jp \in IPs
               PROVE  /\ D[jp] # None => D[jp].state[1] = jp /\ D[jp].state[2] <= e + 1
                      /\ T2[jp] # None => /\ T2[jp].state[1] = jp /\ T2[jp].state[2] <= e + 1
                                          /\ T2[jp].reward \in {0, CooldownPenalty}
    BY DEF PendingInv
  <2>1. /\ D[jp] # None => D[jp].state[2] \in Nat
        /\ T2[jp] # None => T2[jp].state[2] \in Nat
    BY <1>5, <1>6, StateIs
  <2> QED
    BY <1>8, <2>1 DEF PendingInv
<1>15. MadeInv(m2, e + 1)
  <2> SUFFICES ASSUME NEW i \in 1 .. Len(m2) PROVE m2[i].state[2] <= e + 1
    BY DEF MadeInv
  <2>1. m2[i].state[2] \in Nat /\ m2[i].state[2] <= e
    BY <1>4, <1>7, StateIs DEF MadeInv
  <2> QED
    BY <2>1
<1> QED
  BY <1>7, <1>8, <1>9, <1>10, <1>11, <1>12, <1>13, <1>14, <1>15 DEF MemoryInv

\* The new decision t is kept pending, and its deployment with it if there is one.
LEMMA Keeping ==
  ASSUME NEW m, NEW D, NEW T, NEW e \in Nat, NEW n \in Nat, MemoryInv(m, D, T, e + 1, n),
         m \in Seq(Experiences), D \in [IPs -> Pendings], T \in [IPs -> Transitions],
         MadeInv(m, e), PendingInv(D, T, e),
         NEW ip \in IPs, NEW s \in States, s[1] = ip, s[2] = e + 1,
         NEW t, t.state = s, t.reward \in {0, CooldownPenalty},
         NEW T2, T2[ip] = t, \A jp \in IPs \ {ip} : T2[jp] = T[jp],
         NEW D2, NEW n2 \in Nat,
         \/ D2 = D /\ n2 = n
         \/ /\ D2[ip].state = s /\ n2 = n + 1
            /\ \A jp \in IPs \ {ip} : D2[jp] = D[jp]
  PROVE  MemoryInv(m, D2, T2, e + 1, n2)
<1>1. /\ \A jp \in IPs : D2[jp] # None =>
            (D2[jp] = D[jp] /\ D[jp] # None) \/ (jp = ip /\ D2[jp].state = s)
      /\ \A jp \in IPs : T2[jp] # None =>
            (jp # ip /\ T2[jp] = T[jp] /\ T[jp] # None) \/ (jp = ip /\ T2[jp] = t)
  <2>1. ASSUME NEW jp \in IPs, D2[jp] # None
        PROVE  (D2[jp] = D[jp] /\ D[jp] # None) \/ (jp = ip /\ D2[jp].state = s)
    <3>1. CASE D2 = D
      BY <2>1, <3>1
    <3>2. CASE D2 # D
      BY <2>1, <3>2
    <3> QED
      BY <3>1, <3>2
  <2>2. ASSUME NEW jp \in IPs, T2[jp] # None
        PROVE  (jp # ip /\ T2[jp] = T[jp] /\ T[jp] # None) \/ (jp = ip /\ T2[jp] = t)
    BY <2>2
  <2> QED
    BY <2>1, <2>2
<1>2. \A i \in 1 .. Len(m) : m[i] \in Experiences
  BY ElementOfSeq
<1>3. /\ \A i \in 1 .. Len(m) : /\ m[i].state[2] \in Nat /\ m[i].next[2] \in Nat
                                /\ m[i].state[2] <= e
      /\ \A i \in 1 .. Len(m) : ~m[i].done => m[i].next[2] <= e + 1
  BY <1>2, StateIs DEF MemoryInv, MadeInv, ForwardInv
<1>4. /\ \A jp \in IPs : D[jp] # None => /\ D[jp].state[2] \in Nat /\ D[jp].state[2] <= e
                                         /\ D[jp].state[1] = jp
      /\ \A jp \in IPs : T[jp] # None => /\ T[jp].state[2] \in Nat /\ T[jp].state[2] <= e
                                         /\ T[jp].state[1] = jp
  <2>1. \A jp \in IPs : /\ D[jp] # None => D[jp].state \in States
                        /\ T[jp] # None => T[jp].state \in States
    BY DEF Pendings, Transitions, Decisions
  <2> QED
    BY <2>1, StateIs DEF PendingInv
<1>5. PendingInv(D2, T2, e + 1)
  <2>1. \A jp \in IPs : D2[jp] # None => D2[jp].state[1] = jp /\ D2[jp].state[2] <= e + 1
    BY <1>1, <1>4
  <2>2. ASSUME NEW jp \in IPs, T2[jp] # None
        PROVE  T2[jp].state[1] = jp /\ T2[jp].state[2] <= e + 1
    BY <1>1, <1>4, <2>2
  <2>3. ASSUME NEW jp \in IPs, T2[jp] # None PROVE T2[jp].reward \in {0, CooldownPenalty}
    BY <1>1, <2>3 DEF PendingInv
  <2> QED
    BY <2>1, <2>2, <2>3 DEF PendingInv
<1>6. LatestInv(m, D2, T2)
  <2> SUFFICES ASSUME NEW jp \in IPs, T2[jp] # None
               PROVE  /\ D2[jp] # None => D2[jp].state[2] <= T2[jp].state[2]
                      /\ \A i \in 1 .. Len(m) : m[i].state[1] = jp =>
                           m[i].state[2] <= T2[jp].state[2]
    BY DEF LatestInv
  <2>1. CASE jp = ip
    <3>1. T2[jp].state[2] = e + 1
      BY <2>1
    <3> QED
      BY <1>1, <1>3, <1>4, <3>1
  <2>2. CASE jp # ip
    <3>1. T2[jp] = T[jp] /\ T[jp] # None /\ D2[jp] = D[jp]
      BY <2>2
    <3> QED
      BY <3>1 DEF MemoryInv, LatestInv
  <2> QED
    BY <2>1, <2>2
<1>7. OnceInv(m, T2)
  <2>1. \A i, j \in 1 .. Len(m) :
          ~IsPenalty(m[i]) /\ ~IsPenalty(m[j]) /\ m[j].state = m[i].state => i = j
    BY DEF MemoryInv, OnceInv
  <2>2. ASSUME NEW i \in 1 .. Len(m), ~IsPenalty(m[i]), NEW jp \in IPs, T2[jp] # None
        PROVE  m[i].state # T2[jp].state
    <3>1. CASE jp = ip
      <4>1. m[i].state[2] # T2[jp].state[2]
        BY <1>3, <3>1
      <4> QED
        BY <4>1
    <3>2. CASE jp # ip
      <4>1. T2[jp] = T[jp] /\ T[jp] # None
        BY <2>2, <3>2
      <4> QED
        BY <2>2, <4>1 DEF MemoryInv, OnceInv
    <3> QED
      BY <3>1, <3>2
  <2> QED
    BY <2>1, <2>2 DEF OnceInv
<1>8. GapInv(m, D2, T2)
  <2>1. \A i \in 1 .. Len(m) : ~Between(s, m[i])
    BY <1>3 DEF Between
  <2>2. \A i, j \in 1 .. Len(m) : ~Between(m[j].state, m[i])
    BY DEF MemoryInv, GapInv
  <2>3. ASSUME NEW i \in 1 .. Len(m), NEW jp \in IPs
        PROVE  /\ D2[jp] # None => ~Between(D2[jp].state, m[i])
               /\ T2[jp] # None => ~Between(T2[jp].state, m[i])
    <3>1. /\ D[jp] # None => ~Between(D[jp].state, m[i])
          /\ T[jp] # None => ~Between(T[jp].state, m[i])
      BY DEF MemoryInv, GapInv
    <3> QED
      BY <1>1, <2>1, <3>1
  <2> QED
    BY <2>2, <2>3 DEF GapInv
<1>9. JudgedInv(m, D2, n2)
  <2>1. Count(m, Verdicts) \in Nat
    BY CountType
  <2>2. CASE D2 = D /\ n2 = n
    BY <2>2 DEF MemoryInv, JudgedInv
  <2>3. CASE ~(D2 = D /\ n2 = n)
    <3>1. WaitingIn(D2) \subseteq WaitingIn(D) \cup {ip} /\ n2 = n + 1
      BY <1>1, <2>3 DEF WaitingIn
    <3> DEFINE W == WaitingIn(D)
    <3>2. IsFiniteSet(W)
      BY EventLoopAssumption, FS_Subset DEF WaitingIn
    <3>3. Cardinality(W \cup {ip}) <= Cardinality(W) + 1 /\ IsFiniteSet(W \cup {ip})
      <4>1. /\ IsFiniteSet(W \cup {ip}) /\ Cardinality(W) \in Nat
            /\ Cardinality(W \cup {ip}) = IF ip \in W THEN Cardinality(W) ELSE Cardinality(W) + 1
        BY <3>2, FS_AddElement, FS_CardinalityType
      <4> QED
        BY <4>1
    <3>4. /\ Cardinality(WaitingIn(D2)) <= Cardinality(W \cup {ip})
          /\ Cardinality(WaitingIn(D2)) \in Nat /\ Cardinality(W) \in Nat
          /\ Cardinality(W \cup {ip}) \in Nat
      BY <3>1, <3>2, <3>3, FS_Subset, FS_CardinalityType
    <3>5. Count(m, Verdicts) + Cardinality(W) <= n
      BY DEF MemoryInv, JudgedInv
    <3> HIDE DEF W
    <3> QED
      BY <2>1, <3>1, <3>3, <3>4, <3>5 DEF JudgedInv
  <2> QED
    BY <2>2, <2>3
<1> QED
  BY <1>5, <1>6, <1>7, <1>8, <1>9 DEF MemoryInv

\* A hit: the decision of this event is remembered at once, and its attacker has
\* nothing pending any more.
LEMMA Rewarding ==
  ASSUME NEW m, NEW D, NEW T, NEW e \in Nat, NEW n \in Nat, MemoryInv(m, D, T, e + 1, n),
         m \in Seq(Experiences), D \in [IPs -> Pendings], T \in [IPs -> Transitions],
         MadeInv(m, e), NEW ip \in IPs, D[ip] # None,
         NEW x \in Experiences, IsHit(x), ~IsPenalty(x), x.done = FALSE,
         x.state[1] = ip, x.state[2] = e + 1, x.next = x.state,
         NEW m2, GrowsBy(m, x, m2), NEW D2, Drops(D, ip, D2), NEW T2, Drops(T, ip, T2)
  PROVE  MemoryInv(m2, D2, T2, e + 1, n)
<1>1. x.state \in States
  BY StateIs
<1>2. /\ Len(m) \in Nat
      /\ \A i \in 1 .. Len(m) : i \in 1 .. Len(m2) /\ m2[i] = m[i]
      /\ \A i \in 1 .. Len(m2) : \/ i \in 1 .. Len(m) /\ m2[i] = m[i]
                                 \/ i = Len(m) + 1 /\ m2[i] = x
  BY DEF GrowsBy
<1>3. \A i \in 1 .. Len(m) : m[i].state \in States /\ m[i].state[2] \in Nat /\ m[i].next[2] \in Nat
  BY ElementOfSeq, StateIs
<1>4. /\ \A jp \in IPs : T2[jp] # None => T2[jp] = T[jp] /\ jp # ip
      /\ \A jp \in IPs : D2[jp] # None => D2[jp] = D[jp] /\ jp # ip
  BY DEF Drops
<1>5. \A i \in 1 .. Len(m) : m[i].state[2] <= e
  BY DEF MadeInv
<1>6. PendingInv(D2, T2, e + 1)
  BY <1>4 DEF MemoryInv, PendingInv
<1>7. MadeInv(m2, e + 1)
  BY <1>2, <1>3, <1>5 DEF MadeInv
<1>8. LatestInv(m2, D2, T2)
  <2> SUFFICES ASSUME NEW jp \in IPs, T2[jp] # None
               PROVE  /\ D2[jp] # None => D2[jp].state[2] <= T2[jp].state[2]
                      /\ \A i \in 1 .. Len(m2) : m2[i].state[1] = jp =>
                           m2[i].state[2] <= T2[jp].state[2]
    BY DEF LatestInv
  <2>1. T2[jp] = T[jp] /\ jp # ip /\ (D2[jp] # None => D2[jp] = D[jp])
    BY <1>4
  <2>2. /\ D[jp] # None => D[jp].state[2] <= T[jp].state[2]
        /\ \A i \in 1 .. Len(m) : m[i].state[1] = jp => m[i].state[2] <= T[jp].state[2]
    BY <2>1 DEF MemoryInv, LatestInv
  <2> QED
    BY <1>2, <2>1, <2>2
<1>9. ForwardInv(m2, e + 1)
  <2> SUFFICES ASSUME NEW i \in 1 .. Len(m2), ~m2[i].done
               PROVE  /\ m2[i].next[1] = m2[i].state[1] /\ m2[i].next[2] <= e + 1
                      /\ \/ m2[i].state[2] < m2[i].next[2]
                         \/ m2[i].next = m2[i].state /\ IsHit(m2[i])
    BY DEF ForwardInv
  <2>1. CASE i \in 1 .. Len(m) /\ m2[i] = m[i]
    BY <2>1 DEF MemoryInv, ForwardInv
  <2>2. CASE m2[i] = x
    BY <2>2
  <2> QED
    BY <1>2, <2>1, <2>2
<1>10. OnceInv(m2, T2)
  <2>1. ASSUME NEW i \in 1 .. Len(m2), ~IsPenalty(m2[i]),
               NEW j \in 1 .. Len(m2), ~IsPenalty(m2[j]), m2[j].state = m2[i].state
        PROVE  i = j
    <3>1. \A k \in 1 .. Len(m) : m[k].state # x.state
      <4>1. \A k \in 1 .. Len(m) : m[k].state[2] # x.state[2]
        BY <1>3, <1>5
      <4> QED
        BY <4>1
    <3>2. \A k, l \in 1 .. Len(m) :
            ~IsPenalty(m[k]) /\ ~IsPenalty(m[l]) /\ m[l].state = m[k].state => k = l
      BY DEF MemoryInv, OnceInv
    <3> QED
      BY <1>2, <2>1, <3>1, <3>2
  <2>2. ASSUME NEW i \in 1 .. Len(m2), ~IsPenalty(m2[i]), NEW jp \in IPs, T2[jp] # None
        PROVE  m2[i].state # T2[jp].state
    <3>1. T2[jp].state[1] = jp /\ jp # ip /\ T2[jp] = T[jp]
      BY <1>4, <1>6, <2>2 DEF PendingInv
    <3>2. \A k \in 1 .. Len(m) : ~IsPenalty(m[k]) => m[k].state # T[jp].state
      BY <2>2, <3>1 DEF MemoryInv, OnceInv
    <3> QED
      BY <1>2, <2>2, <3>1, <3>2
  <2> QED
    BY <2>1, <2>2 DEF OnceInv
<1>11. GapInv(m2, D2, T2)
  <2>1. ASSUME NEW u PROVE ~(u \in States /\ Between(u, x))
    <3>1. u \in States => u[2] \in Nat
      BY StateIs
    <3> QED
      BY <3>1 DEF Between
  <2>2. \A i \in 1 .. Len(m) : ~Between(x.state, m[i])
    <3>1. \A i \in 1 .. Len(m) : ~m[i].done => m[i].next[2] <= e + 1
      BY DEF MemoryInv, ForwardInv
    <3> QED
      BY <1>3, <3>1 DEF Between
  <2>3. ASSUME NEW i \in 1 .. Len(m2), NEW j \in 1 .. Len(m2)
        PROVE  ~Between(m2[j].state, m2[i])
    <3>1. m2[j].state \in States
      BY <1>1, <1>2, <1>3
    <3>2. \A k, l \in 1 .. Len(m) : ~Between(m[k].state, m[l])
      BY DEF MemoryInv, GapInv
    <3> QED
      BY <1>2, <2>1, <2>2, <3>1, <3>2
  <2>4. ASSUME NEW i \in 1 .. Len(m2), NEW jp \in IPs
        PROVE  /\ D2[jp] # None => ~Between(D2[jp].state, m2[i])
               /\ T2[jp] # None => ~Between(T2[jp].state, m2[i])
    <3>1. /\ D2[jp] # None => D2[jp].state \in States /\ D2[jp] = D[jp]
          /\ T2[jp] # None => T2[jp].state \in States /\ T2[jp] = T[jp]
      BY <1>4 DEF Pendings, Transitions, Decisions
    <3>2. \A k \in 1 .. Len(m) : /\ D[jp] # None => ~Between(D[jp].state, m[k])
                                 /\ T[jp] # None => ~Between(T[jp].state, m[k])
      BY DEF MemoryInv, GapInv
    <3> QED
      BY <1>2, <2>1, <3>1, <3>2
  <2> QED
    BY <2>3, <2>4 DEF GapInv
<1>12. JudgedInv(m2, D2, n)
  <2> DEFINE W == WaitingIn(D)
  <2>1. Count(m2, Verdicts) = Count(m, Verdicts) + 1 /\ Count(m, Verdicts) \in Nat
    <3>1. x \in Verdicts
      BY DEF Verdicts
    <3> QED
      BY <3>1, CountType DEF GrowsBy
  <2>2. WaitingIn(D2) \subseteq W \ {ip} /\ ip \in W
    BY <1>4 DEF WaitingIn
  <2>3. IsFiniteSet(W)
    BY EventLoopAssumption, FS_Subset DEF WaitingIn
  <2>4. /\ IsFiniteSet(W \ {ip}) /\ Cardinality(W \ {ip}) = Cardinality(W) - 1
    BY <2>2, <2>3, FS_RemoveElement
  <2>5. /\ Cardinality(WaitingIn(D2)) <= Cardinality(W \ {ip})
        /\ Cardinality(WaitingIn(D2)) \in Nat /\ Cardinality(W) \in Nat
    BY <2>2, <2>3, <2>4, FS_Subset, FS_CardinalityType
  <2>6. Count(m, Verdicts) + Cardinality(W) <= n
    BY DEF MemoryInv, JudgedInv
  <2> HIDE DEF W
  <2> QED
    BY <2>1, <2>4, <2>5, <2>6 DEF JudgedInv
<1> QED
  BY <1>6, <1>7, <1>8, <1>9, <1>10, <1>11, <1>12 DEF MemoryInv

-----------------------------------------------------------------------------
(* Maintenance *)

\* D2 is D without what is pending for the attackers of S.
Clears(D, S, D2) == \A jp \in IPs : D2[jp] # None => D2[jp] = D[jp] /\ jp \notin S

\* The deployments of S are penalised.
LEMMA Penalising ==
  ASSUME NEW m, NEW D, NEW T, NEW e \in Nat, NEW n \in Nat, MemoryInv(m, D, T, e, n),
         m \in Seq(Experiences), D \in [IPs -> Pendings], T \in [IPs -> Transitions],
         NEW S, S \subseteq WaitingIn(D),
         NEW q \in Seq(Experiences), Len(q) = Cardinality(S),
         \A k \in 1 .. Len(q) : /\ IsPenalty(q[k]) /\ q[k].done
                                /\ \E ip \in S : q[k].state = D[ip].state,
         NEW m2, Grows(m, q, m2), NEW D2, Clears(D, S, D2)
  PROVE  MemoryInv(m2, D2, T, e, n)
<1>1. /\ \A i \in 1 .. Len(m) : i \in 1 .. Len(m2) /\ m2[i] = m[i]
      /\ \A i \in 1 .. Len(m2) :
           \/ i \in 1 .. Len(m) /\ m2[i] = m[i]
           \/ /\ IsPenalty(m2[i]) /\ m2[i].done
              /\ \E ip \in S : m2[i].state = D[ip].state
  <2>1. /\ \A i \in 1 .. Len(m) : i \in 1 .. Len(m2) /\ m2[i] = m[i]
        /\ \A i \in 1 .. Len(m2) : \/ i \in 1 .. Len(m) /\ m2[i] = m[i]
                                   \/ \E k \in 1 .. Len(q) : m2[i] = q[k]
    BY DEF Grows
  <2>2. ASSUME NEW i \in 1 .. Len(m2), NEW k \in 1 .. Len(q), m2[i] = q[k]
        PROVE  /\ IsPenalty(m2[i]) /\ m2[i].done
               /\ \E ip \in S : m2[i].state = D[ip].state
    BY <2>2
  <2> QED
    BY <2>1, <2>2
<1>2. \A jp \in IPs : D2[jp] # None => D2[jp] = D[jp] /\ jp \notin S
  BY DEF Clears
<1>3. \A ip \in S : ip \in IPs /\ D[ip] # None
  BY DEF WaitingIn
<1>4. PendingInv(D2, T, e)
  BY <1>2 DEF MemoryInv, PendingInv
<1>5. MadeInv(m2, e)
  <2>1. /\ \A i \in 1 .. Len(m) : m[i].state[2] <= e
        /\ \A ip \in S : D[ip].state[2] <= e
    BY <1>3 DEF MemoryInv, MadeInv, PendingInv
  <2> QED
    BY <1>1, <2>1 DEF MadeInv
<1>6. LatestInv(m2, D2, T)
  <2> SUFFICES ASSUME NEW jp \in IPs, T[jp] # None
               PROVE  /\ D2[jp] # None => D2[jp].state[2] <= T[jp].state[2]
                      /\ \A i \in 1 .. Len(m2) : m2[i].state[1] = jp =>
                           m2[i].state[2] <= T[jp].state[2]
    BY DEF LatestInv
  <2>1. /\ D[jp] # None => D[jp].state[2] <= T[jp].state[2]
        /\ \A i \in 1 .. Len(m) : m[i].state[1] = jp => m[i].state[2] <= T[jp].state[2]
    BY DEF MemoryInv, LatestInv
  <2>2. \A ip \in S : D[ip].state[1] = ip
    BY <1>3 DEF MemoryInv, PendingInv
  <2> QED
    BY <1>1, <1>2, <1>3, <2>1, <2>2
<1>7. ForwardInv(m2, e)
  BY <1>1 DEF MemoryInv, ForwardInv
<1>8. OnceInv(m2, T)
  <2>1. \A i \in 1 .. Len(m2) : ~IsPenalty(m2[i]) => i \in 1 .. Len(m) /\ m2[i] = m[i]
    BY <1>1
  <2>2. \A i \in 1 .. Len(m) : ~IsPenalty(m[i]) =>
          /\ \A j \in 1 .. Len(m) : ~IsPenalty(m[j]) /\ m[j].state = m[i].state => i = j
          /\ \A ip \in IPs : T[ip] # None => m[i].state # T[ip].state
    BY DEF MemoryInv, OnceInv
  <2>3. ASSUME NEW i \in 1 .. Len(m2), ~IsPenalty(m2[i]),
               NEW j \in 1 .. Len(m2), ~IsPenalty(m2[j]), m2[j].state = m2[i].state
        PROVE  i = j
    <3>1. i \in 1 .. Len(m) /\ m2[i] = m[i] /\ j \in 1 .. Len(m) /\ m2[j] = m[j]
      BY <2>1, <2>3
    <3> QED
      BY <2>2, <2>3, <3>1
  <2>4. ASSUME NEW i \in 1 .. Len(m2), ~IsPenalty(m2[i]), NEW ip \in IPs, T[ip] # None
        PROVE  m2[i].state # T[ip].state
    BY <2>1, <2>2, <2>4
  <2> QED
    BY <2>3, <2>4 DEF OnceInv
<1>9. GapInv(m2, D2, T)
  <2> SUFFICES ASSUME NEW i \in 1 .. Len(m2)
               PROVE  /\ \A j \in 1 .. Len(m2) : ~Between(m2[j].state, m2[i])
                      /\ \A ip \in IPs : /\ D2[ip] # None => ~Between(D2[ip].state, m2[i])
                                         /\ T[ip] # None => ~Between(T[ip].state, m2[i])
    BY DEF GapInv
  <2>1. CASE m2[i].done
    BY <2>1 DEF Between
  <2>2. CASE i \in 1 .. Len(m) /\ m2[i] = m[i]
    <3>1. /\ \A j \in 1 .. Len(m) : ~Between(m[j].state, m[i])
          /\ \A ip \in IPs : /\ D[ip] # None => ~Between(D[ip].state, m[i])
                             /\ T[ip] # None => ~Between(T[ip].state, m[i])
      BY <2>2 DEF MemoryInv, GapInv
    <3> QED
      BY <1>1, <1>2, <1>3, <2>2, <3>1
  <2> QED
    BY <1>1, <2>1, <2>2
<1>10. JudgedInv(m2, D2, n)
  <2> DEFINE W == WaitingIn(D)
  <2>1. Count(m2, Verdicts) = Count(m, Verdicts) + Cardinality(S) /\ Count(m, Verdicts) \in Nat
    <3>1. \A k \in 1 .. Len(q) : q[k] \in Verdicts
      BY ElementOfSeq DEF Verdicts
    <3>2. m2 = m \o q
      BY DEF Grows
    <3> QED
      BY <3>1, <3>2, CountGrown, CountType
  <2>2. WaitingIn(D2) \subseteq W \ S
    BY <1>2 DEF WaitingIn
  <2>3. IsFiniteSet(W)
    BY EventLoopAssumption, FS_Subset DEF WaitingIn
  <2>4. /\ IsFiniteSet(W \ S) /\ Cardinality(W \ S) = Cardinality(W) - Cardinality(W \cap S)
    BY <2>3, FS_Difference
  <2>5. W \cap S = S
    OBVIOUS
  <2>6. /\ Cardinality(WaitingIn(D2)) <= Cardinality(W \ S) /\ Cardinality(S) \in Nat
        /\ Cardinality(WaitingIn(D2)) \in Nat /\ Cardinality(W) \in Nat
    BY <2>2, <2>3, <2>4, FS_Subset, FS_CardinalityType
  <2>7. Count(m, Verdicts) + Cardinality(W) <= n
    BY DEF MemoryInv, JudgedInv
  <2> HIDE DEF W
  <2> QED
    <3>1. Cardinality(W \ S) = Cardinality(W) - Cardinality(S)
      BY <2>4, <2>5
    <3>2. Cardinality(WaitingIn(D2)) <= Cardinality(W) - Cardinality(S)
      BY <2>6, <3>1
    <3>3. Count(m2, Verdicts) + Cardinality(WaitingIn(D2)) <= n
      BY <2>1, <2>6, <2>7, <3>2
    <3> QED
      BY <3>3 DEF JudgedInv
<1> QED
  BY <1>4, <1>5, <1>6, <1>7, <1>8, <1>9, <1>10 DEF MemoryInv

\* The pending transitions of S end.
LEMMA Finalising ==
  ASSUME NEW m, NEW D, NEW T, NEW e \in Nat, NEW n \in Nat, MemoryInv(m, D, T, e, n),
         m \in Seq(Experiences), D \in [IPs -> Pendings], T \in [IPs -> Transitions],
         NEW S, S \subseteq {ip \in IPs : T[ip] # None},
         NEW q \in Seq(Experiences), NEW o \in [1 .. Len(q) -> S],
         \A k, l \in 1 .. Len(q) : o[k] = o[l] => k = l,
         \A k \in 1 .. Len(q) : /\ ~IsPenalty(q[k]) /\ ~IsHit(q[k]) /\ q[k].done
                                /\ q[k].state = T[o[k]].state,
         NEW m2, Grows(m, q, m2), NEW T2, Clears(T, S, T2)
  PROVE  MemoryInv(m2, D, T2, e, n)
<1>0. Len(m) \in Nat /\ Len(q) \in Nat
  BY LenProperties
<1>1. /\ \A i \in 1 .. Len(m) : i \in 1 .. Len(m2) /\ m2[i] = m[i]
      /\ \A i \in 1 .. Len(m2) : \/ i \in 1 .. Len(m) /\ m2[i] = m[i]
                                 \/ \E k \in 1 .. Len(q) : i = Len(m) + k /\ m2[i] = q[k]
  BY DEF Grows
<1>2. \A jp \in IPs : T2[jp] # None => T2[jp] = T[jp] /\ jp \notin S
  BY DEF Clears
<1>3. \A ip \in S : /\ ip \in IPs /\ T[ip] # None
                    /\ T[ip].state[1] = ip /\ T[ip].state[2] <= e
  BY DEF MemoryInv, PendingInv
<1>4. \A i \in 1 .. Len(m2) :
        \/ i \in 1 .. Len(m) /\ m2[i] = m[i]
        \/ m2[i].done /\ \E ip \in S : m2[i].state = T[ip].state
  <2>1. ASSUME NEW i \in 1 .. Len(m2), NEW k \in 1 .. Len(q), m2[i] = q[k]
        PROVE  m2[i].done /\ \E ip \in S : m2[i].state = T[ip].state
    <3>1. o[k] \in S /\ q[k].done /\ q[k].state = T[o[k]].state
      OBVIOUS
    <3> QED
      BY <2>1, <3>1
  <2> QED
    BY <1>1, <2>1
<1>5. PendingInv(D, T2, e)
  BY <1>2 DEF MemoryInv, PendingInv
<1>6. MadeInv(m2, e)
  <2>1. \A i \in 1 .. Len(m) : m[i].state[2] <= e
    BY DEF MemoryInv, MadeInv
  <2> QED
    BY <1>3, <1>4, <2>1 DEF MadeInv
<1>7. LatestInv(m2, D, T2)
  <2> SUFFICES ASSUME NEW jp \in IPs, T2[jp] # None
               PROVE  /\ D[jp] # None => D[jp].state[2] <= T2[jp].state[2]
                      /\ \A i \in 1 .. Len(m2) : m2[i].state[1] = jp =>
                           m2[i].state[2] <= T2[jp].state[2]
    BY DEF LatestInv
  <2>1. T2[jp] = T[jp] /\ jp \notin S /\ T[jp] # None
    BY <1>2
  <2>2. /\ D[jp] # None => D[jp].state[2] <= T[jp].state[2]
        /\ \A i \in 1 .. Len(m) : m[i].state[1] = jp => m[i].state[2] <= T[jp].state[2]
    BY <2>1 DEF MemoryInv, LatestInv
  <2> QED
    BY <1>3, <1>4, <2>1, <2>2
<1>8. ForwardInv(m2, e)
  BY <1>4 DEF MemoryInv, ForwardInv
<1>9. OnceInv(m2, T2)
  <2>1. /\ \A k, l \in 1 .. Len(m) :
            ~IsPenalty(m[k]) /\ ~IsPenalty(m[l]) /\ m[l].state = m[k].state => k = l
        /\ \A k \in 1 .. Len(m), ip \in IPs :
            ~IsPenalty(m[k]) /\ T[ip] # None => m[k].state # T[ip].state
    BY DEF MemoryInv, OnceInv
  <2>2. ASSUME NEW i \in 1 .. Len(m2), ~IsPenalty(m2[i]),
               NEW j \in 1 .. Len(m2), ~IsPenalty(m2[j]), m2[j].state = m2[i].state
        PROVE  i = j
    <3>1. CASE i \in 1 .. Len(m) /\ m2[i] = m[i]
      <4>1. CASE j \in 1 .. Len(m) /\ m2[j] = m[j]
        BY <2>1, <2>2, <3>1, <4>1
      <4>2. CASE \E ip \in S : m2[j].state = T[ip].state
        BY <1>3, <2>1, <2>2, <3>1, <4>2
      <4> QED
        BY <1>4, <4>1, <4>2
    <3>2. CASE \E k \in 1 .. Len(q) : i = Len(m) + k /\ m2[i] = q[k]
      <4>1. PICK k \in 1 .. Len(q) : i = Len(m) + k /\ m2[i] = q[k]
        BY <3>2
      <4>2. o[k] \in S /\ m2[i].state = T[o[k]].state
        BY <4>1
      <4>3. CASE j \in 1 .. Len(m) /\ m2[j] = m[j]
        BY <1>3, <2>1, <2>2, <4>2, <4>3
      <4>4. CASE \E l \in 1 .. Len(q) : j = Len(m) + l /\ m2[j] = q[l]
        <5>1. PICK l \in 1 .. Len(q) : j = Len(m) + l /\ m2[j] = q[l]
          BY <4>4
        <5>2. o[l] \in S /\ m2[j].state = T[o[l]].state
          BY <5>1
        <5>3. o[k] = o[l]
          BY <1>3, <2>2, <4>2, <5>2
        <5> QED
          BY <4>1, <5>1, <5>3
      <4> QED
        BY <1>1, <4>3, <4>4
    <3> QED
      BY <1>1, <3>1, <3>2
  <2>3. ASSUME NEW i \in 1 .. Len(m2), ~IsPenalty(m2[i]), NEW jp \in IPs, T2[jp] # None
        PROVE  m2[i].state # T2[jp].state
    <3>1. T2[jp].state[1] = jp /\ jp \notin S /\ T2[jp] = T[jp] /\ T[jp] # None
      BY <1>2, <1>5, <2>3 DEF PendingInv
    <3>2. CASE i \in 1 .. Len(m) /\ m2[i] = m[i]
      BY <2>1, <2>3, <3>1, <3>2
    <3>3. CASE \E ip \in S : m2[i].state = T[ip].state
      <4>1. PICK ip \in S : m2[i].state = T[ip].state
        BY <3>3
      <4>2. m2[i].state[1] = ip /\ ip # jp
        BY <1>3, <3>1, <4>1
      <4> QED
        BY <3>1, <4>2
    <3> QED
      BY <1>4, <3>2, <3>3
  <2> QED
    BY <2>2, <2>3 DEF OnceInv
<1>10. GapInv(m2, D, T2)
  <2> SUFFICES ASSUME NEW i \in 1 .. Len(m2)
               PROVE  /\ \A j \in 1 .. Len(m2) : ~Between(m2[j].state, m2[i])
                      /\ \A ip \in IPs : /\ D[ip] # None => ~Between(D[ip].state, m2[i])
                                         /\ T2[ip] # None => ~Between(T2[ip].state, m2[i])
    BY DEF GapInv
  <2>1. CASE m2[i].done
    BY <2>1 DEF Between
  <2>2. CASE i \in 1 .. Len(m) /\ m2[i] = m[i]
    <3>1. /\ \A j \in 1 .. Len(m) : ~Between(m[j].state, m[i])
          /\ \A ip \in IPs : /\ D[ip] # None => ~Between(D[ip].state, m[i])
                             /\ T[ip] # None => ~Between(T[ip].state, m[i])
      BY <2>2 DEF MemoryInv, GapInv
    <3> QED
      BY <1>2, <1>3, <1>4, <2>2, <3>1
  <2> QED
    BY <1>4, <2>1, <2>2
<1>11. JudgedInv(m2, D, n)
  <2>1. \A k \in 1 .. Len(q) : q[k] \notin Verdicts
    BY DEF Verdicts
  <2>2. Count(m2, Verdicts) = Count(m, Verdicts)
    <3>1. m2 = m \o q
      BY DEF Grows
    <3> QED
      BY <2>1, <3>1, CountGrown
  <2> QED
    BY <2>2 DEF MemoryInv, JudgedInv
<1> QED
  BY <1>5, <1>6, <1>7, <1>8, <1>9, <1>10, <1>11 DEF MemoryInv

-----------------------------------------------------------------------------
(* The learner, as the record the operators of EventLoop work on. *)

Learner(a, m, D, T) == [agent |-> a, memory |-> m, deploys |-> D, transitions |-> T]

LEMMA LearnIs ==
  ASSUME NEW a, NEW m, NEW D, NEW T, NEW q
  PROVE  Learn(Learner(a, m, D, T), q) = Learner(Remembered(a, q), m \o q, D, T)
<1> DEFINE l == Learner(a, m, D, T)
           b == Remembered(a, q)
           m2 == m \o q
<1>1. l.agent = a /\ l.memory = m
  BY DEF Learner
<1>2. Learn(l, q) = [l EXCEPT !.agent = b, !.memory = m2]
  BY <1>1 DEF Learn
<1> HIDE DEF b, m2
<1>3. Learn(l, q) = Learner(b, m2, D, T)
  BY <1>2 DEF Learner
<1> QED
  BY <1>3 DEF b, m2

\* f with the value v for ip.
Put(f, ip, v) == [f EXCEPT ![ip] = v]

LEMMA StoredIs ==
  ASSUME NEW a, NEW m, NEW D, NEW T, NEW ip, NEW t, T[ip] = None
  PROVE  Stored(Learner(a, m, D, T), ip, t) = Learner(a, m, D, Put(T, ip, t))
<1>1. Learner(a, m, D, T).transitions = T
  BY DEF Learner
<1>2. Stored(Learner(a, m, D, T), ip, t) = [Learner(a, m, D, T) EXCEPT !.transitions[ip] = t]
  BY <1>1 DEF Stored
<1> QED
  BY <1>2 DEF Learner, Put

LEMMA CompletedIs ==
  ASSUME NEW a, NEW m, NEW D, NEW T, NEW ip, NEW t, T[ip] # None,
         NEW x, x = Advanced(T[ip], t.state)
  PROVE  Stored(Learner(a, m, D, T), ip, t) =
           Learner(Remembered(a, <<x>>), m \o <<x>>, D, Put(T, ip, t))
<1> DEFINE q == <<x>>
<1>1. Learner(a, m, D, T).transitions = T
  BY DEF Learner
<1>2. Stored(Learner(a, m, D, T), ip, t) =
        [Learn(Learner(a, m, D, T), q) EXCEPT !.transitions[ip] = t]
  BY <1>1 DEF Stored, Advanced
<1> HIDE DEF q
<1>3. Stored(Learner(a, m, D, T), ip, t) =
        [Learner(Remembered(a, q), m \o q, D, T) EXCEPT !.transitions[ip] = t]
  BY <1>2, LearnIs
<1>4. Stored(Learner(a, m, D, T), ip, t) =
        Learner(Remembered(a, q), m \o q, D, Put(T, ip, t))
  BY <1>3 DEF Learner, Put
<1> QED
  BY <1>4 DEF q

LEMMA NotRewardedIs ==
  ASSUME NEW a, NEW m, NEW D, NEW T, NEW ip, NEW hit \in BOOLEAN, ~hit \/ D[ip] = None
  PROVE  Rewarded(Learner(a, m, D, T), ip, hit) = Learner(a, m, D, T)
<1>1. Learner(a, m, D, T).deploys = D
  BY DEF Learner
<1> QED
  BY <1>1 DEF Rewarded

\* The learner after a hit.
AfterHit(l, ip) ==
  [Learn(l, <<HitExperience(l.transitions[ip])>>) EXCEPT !.agent = Trained(@, 1),
                                                         !.deploys[ip] = None,
                                                         !.transitions[ip] = None]

LEMMA AfterHitIs ==
  ASSUME NEW a, NEW m, NEW D, NEW T, NEW ip, NEW x, x = HitExperience(T[ip])
  PROVE  AfterHit(Learner(a, m, D, T), ip) =
           Learner(Trained(Remembered(a, <<x>>), 1), m \o <<x>>, Put(D, ip, None),
                   Put(T, ip, None))
<1> DEFINE q == <<x>>
<1>1. Learner(a, m, D, T).transitions = T
  BY DEF Learner
<1>2. AfterHit(Learner(a, m, D, T), ip) =
        [Learn(Learner(a, m, D, T), q)
           EXCEPT !.agent = Trained(@, 1), !.deploys[ip] = None, !.transitions[ip] = None]
  BY <1>1 DEF AfterHit
<1> HIDE DEF q
<1>3. Learn(Learner(a, m, D, T), q) = Learner(Remembered(a, q), m \o q, D, T)
  BY LearnIs
<1>4. AfterHit(Learner(a, m, D, T), ip) =
        [Learner(Remembered(a, q), m \o q, D, T)
           EXCEPT !.agent = Trained(@, 1), !.deploys[ip] = None, !.transitions[ip] = None]
  BY <1>2, <1>3, Zenon
<1>5. AfterHit(Learner(a, m, D, T), ip) =
        Learner(Trained(Remembered(a, q), 1), m \o q, Put(D, ip, None), Put(T, ip, None))
  BY <1>4 DEF Learner, Put
<1> QED
  BY <1>5 DEF q

\* The experiences of attackers, one after the other.
AllOf(f) == LET order == SetToSeq(DOMAIN f) IN [k \in DOMAIN order |-> f[order[k]]]

Expired(D, now) == {ip \in IPs : D[ip] # None /\ now - D[ip].time > HoneypodTtl}
Stale(T, now) == {ip \in IPs : T[ip] # None /\ now - T[ip].time > IdleTimeout}

PenaltiesOf(D, now) ==
  AllOf([ip \in Expired(D, now) |->
           Experience(D[ip].state, "deploy", FalseDeployPenalty, Terminal, TRUE)])
FinalsOf(T, now) ==
  AllOf([ip \in Stale(T, now) |-> Completed(T[ip], Terminal, TRUE)])

LEMMA MaintainedIs ==
  ASSUME NEW a, NEW m, NEW D, NEW T, NEW now
  PROVE  LET p == PenaltiesOf(D, now)
             f == FinalsOf(T, now)
         IN Maintained(Learner(a, m, D, T), now) =
              Learner(Remembered(Remembered(Trained(a, TrainIterations), p), f), (m \o p) \o f,
                      Without(D, Expired(D, now)), Without(T, Stale(T, now)))
<1> DEFINE l == Learner(a, m, D, T)
           b == Trained(a, TrainIterations)
           p == PenaltiesOf(D, now)
           f == FinalsOf(T, now)
<1>1. l.transitions = T /\ l.deploys = D /\ l.agent = a
  BY DEF Learner
<1>2. [l EXCEPT !.agent = Trained(@, TrainIterations)] = Learner(b, m, D, T)
  BY DEF Learner
<1>3. /\ ExpiredDeploys(l, now) = Expired(D, now) /\ StaleTransitions(l, now) = Stale(T, now)
  BY <1>1 DEF ExpiredDeploys, StaleTransitions, Expired, Stale
<1>4. Penalties(l, now) = [ip \in Expired(D, now) |->
           Experience(D[ip].state, "deploy", FalseDeployPenalty, Terminal, TRUE)]
  BY <1>1, <1>3 DEF Penalties
<1>5. Finals(l, now) = [ip \in Stale(T, now) |-> Completed(T[ip], Terminal, TRUE)]
  BY <1>1, <1>3 DEF Finals
<1>6. LearnAll(Learner(b, m, D, T), Penalties(l, now)) = Learn(Learner(b, m, D, T), p)
  BY <1>4 DEF LearnAll, AllOf, PenaltiesOf
<1> HIDE DEF p
<1>7. LearnAll(Learner(b, m, D, T), Penalties(l, now)) = Learner(Remembered(b, p), m \o p, D, T)
  BY <1>6, LearnIs
<1>8. LearnAll(Learner(Remembered(b, p), m \o p, D, T), Finals(l, now)) =
        Learn(Learner(Remembered(b, p), m \o p, D, T), f)
  BY <1>5 DEF LearnAll, AllOf, FinalsOf
<1> HIDE DEF f
<1>9. LearnAll(Learner(Remembered(b, p), m \o p, D, T), Finals(l, now)) =
        Learner(Remembered(Remembered(b, p), f), (m \o p) \o f, D, T)
  BY <1>8, LearnIs
<1>10. Maintained(l, now) =
         [Learner(Remembered(Remembered(b, p), f), (m \o p) \o f, D, T)
            EXCEPT !.deploys = Without(@, Expired(D, now)),
                   !.transitions = Without(@, Stale(T, now))]
  BY <1>2, <1>3, <1>7, <1>9 DEF Maintained
<1>11. Maintained(l, now) =
         Learner(Remembered(Remembered(b, p), f), (m \o p) \o f,
                 Without(D, Expired(D, now)), Without(T, Stale(T, now)))
  BY <1>10 DEF Learner
<1> QED
  BY <1>11 DEF p, f

\* The order of a finite set, and what it makes of experiences of attackers.
LEMMA OrderIs ==
  ASSUME NEW S, IsFiniteSet(S)
  PROVE  /\ SetToSeq(S) \in [1 .. Cardinality(S) -> S] /\ Cardinality(S) \in Nat
         /\ \A k, l \in 1 .. Cardinality(S) : SetToSeq(S)[k] = SetToSeq(S)[l] => k = l
<1>1. Cardinality(S) \in Nat /\ ExistsBijection(1 .. Cardinality(S), S)
  BY FS_CardinalityType
<1>2. \E f \in [1 .. Cardinality(S) -> S] : IsInjective(f)
  BY <1>1 DEF ExistsBijection, Bijection, Injection
<1>3. SetToSeq(S) \in [1 .. Cardinality(S) -> S] /\ IsInjective(SetToSeq(S))
  BY <1>2 DEF SetToSeq
<1> QED
  BY <1>1, <1>3 DEF IsInjective

LEMMA AllOfIs ==
  ASSUME NEW S, IsFiniteSet(S), NEW f \in [S -> Experiences]
  PROVE  /\ AllOf(f) \in Seq(Experiences) /\ Len(AllOf(f)) = Cardinality(S)
         /\ \E o \in [1 .. Len(AllOf(f)) -> S] :
              /\ \A k, l \in 1 .. Len(AllOf(f)) : o[k] = o[l] => k = l
              /\ \A k \in 1 .. Len(AllOf(f)) : AllOf(f)[k] = f[o[k]]
<1> DEFINE o == SetToSeq(S)
           n == Cardinality(S)
<1>1. /\ o \in [1 .. n -> S] /\ n \in Nat
      /\ \A k, l \in 1 .. n : o[k] = o[l] => k = l
  BY OrderIs
<1>2. AllOf(f) = [k \in DOMAIN o |-> f[o[k]]]
  BY DEF AllOf
<1> HIDE DEF o, n
<1>3. AllOf(f) = [k \in 1 .. n |-> f[o[k]]]
  BY <1>1, <1>2
<1>4. AllOf(f) \in [1 .. n -> Experiences]
  BY <1>1, <1>3
<1>5. AllOf(f) \in Seq(Experiences) /\ Len(AllOf(f)) = n
  BY <1>1, <1>4
<1>6. \A k \in 1 .. n : AllOf(f)[k] = f[o[k]]
  BY <1>3
<1> QED
  BY <1>1, <1>5, <1>6 DEF n

\* The experiences of a maintenance.
LEMMA PenaltiesAre ==
  ASSUME NEW D \in [IPs -> Pendings], NEW now \in Nat
  PROVE  LET S == Expired(D, now)
             q == PenaltiesOf(D, now)
         IN /\ S \subseteq WaitingIn(D)
            /\ q \in Seq(Experiences) /\ Len(q) = Cardinality(S)
            /\ \A k \in 1 .. Len(q) : /\ IsPenalty(q[k]) /\ q[k].done /\ ~IsHit(q[k])
                                      /\ \E ip \in S : q[k].state = D[ip].state
<1> DEFINE S == Expired(D, now)
           f == [ip \in S |-> Experience(D[ip].state, "deploy", FalseDeployPenalty, Terminal, TRUE)]
<1>1. S \subseteq WaitingIn(D) /\ IsFiniteSet(S)
  <2>1. S \subseteq WaitingIn(D) /\ S \subseteq IPs
    BY DEF Expired, WaitingIn
  <2> QED
    BY <2>1, EventLoopAssumption, FS_Subset
<1>2. ASSUME NEW ip \in S
      PROVE  /\ f[ip] \in Experiences /\ f[ip].state = D[ip].state
             /\ IsPenalty(f[ip]) /\ f[ip].done /\ ~IsHit(f[ip])
  <2>1. D[ip].state \in States
    BY DEF Expired, Pendings
  <2>2. f[ip] = [state |-> D[ip].state, action |-> "deploy", reward |-> FalseDeployPenalty,
                 next |-> Terminal, done |-> TRUE]
    BY DEF Experience
  <2>3. FalseDeployPenalty \in Rewards /\ ~(FalseDeployPenalty >= AttackReward - 1)
    BY DEF Rewards, FalseDeployPenalty, AttackReward
  <2> HIDE DEF f
  <2>4. f[ip] \in Experiences
    BY <2>1, <2>2, <2>3 DEF Experiences
  <2> QED
    BY <2>2, <2>3, <2>4 DEF IsPenalty, IsHit
<1>3. f \in [S -> Experiences]
  BY <1>2
<1>4. PenaltiesOf(D, now) = AllOf(f)
  BY DEF PenaltiesOf
<1> HIDE DEF S, f
<1> DEFINE q == AllOf(f)
<1>5. /\ q \in Seq(Experiences) /\ Len(q) = Cardinality(S)
      /\ \E o \in [1 .. Len(q) -> S] : \A k \in 1 .. Len(q) : q[k] = f[o[k]]
  BY <1>1, <1>3, AllOfIs
<1> HIDE DEF q
<1>6. PICK o \in [1 .. Len(q) -> S] : \A k \in 1 .. Len(q) : q[k] = f[o[k]]
  BY <1>5
<1>7. ASSUME NEW k \in 1 .. Len(q)
      PROVE  /\ IsPenalty(q[k]) /\ q[k].done /\ ~IsHit(q[k])
             /\ \E ip \in S : q[k].state = D[ip].state
  <2>1. o[k] \in S /\ q[k] = f[o[k]]
    BY <1>6
  <2> QED
    BY <1>2, <2>1
<1> QED
  BY <1>1, <1>4, <1>5, <1>7 DEF q, S

LEMMA FinalsAre ==
  ASSUME NEW T \in [IPs -> Transitions], NEW now \in Nat,
         \A ip \in IPs : T[ip] # None => T[ip].reward \in {0, CooldownPenalty}
  PROVE  LET S == Stale(T, now)
             q == FinalsOf(T, now)
         IN /\ S \subseteq {ip \in IPs : T[ip] # None}
            /\ q \in Seq(Experiences)
            /\ \E o \in [1 .. Len(q) -> S] :
                 /\ \A k, l \in 1 .. Len(q) : o[k] = o[l] => k = l
                 /\ \A k \in 1 .. Len(q) : /\ ~IsPenalty(q[k]) /\ ~IsHit(q[k]) /\ q[k].done
                                           /\ q[k].state = T[o[k]].state
<1> DEFINE S == Stale(T, now)
           f == [ip \in S |-> Completed(T[ip], Terminal, TRUE)]
<1>1. S \subseteq {ip \in IPs : T[ip] # None} /\ IsFiniteSet(S)
  <2>1. S \subseteq {ip \in IPs : T[ip] # None} /\ S \subseteq IPs
    BY DEF Stale
  <2> QED
    BY <2>1, EventLoopAssumption, FS_Subset
<1>2. ASSUME NEW ip \in S
      PROVE  /\ f[ip] \in Experiences /\ f[ip].state = T[ip].state
             /\ ~IsPenalty(f[ip]) /\ f[ip].done /\ ~IsHit(f[ip])
  <2>1. /\ T[ip].state \in States /\ T[ip].action \in {"wait", "deploy"}
        /\ T[ip].reward \in {0, CooldownPenalty}
    BY <1>1 DEF Transitions, Decisions
  <2>2. f[ip] = [state |-> T[ip].state, action |-> T[ip].action, reward |-> T[ip].reward,
                 next |-> Terminal, done |-> TRUE]
    BY DEF Completed, Experience
  <2>3. T[ip].reward \in Rewards /\ ~(T[ip].reward >= AttackReward - 1)
        /\ T[ip].reward # FalseDeployPenalty
    BY <2>1, RewardIs
  <2> HIDE DEF f
  <2>4. f[ip] \in Experiences
    BY <2>1, <2>2, <2>3 DEF Experiences
  <2>5. f[ip].state = T[ip].state /\ f[ip].done = TRUE /\ f[ip].reward = T[ip].reward
    BY <2>2
  <2> QED
    BY <2>3, <2>4, <2>5 DEF IsPenalty, IsHit
<1>3. f \in [S -> Experiences]
  BY <1>2
<1>4. FinalsOf(T, now) = AllOf(f)
  BY DEF FinalsOf
<1> HIDE DEF S, f
<1> DEFINE q == AllOf(f)
<1>5. /\ q \in Seq(Experiences)
      /\ \E o \in [1 .. Len(q) -> S] : /\ \A k, l \in 1 .. Len(q) : o[k] = o[l] => k = l
                                       /\ \A k \in 1 .. Len(q) : q[k] = f[o[k]]
  BY <1>1, <1>3, AllOfIs
<1> HIDE DEF q
<1>6. PICK o \in [1 .. Len(q) -> S] : /\ \A k, l \in 1 .. Len(q) : o[k] = o[l] => k = l
                                      /\ \A k \in 1 .. Len(q) : q[k] = f[o[k]]
  BY <1>5
<1>7. ASSUME NEW k \in 1 .. Len(q)
      PROVE  /\ ~IsPenalty(q[k]) /\ ~IsHit(q[k]) /\ q[k].done
             /\ q[k].state = T[o[k]].state
  <2>1. o[k] \in S /\ q[k] = f[o[k]]
    BY <1>6
  <2> QED
    BY <1>2, <2>1
<1> QED
  BY <1>1, <1>4, <1>5, <1>6, <1>7 DEF q, S

\* The replay memory follows the memory.
LEMMA ReplayGrows ==
  ASSUME NEW a \in Agents(Experiences), InPhase(a), NEW m \in Seq(Experiences),
         ReplayInv(a, m), NEW q \in Seq(Experiences)
  PROVE  /\ Remembered(a, q) \in Agents(Experiences) /\ InPhase(Remembered(a, q))
         /\ Remembered(a, q).steps = a.steps /\ a.steps \in Nat
         /\ ReplayInv(Remembered(a, q), m \o q)
<1>1. /\ Remembered(a, q) \in Agents(Experiences) /\ InPhase(Remembered(a, q))
      /\ Remembered(a, q).steps = a.steps
      /\ Remembered(a, q).replay = Newest(a.replay \o q)
  BY RememberedIs
<1>2. a.replay \in Seq(Experiences) /\ a.steps \in Nat
  BY DEF Agents
<1> DEFINE s == a.replay \o q
<1>3. s \in Seq(Experiences) /\ Len(s) = Len(a.replay) + Len(q)
  BY <1>2, ConcatProperties
<1>4. Len(m \o q) = Len(m) + Len(q) /\ Len(m) \in Nat /\ Len(q) \in Nat /\ Capacity \in Nat
  BY ConcatProperties, LenProperties, LearningAssumption
<1> HIDE DEF s
<1>5. Len(Newest(s)) = IF Len(s) <= Capacity THEN Len(s) ELSE Capacity
  BY <1>3, NewestIs
<1>6. Len(a.replay) = IF Len(m) <= Capacity THEN Len(m) ELSE Capacity
  BY DEF ReplayInv
<1>7. Len(Newest(s)) = IF Len(m \o q) <= Capacity THEN Len(m \o q) ELSE Capacity
  BY <1>3, <1>4, <1>5, <1>6
<1> QED
  BY <1>1, <1>2, <1>7 DEF ReplayInv, s

-----------------------------------------------------------------------------
(* The steps of an event, on the learner. *)

\* From agent a and memory m to a2 and m2: nothing is forgotten or unlearned,
\* and hits that are new were trained on if there was a batch.
Trains(a, m, a2, m2) ==
  /\ a.steps \in Nat /\ a2.steps \in Nat /\ a.steps <= a2.steps
  /\ Len(m) \in Nat /\ Len(m2) \in Nat
  /\ \A i \in 1 .. Len(m) : i \in 1 .. Len(m2) /\ m2[i] = m[i]
  /\ \A i \in 1 .. Len(m2) : i \notin 1 .. Len(m) /\ IsHit(m2[i]) =>
       a2.steps > a.steps \/ Min({i, Capacity}) < BatchSize

LEMMA TrainsOn ==
  ASSUME NEW a, NEW m, NEW b, NEW m2, NEW c, NEW m3,
         Trains(a, m, b, m2), Trains(b, m2, c, m3)
  PROVE  Trains(a, m, c, m3)
<1>1. /\ a.steps \in Nat /\ b.steps \in Nat /\ c.steps \in Nat
      /\ a.steps <= b.steps /\ b.steps <= c.steps
  BY DEF Trains
<1>2. a.steps <= c.steps /\ (b.steps > a.steps \/ c.steps > b.steps => c.steps > a.steps)
  BY <1>1
<1>3. ASSUME NEW i \in 1 .. Len(m3), i \notin 1 .. Len(m), IsHit(m3[i])
      PROVE  c.steps > a.steps \/ Min({i, Capacity}) < BatchSize
  <2>1. CASE i \in 1 .. Len(m2)
    <3>1. m3[i] = m2[i]
      BY <2>1 DEF Trains
    <3>2. IsHit(m2[i])
      BY <1>3, <3>1
    <3> QED
      BY <1>2, <1>3, <2>1, <3>2 DEF Trains
  <2>2. CASE i \notin 1 .. Len(m2)
    BY <1>2, <1>3, <2>2 DEF Trains
  <2> QED
    BY <2>1, <2>2
<1>4. \A i \in 1 .. Len(m) : i \in 1 .. Len(m3) /\ m3[i] = m[i]
  BY DEF Trains
<1>5. Len(m) \in Nat /\ Len(m3) \in Nat
  BY DEF Trains
<1> QED
  BY <1>1, <1>2, <1>3, <1>4, <1>5 DEF Trains

\* Experiences none of which is a hit need no training.
LEMMA TrainsNoHit ==
  ASSUME NEW a, NEW a2, a.steps \in Nat, a2.steps \in Nat, a.steps <= a2.steps,
         NEW m \in Seq(Experiences), NEW q \in Seq(Experiences),
         NEW m2 \in Seq(Experiences), Grows(m, q, m2),
         \A k \in 1 .. Len(q) : ~IsHit(q[k])
  PROVE  Trains(a, m, a2, m2)
<1>1. Len(m) \in Nat /\ Len(m2) \in Nat
  BY LenProperties
<1>2. \A i \in 1 .. Len(m) : i \in 1 .. Len(m2) /\ m2[i] = m[i]
  BY DEF Grows
<1>3. ASSUME NEW i \in 1 .. Len(m2), i \notin 1 .. Len(m) PROVE ~IsHit(m2[i])
  <2>1. PICK k \in 1 .. Len(q) : m2[i] = q[k]
    BY <1>3 DEF Grows
  <2> QED
    BY <2>1
<1> QED
  BY <1>1, <1>2, <1>3 DEF Trains

\* The decision of the event replaces the attacker's previous one, which is
\* completed.
LEMMA Storing ==
  ASSUME NEW a, NEW m, NEW D, NEW T, NEW e \in Nat, NEW n \in Nat,
         LearnerInv(a, m, D, T, e, n),
         NEW ip \in IPs, NEW s \in States, s[1] = ip, s[2] = e + 1,
         NEW t \in Decisions, t.state = s, t.reward \in {0, CooldownPenalty},
         NEW n2 \in Nat, NEW D2 \in [IPs -> Pendings],
         \/ D2 = D /\ n2 = n
         \/ /\ D2[ip].state = s /\ n2 = n + 1
            /\ \A jp \in IPs \ {ip} : D2[jp] = D[jp]
  PROVE  \E a2, m2, T2 :
           /\ Stored(Learner(a, m, D2, T), ip, t) = Learner(a2, m2, D2, T2)
           /\ LearnerInv(a2, m2, D2, T2, e + 1, n2) /\ MadeInv(m2, e)
           /\ T2[ip] = t /\ Trains(a, m, a2, m2)
<1> DEFINE T2 == Put(T, ip, t)
<1>1. /\ a \in Agents(Experiences) /\ InPhase(a) /\ ReplayInv(a, m)
      /\ m \in Seq(Experiences) /\ D \in [IPs -> Pendings] /\ T \in [IPs -> Transitions]
      /\ MemoryInv(m, D, T, e, n)
  BY DEF LearnerInv, LearnerType
<1>2. /\ T2 \in [IPs -> Transitions] /\ T2[ip] = t
      /\ \A jp \in IPs \ {ip} : T2[jp] = T[jp]
  BY <1>1 DEF Put, Transitions
<1>3. a.steps \in Nat
  BY <1>1 DEF Agents
<1>4. CASE T[ip] = None
  <2>1. Stored(Learner(a, m, D2, T), ip, t) = Learner(a, m, D2, T2)
    BY <1>4, StoredIs
  <2> HIDE DEF T2
  <2>2. MemoryInv(m, D, T, e + 1, n)
    BY <1>1, Counting
  <2>3. MadeInv(m, e) /\ PendingInv(D, T, e)
    BY <1>1 DEF MemoryInv
  <2>4. MemoryInv(m, D2, T2, e + 1, n2)
    BY <1>1, <1>2, <2>2, <2>3, Keeping
  <2>5. LearnerInv(a, m, D2, T2, e + 1, n2)
    BY <1>1, <1>2, <2>4 DEF LearnerInv, LearnerType
  <2>6. Trains(a, m, a, m)
    <3>1. Len(m) \in Nat /\ a.steps <= a.steps
      BY <1>1, <1>3, LenProperties
    <3> QED
      BY <1>3, <3>1 DEF Trains
  <2> QED
    BY <1>2, <2>1, <2>3, <2>5, <2>6
<1>5. CASE T[ip] # None
  <2> DEFINE x == Advanced(T[ip], s)
             q == <<x>>
             a2 == Remembered(a, q)
             m2 == m \o q
             T0 == [T EXCEPT ![ip] = None]
  <2>0. x = Advanced(T[ip], t.state)
    OBVIOUS
  <2>2. /\ x \in Experiences /\ ~IsHit(x) /\ ~IsPenalty(x)
        /\ x.state = T[ip].state /\ x.next = s /\ x.done = FALSE
    <3>1. T[ip] \in Decisions /\ T[ip].reward \in {0, CooldownPenalty}
      BY <1>1, <1>5 DEF MemoryInv, PendingInv, Transitions
    <3> QED
      BY <1>5, <3>1, Completes
  <2> HIDE DEF x
  <2>1. Stored(Learner(a, m, D2, T), ip, t) = Learner(a2, m2, D2, T2)
    BY <1>5, <2>0, CompletedIs
  <2>3. q \in Seq(Experiences) /\ \A k \in 1 .. Len(q) : q[k] = x
    BY <2>2
  <2>4. m2 \in Seq(Experiences) /\ Grows(m, q, m2) /\ GrowsBy(m, x, m2)
    BY <1>1, <2>2, GrownBy, GrownByOne
  <2>5. T0 \in [IPs -> Transitions] /\ Drops(T, ip, T0) /\ \A jp \in IPs \ {ip} : T0[jp] = T[jp]
    BY <1>1 DEF Drops, Transitions, Decisions
  <2> HIDE DEF T0, T2, m2, q
  <2>6. MemoryInv(m2, D, T0, e + 1, n) /\ MadeInv(m2, e) /\ PendingInv(D, T0, e)
    <3>1. x.next[1] = ip /\ x.next[2] = e + 1
      BY <2>2
    <3> QED
      BY <1>1, <1>5, <2>2, <2>4, <2>5, <3>1, Completing
  <2>7. MemoryInv(m2, D2, T2, e + 1, n2)
    <3>1. \A jp \in IPs \ {ip} : T2[jp] = T0[jp]
      BY <1>2, <2>5
    <3> QED
      BY <1>1, <1>2, <2>4, <2>5, <2>6, <3>1, Keeping
  <2>8. /\ a2 \in Agents(Experiences) /\ InPhase(a2) /\ a2.steps = a.steps
        /\ ReplayInv(a2, m2)
    BY <1>1, <2>3, ReplayGrows DEF m2
  <2> HIDE DEF a2
  <2>9. LearnerInv(a2, m2, D2, T2, e + 1, n2)
    BY <1>2, <2>4, <2>7, <2>8 DEF LearnerInv, LearnerType
  <2>10. Trains(a, m, a2, m2)
    <3>1. a2.steps \in Nat /\ a.steps <= a2.steps
      BY <1>3, <2>8
    <3>2. \A k \in 1 .. Len(q) : ~IsHit(q[k])
      BY <2>2, <2>3
    <3> QED
      BY <1>1, <1>3, <2>3, <2>4, <3>1, <3>2, TrainsNoHit
  <2> QED
    BY <1>2, <2>1, <2>6, <2>9, <2>10
<1> QED
  BY <1>4, <1>5

\* The experience of a hit.
LEMMA HitIs ==
  ASSUME NEW t \in Decisions, t.reward \in {0, CooldownPenalty}
  PROVE  LET x == HitExperience(t)
         IN /\ x \in Experiences /\ IsHit(x) /\ ~IsPenalty(x)
            /\ x.state = t.state /\ x.next = x.state /\ x.done = FALSE
<1> DEFINE x == HitExperience(t)
           r == t.reward + AttackReward
<1>1. /\ t.state \in States /\ r \in Rewards /\ r >= AttackReward - 1
  BY RewardIs DEF Transitions, Decisions
<1> HIDE DEF r
<1>2. x = [state |-> t.state, action |-> "deploy", reward |-> r, next |-> t.state,
           done |-> FALSE]
  BY DEF HitExperience, Experience, r
<1> HIDE DEF x
<1>3. x \in Experiences
  BY <1>1, <1>2 DEF Experiences
<1>4. x.state = t.state /\ x.next = x.state /\ x.done = FALSE /\ x.reward = r
  BY <1>2
<1>5. IsHit(x) /\ ~IsPenalty(x)
  BY <1>1, <1>4 DEF IsHit, IsPenalty
<1> QED
  BY <1>3, <1>4, <1>5 DEF x

\* A hit takes what is pending for its attacker, and is trained on.
LEMMA Hitting ==
  ASSUME NEW a, NEW m, NEW D, NEW T, NEW e \in Nat, NEW n \in Nat,
         LearnerInv(a, m, D, T, e + 1, n), MadeInv(m, e),
         NEW ip \in IPs, T[ip] \in Decisions, T[ip].state[1] = ip, T[ip].state[2] = e + 1,
         T[ip].reward \in {0, CooldownPenalty}, NEW hit \in BOOLEAN
  PROVE  \E a2, m2, D2, T2 :
           /\ Rewarded(Learner(a, m, D, T), ip, hit) = Learner(a2, m2, D2, T2)
           /\ LearnerInv(a2, m2, D2, T2, e + 1, n) /\ Trains(a, m, a2, m2)
<1>1. /\ a \in Agents(Experiences) /\ InPhase(a) /\ ReplayInv(a, m)
      /\ m \in Seq(Experiences) /\ D \in [IPs -> Pendings] /\ T \in [IPs -> Transitions]
      /\ MemoryInv(m, D, T, e + 1, n)
  BY DEF LearnerInv, LearnerType
<1>2. a.steps \in Nat /\ Len(m) \in Nat
  BY <1>1, LenProperties DEF Agents
<1>3. CASE ~hit \/ D[ip] = None
  <2>1. Rewarded(Learner(a, m, D, T), ip, hit) = Learner(a, m, D, T)
    BY <1>3, NotRewardedIs
  <2>2. Trains(a, m, a, m)
    <3>1. a.steps <= a.steps
      BY <1>2
    <3> QED
      BY <1>2, <3>1 DEF Trains
  <2> QED
    BY <2>1, <2>2
<1>4. CASE hit /\ D[ip] # None
  <2> DEFINE x == HitExperience(T[ip])
             q == <<x>>
             b == Remembered(a, q)
             a2 == Trained(b, 1)
             m2 == m \o q
             D2 == Put(D, ip, None)
             T2 == Put(T, ip, None)
  <2>0. x = HitExperience(T[ip])
    OBVIOUS
  <2>1. /\ x \in Experiences /\ IsHit(x) /\ ~IsPenalty(x) /\ x.done = FALSE
        /\ x.state = T[ip].state /\ x.next = x.state
    BY HitIs
  <2> HIDE DEF x
  <2>2. Rewarded(Learner(a, m, D, T), ip, hit) = Learner(a2, m2, D2, T2)
    <3>1. AfterHit(Learner(a, m, D, T), ip) = Learner(a2, m2, D2, T2)
      BY <2>0, AfterHitIs
    <3>2. Learner(a, m, D, T).deploys = D
      BY DEF Learner
    <3>3. Rewarded(Learner(a, m, D, T), ip, hit) = AfterHit(Learner(a, m, D, T), ip)
      BY <1>4, <3>2 DEF Rewarded, AfterHit
    <3> QED
      BY <3>1, <3>3
  <2>3. m2 \in Seq(Experiences) /\ GrowsBy(m, x, m2) /\ q \in Seq(Experiences)
    BY <1>1, <2>1, GrownBy, GrownByOne
  <2>4. /\ D2 \in [IPs -> Pendings] /\ Drops(D, ip, D2)
        /\ T2 \in [IPs -> Transitions] /\ Drops(T, ip, T2)
    BY <1>1 DEF Drops, Transitions, Decisions, Pendings, Put
  <2> HIDE DEF q, D2, T2
  <2>5. /\ b \in Agents(Experiences) /\ InPhase(b) /\ b.steps = a.steps /\ ReplayInv(b, m2)
    BY <1>1, <2>3, ReplayGrows
  <2> HIDE DEF b, m2
  <2>6. /\ a2 \in Agents(Experiences) /\ InPhase(a2) /\ a2.replay = b.replay
        /\ a2.steps >= b.steps
        /\ Len(b.replay) >= BatchSize => a2.steps > b.steps
    BY <2>5, TrainedIs
  <2> HIDE DEF a2
  <2>7. ReplayInv(a2, m2)
    BY <2>5, <2>6 DEF ReplayInv
  <2>8. MemoryInv(m2, D2, T2, e + 1, n)
    <3>1. x.state[1] = ip /\ x.state[2] = e + 1
      BY <2>1
    <3> QED
      BY <1>1, <1>4, <2>1, <2>3, <2>4, <3>1, Rewarding
  <2>9. LearnerInv(a2, m2, D2, T2, e + 1, n)
    BY <2>3, <2>4, <2>6, <2>7, <2>8 DEF LearnerInv, LearnerType
  <2>10. Trains(a, m, a2, m2)
    <3>1. /\ a2.steps \in Nat /\ a.steps <= a2.steps
          /\ Len(b.replay) \in Nat /\ BatchSize \in Nat /\ Capacity \in Nat
          /\ a2.steps > a.steps \/ Len(b.replay) < BatchSize
      <4>1. a2.steps \in Nat /\ Len(b.replay) \in Nat /\ BatchSize \in Nat /\ Capacity \in Nat
        BY <2>5, <2>6, LearningAssumption, LenProperties DEF Agents
      <4> QED
        BY <1>2, <2>5, <2>6, <4>1
    <3>2. /\ Len(m2) = Len(m) + 1 /\ Len(m2) \in Nat
          /\ \A i \in 1 .. Len(m) : i \in 1 .. Len(m2) /\ m2[i] = m[i]
          /\ \A i \in 1 .. Len(m2) : i \notin 1 .. Len(m) => i = Len(m2)
      BY <1>2, <2>3 DEF GrowsBy
    <3>3. Min({Len(m2), Capacity}) = Len(b.replay)
      <4>1. Len(b.replay) = IF Len(m2) <= Capacity THEN Len(m2) ELSE Capacity
        BY <2>5 DEF ReplayInv
      <4>2. /\ {Len(m2), Capacity} \in SUBSET Nat /\ Len(b.replay) \in {Len(m2), Capacity}
            /\ \A i \in {Len(m2), Capacity} : Len(b.replay) <= i
        BY <3>1, <3>2, <4>1
      <4> QED
        BY <4>2, LeastIs
    <3> QED
      BY <1>2, <3>1, <3>2, <3>3 DEF Trains
  <2> QED
    BY <2>2, <2>9, <2>10
<1> QED
  BY <1>3, <1>4

\* What a maintenance takes away is no longer pending.
LEMMA WithoutIs ==
  ASSUME NEW X, NEW f \in [IPs -> X \cup {None}], NEW S
  PROVE  Without(f, S) \in [IPs -> X \cup {None}] /\ Clears(f, S, Without(f, S))
BY DEF Without, Clears

\* Periodic maintenance.
LEMMA Maintaining ==
  ASSUME NEW a, NEW m, NEW D, NEW T, NEW e \in Nat, NEW n \in Nat,
         LearnerInv(a, m, D, T, e, n), NEW now \in Nat
  PROVE  \E a2, m2, D2, T2 :
           /\ Maintained(Learner(a, m, D, T), now) = Learner(a2, m2, D2, T2)
           /\ LearnerInv(a2, m2, D2, T2, e, n) /\ Trains(a, m, a2, m2)
<1> DEFINE p == PenaltiesOf(D, now)
           f == FinalsOf(T, now)
           b == Trained(a, TrainIterations)
           c == Remembered(b, p)
           a2 == Remembered(c, f)
           m1 == m \o p
           m2 == m1 \o f
           E == Expired(D, now)
           S == Stale(T, now)
           D2 == Without(D, E)
           T2 == Without(T, S)
<1>1. Maintained(Learner(a, m, D, T), now) = Learner(a2, m2, D2, T2)
  BY MaintainedIs
<1>2. /\ a \in Agents(Experiences) /\ InPhase(a) /\ ReplayInv(a, m)
      /\ m \in Seq(Experiences) /\ D \in [IPs -> Pendings] /\ T \in [IPs -> Transitions]
      /\ MemoryInv(m, D, T, e, n)
  BY DEF LearnerInv, LearnerType
<1>3. /\ D2 \in [IPs -> Pendings] /\ Clears(D, E, D2)
      /\ T2 \in [IPs -> Transitions] /\ Clears(T, S, T2)
  BY <1>2, WithoutIs DEF Pendings, Transitions, Decisions
<1>4. /\ E \subseteq WaitingIn(D) /\ p \in Seq(Experiences) /\ Len(p) = Cardinality(E)
      /\ \A k \in 1 .. Len(p) : /\ IsPenalty(p[k]) /\ p[k].done /\ ~IsHit(p[k])
                                /\ \E ip \in E : p[k].state = D[ip].state
  BY <1>2, PenaltiesAre
<1>5. /\ S \subseteq {ip \in IPs : T[ip] # None} /\ f \in Seq(Experiences)
      /\ \E o \in [1 .. Len(f) -> S] :
           /\ \A k, l \in 1 .. Len(f) : o[k] = o[l] => k = l
           /\ \A k \in 1 .. Len(f) : /\ ~IsPenalty(f[k]) /\ ~IsHit(f[k]) /\ f[k].done
                                     /\ f[k].state = T[o[k]].state
  <2>1. \A ip \in IPs : T[ip] # None => T[ip].reward \in {0, CooldownPenalty}
    BY <1>2 DEF MemoryInv, PendingInv
  <2> QED
    BY <1>2, <2>1, FinalsAre
<1>6. /\ b \in Agents(Experiences) /\ InPhase(b) /\ b.replay = a.replay /\ b.steps >= a.steps
  <2>1. TrainIterations \in Nat
    BY LearningAssumption
  <2> QED
    BY <1>2, <2>1, TrainedIs
<1> HIDE DEF p, f, b, E, S, D2, T2
<1>7. ReplayInv(b, m)
  BY <1>2, <1>6 DEF ReplayInv
<1>8. m1 \in Seq(Experiences) /\ Grows(m, p, m1)
  BY <1>2, <1>4, Grown
<1>9. /\ c \in Agents(Experiences) /\ InPhase(c) /\ c.steps = b.steps /\ ReplayInv(c, m1)
  BY <1>2, <1>4, <1>6, <1>7, ReplayGrows
<1> HIDE DEF c, m1
<1>10. m2 \in Seq(Experiences) /\ Grows(m1, f, m2)
  BY <1>5, <1>8, Grown
<1>11. /\ a2 \in Agents(Experiences) /\ InPhase(a2) /\ a2.steps = c.steps /\ ReplayInv(a2, m2)
  BY <1>5, <1>8, <1>9, ReplayGrows
<1> HIDE DEF a2, m2
<1>12. MemoryInv(m1, D2, T, e, n)
  BY <1>2, <1>3, <1>4, <1>8, Penalising
<1>13. MemoryInv(m2, D2, T2, e, n)
  <2>1. PICK o \in [1 .. Len(f) -> S] :
           /\ \A k, l \in 1 .. Len(f) : o[k] = o[l] => k = l
           /\ \A k \in 1 .. Len(f) : /\ ~IsPenalty(f[k]) /\ ~IsHit(f[k]) /\ f[k].done
                                     /\ f[k].state = T[o[k]].state
    BY <1>5
  <2> QED
    BY <1>2, <1>3, <1>5, <1>8, <1>10, <1>12, <2>1, Finalising
<1>14. LearnerInv(a2, m2, D2, T2, e, n)
  BY <1>3, <1>10, <1>11, <1>13 DEF LearnerInv, LearnerType
<1>15. /\ a.steps \in Nat /\ c.steps \in Nat /\ a2.steps \in Nat
       /\ a.steps <= c.steps /\ c.steps <= a2.steps
  <2>1. a.steps \in Nat /\ b.steps \in Nat /\ c.steps \in Nat /\ a2.steps \in Nat
    BY <1>2, <1>6, <1>9, <1>11 DEF Agents
  <2> QED
    BY <1>6, <1>9, <1>11, <2>1
<1>16. Trains(a, m, c, m1)
  BY <1>2, <1>4, <1>8, <1>15, TrainsNoHit
<1>17. Trains(c, m1, a2, m2)
  <2>1. \A k \in 1 .. Len(f) : ~IsHit(f[k])
    BY <1>5
  <2> QED
    BY <1>5, <1>8, <1>10, <1>15, <2>1, TrainsNoHit
<1>18. Trains(a, m, a2, m2)
  BY <1>16, <1>17, TrainsOn
<1> QED
  BY <1>1, <1>14, <1>18

-----------------------------------------------------------------------------
(* The steps of the loop. *)

\* An event that is not aborted: decision, hit and, when due, maintenance.
LEMMA Finishing ==
  ASSUME IInv, events < MaxEvents, clock' \in Nat,
         NEW ip \in IPs, NEW action \in {"wait", "deploy"},
         NEW reward \in {0, CooldownPenalty}, NEW hit \in BOOLEAN,
         triggered' \in Nat, NEW D2 \in [IPs -> Pendings],
         \/ D2 = deploys /\ triggered' = triggered
         \/ /\ D2[ip].state = <<ip, events + 1>> /\ triggered' = triggered + 1
            /\ \A jp \in IPs \ {ip} : D2[jp] = deploys[jp],
         NEW p \in [IPs -> Nat \cup {None}],
         Finish(ip, action, reward, hit, D2, p)
  PROVE  /\ LearnerInv(agent', memory', deploys', transitions', events + 1, triggered')
         /\ Trains(agent, memory, agent', memory')
         /\ processed' \in Nat /\ pods' \in [IPs -> Nat \cup {None}]
<1> DEFINE s == <<ip, events + 1>>
           t == [state |-> s, action |-> action, reward |-> reward, time |-> clock]
           stored == Stored(Learner(agent, memory, D2, transitions), ip, t)
           after == Rewarded(stored, ip, hit)
           due == (processed + 1) % MaintenanceEvery = 0
           final == IF due THEN Maintained(after, clock') ELSE after
<1>p. PICK n2 : n2 = triggered'
  OBVIOUS
<1>1. /\ agent' = final.agent /\ memory' = final.memory /\ deploys' = final.deploys
      /\ transitions' = final.transitions /\ processed' = processed + 1
      /\ pods' = IF due THEN CleanedUp(p, clock') ELSE p
  BY DEF Finish, Learner
<1>2. /\ events \in Nat /\ triggered \in Nat /\ clock \in Nat /\ processed \in Nat
      /\ LearnerInv(agent, memory, deploys, transitions, events, triggered)
  BY DEF IInv, TypeOK
<1>3. s \in States /\ s[1] = ip /\ s[2] = events + 1
  <2>1. events + 1 \in 1 .. MaxEvents
    BY <1>2, EventLoopAssumption
  <2> QED
    BY <2>1 DEF States
<1> HIDE DEF s
<1>4. /\ t \in Decisions /\ t.state = s /\ t.reward \in {0, CooldownPenalty}
  <2>1. reward \in Rewards
    BY RewardIs
  <2> QED
    BY <1>2, <1>3, <2>1 DEF Decisions
<1> HIDE DEF t
<1>5. \E a1, m1, T1 :
        /\ stored = Learner(a1, m1, D2, T1)
        /\ LearnerInv(a1, m1, D2, T1, events + 1, n2) /\ MadeInv(m1, events)
        /\ T1[ip] = t /\ Trains(agent, memory, a1, m1)
  <2>1. \/ D2 = deploys /\ n2 = triggered
        \/ /\ D2[ip].state = s /\ n2 = triggered + 1
           /\ \A jp \in IPs \ {ip} : D2[jp] = deploys[jp]
    BY <1>p DEF s
  <2>2. n2 \in Nat
    BY <1>p
  <2> QED
    BY <1>2, <1>3, <1>4, <2>1, <2>2, Storing
<1> HIDE DEF stored
<1>6. PICK a1, m1, T1 :
        /\ stored = Learner(a1, m1, D2, T1)
        /\ LearnerInv(a1, m1, D2, T1, events + 1, n2) /\ MadeInv(m1, events)
        /\ T1[ip] = t /\ Trains(agent, memory, a1, m1)
  BY <1>5
<1>7. \E a2, m2, D, T :
        /\ after = Learner(a2, m2, D, T)
        /\ LearnerInv(a2, m2, D, T, events + 1, n2) /\ Trains(a1, m1, a2, m2)
  <2>1. /\ T1[ip] \in Decisions /\ T1[ip].state[1] = ip /\ T1[ip].state[2] = events + 1
        /\ T1[ip].reward \in {0, CooldownPenalty}
    BY <1>3, <1>4, <1>6
  <2>2. \E a2, m2, D, T :
          /\ Rewarded(Learner(a1, m1, D2, T1), ip, hit) = Learner(a2, m2, D, T)
          /\ LearnerInv(a2, m2, D, T, events + 1, n2) /\ Trains(a1, m1, a2, m2)
    BY <1>p, <1>2, <1>6, <2>1, Hitting
  <2> QED
    BY <1>6, <2>2
<1> HIDE DEF after
<1>8. PICK a2, m2, D, T :
        /\ after = Learner(a2, m2, D, T)
        /\ LearnerInv(a2, m2, D, T, events + 1, n2) /\ Trains(a1, m1, a2, m2)
  BY <1>7
<1>9. Trains(agent, memory, a2, m2)
  BY <1>6, <1>8, TrainsOn
<1>10. \E a3, m3, D3, T3 :
         /\ final = Learner(a3, m3, D3, T3)
         /\ LearnerInv(a3, m3, D3, T3, events + 1, n2) /\ Trains(agent, memory, a3, m3)
  <2>1. CASE due
    <3>1. events + 1 \in Nat
      BY <1>2
    <3>2. PICK a3, m3, D3, T3 :
            /\ Maintained(Learner(a2, m2, D, T), clock') = Learner(a3, m3, D3, T3)
            /\ LearnerInv(a3, m3, D3, T3, events + 1, n2) /\ Trains(a2, m2, a3, m3)
      BY <1>p, <1>8, <3>1, Maintaining
    <3>3. Trains(agent, memory, a3, m3)
      BY <1>9, <3>2, TrainsOn
    <3>4. final = Learner(a3, m3, D3, T3)
      BY <1>8, <2>1, <3>2
    <3> QED
      BY <3>2, <3>3, <3>4
  <2>2. CASE ~due
    BY <1>8, <1>9, <2>2
  <2> QED
    BY <2>1, <2>2
<1> HIDE DEF final
<1>11. PICK a3, m3, D3, T3 :
         /\ final = Learner(a3, m3, D3, T3)
         /\ LearnerInv(a3, m3, D3, T3, events + 1, n2) /\ Trains(agent, memory, a3, m3)
  BY <1>10
<1>12. agent' = a3 /\ memory' = m3 /\ deploys' = D3 /\ transitions' = T3
  BY <1>1, <1>11 DEF Learner
<1>13. processed' \in Nat /\ pods' \in [IPs -> Nat \cup {None}]
  BY <1>1, <1>2 DEF CleanedUp, Without
<1> QED
  BY <1>p, <1>11, <1>12, <1>13

LEMMA Finished ==
  ASSUME IInv, NextEvent, clock' \in Nat, lastDeploy' \in [IPs -> Nat \cup {None}],
         NEW ip \in IPs, NEW action \in {"wait", "deploy"},
         NEW reward \in {0, CooldownPenalty}, NEW hit \in BOOLEAN,
         NEW D2 \in [IPs -> Pendings],
         \/ D2 = deploys /\ triggered' = triggered
         \/ /\ D2[ip].state = <<ip, events + 1>> /\ triggered' = triggered + 1
            /\ \A jp \in IPs \ {ip} : D2[jp] = deploys[jp],
         NEW p \in [IPs -> Nat \cup {None}],
         Finish(ip, action, reward, hit, D2, p)
  PROVE  IInv' /\ Trains(agent, memory, agent', memory')
<1>1. /\ events < MaxEvents /\ events' = events + 1 /\ arity' = arity /\ k8s' = k8s
      /\ events \in Nat /\ triggered \in Nat
      /\ arity \in Arities /\ k8s \in BOOLEAN
  BY DEF NextEvent, IInv, TypeOK
<1>2. triggered' \in Nat /\ events' \in Nat
  BY <1>1
<1>3. /\ LearnerInv(agent', memory', deploys', transitions', events + 1, triggered')
      /\ Trains(agent, memory, agent', memory')
      /\ processed' \in Nat /\ pods' \in [IPs -> Nat \cup {None}]
  BY <1>1, <1>2, Finishing
<1>4. LearnerInv(agent', memory', deploys', transitions', events', triggered')
  BY <1>1, <1>3
<1>5. /\ agent' \in Agents(Experiences) /\ memory' \in Seq(Experiences)
      /\ deploys' \in [IPs -> Pendings] /\ transitions' \in [IPs -> Transitions]
  BY <1>3 DEF LearnerInv, LearnerType
<1>6. TypeOK'
  BY <1>1, <1>2, <1>3, <1>5 DEF TypeOK, Pendings, Transitions, Decisions
<1> QED
  BY <1>3, <1>4, <1>6 DEF IInv

\* Nothing happens to the learner.
LEMMA Stutters == ASSUME IInv PROVE Trains(agent, memory, agent, memory)
<1>1. agent.steps \in Nat /\ Len(memory) \in Nat
  BY LenProperties DEF IInv, TypeOK, Agents
<1>2. agent.steps <= agent.steps
  BY <1>1
<1> QED
  BY <1>1, <1>2 DEF Trains

\* An event that is aborted before the learner sees it.
LEMMA Skipped ==
  ASSUME IInv, NextEvent, clock' \in Nat, pods' \in [IPs -> Nat \cup {None}],
         UNCHANGED <<processed, triggered, lastDeploy, deploys, transitions, agent, memory>>
  PROVE  IInv' /\ Trains(agent, memory, agent', memory')
<1>1. /\ events' = events + 1 /\ arity' = arity /\ k8s' = k8s /\ events \in Nat
      /\ LearnerInv(agent, memory, deploys, transitions, events, triggered)
  BY DEF NextEvent, IInv, TypeOK
<1>2. LearnerInv(agent, memory, deploys, transitions, events + 1, triggered)
  BY <1>1, Counting DEF LearnerInv, LearnerType
<1>3. LearnerInv(agent', memory', deploys', transitions', events', triggered')
  BY <1>1, <1>2
<1>4. TypeOK'
  <2>1. TypeOK /\ events' \in Nat
    BY <1>1 DEF IInv
  <2> QED
    BY <1>1, <2>1 DEF TypeOK
<1>5. Trains(agent, memory, agent', memory')
  BY Stutters
<1> QED
  BY <1>3, <1>4, <1>5 DEF IInv

LEMMA Types ==
  ASSUME IInv
  PROVE  /\ clock \in Nat /\ events \in Nat /\ triggered \in Nat
         /\ lastDeploy \in [IPs -> Nat \cup {None}] /\ pods \in [IPs -> Nat \cup {None}]
         /\ deploys \in [IPs -> Pendings]
         /\ \A ip \in IPs : NewPod(ip) \in [IPs -> Nat \cup {None}]
         /\ Blocks => clock' \in Nat
<1>1. /\ clock \in Nat /\ events \in Nat /\ triggered \in Nat
      /\ lastDeploy \in [IPs -> Nat \cup {None}] /\ pods \in [IPs -> Nat \cup {None}]
      /\ deploys \in [IPs -> Pendings]
  BY DEF IInv, TypeOK, Pendings
<1>2. ASSUME NEW ip \in IPs PROVE NewPod(ip) \in [IPs -> Nat \cup {None}]
  BY <1>1 DEF NewPod
<1>3. ASSUME Blocks PROVE clock' \in Nat
  <2>1. PICK w \in Waits : clock' = clock + w
    BY <1>3 DEF Blocks
  <2>2. w \in Nat
    BY EventLoopAssumption
  <2> QED
    BY <1>1, <2>1, <2>2
<1> QED
  BY <1>1, <1>2, <1>3

LEMMA Steps ==
  ASSUME IInv, [Next]_vars
  PROVE  IInv' /\ Trains(agent, memory, agent', memory')
<1>0. /\ clock \in Nat /\ events \in Nat /\ triggered \in Nat
      /\ lastDeploy \in [IPs -> Nat \cup {None}] /\ pods \in [IPs -> Nat \cup {None}]
      /\ deploys \in [IPs -> Pendings]
      /\ \A ip \in IPs : NewPod(ip) \in [IPs -> Nat \cup {None}]
      /\ Blocks => clock' \in Nat
  BY Types
<1>z. 0 \in {0, CooldownPenalty} /\ CooldownPenalty \in {0, CooldownPenalty}
  OBVIOUS
<1>1. CASE Tick
  <2>1. /\ clock' \in Nat
        /\ UNCHANGED <<arity, k8s, events, processed, triggered, lastDeploy, deploys,
                       transitions, agent, memory, pods>>
    BY <1>0, <1>1 DEF Tick
  <2>2. TypeOK'
    BY <2>1 DEF IInv, TypeOK
  <2>3. LearnerInv(agent', memory', deploys', transitions', events', triggered')
    BY <2>1 DEF IInv
  <2> QED
    BY <2>1, <2>2, <2>3, Stutters DEF IInv
<1>2. CASE Unreadable
  <2>1. /\ NextEvent /\ clock' \in Nat /\ pods' \in [IPs -> Nat \cup {None}]
        /\ UNCHANGED <<processed, triggered, lastDeploy, deploys, transitions, agent, memory>>
    BY <1>0, <1>2 DEF Unreadable
  <2> QED
    BY <2>1, Skipped
<1>3. ASSUME NEW ip \in IPs, NEW hit \in BOOLEAN, Wait(ip, hit)
      PROVE  IInv' /\ Trains(agent, memory, agent', memory')
  <2>1. /\ NextEvent /\ clock' \in Nat /\ lastDeploy' \in [IPs -> Nat \cup {None}]
        /\ Finish(ip, "wait", 0, hit, deploys, pods) /\ triggered' = triggered
    BY <1>0, <1>3 DEF Wait
  <2> QED
    BY <1>0, <1>z, <2>1, Finished
<1>4. ASSUME NEW ip \in IPs, NEW hit \in BOOLEAN, Refuse(ip, hit)
      PROVE  IInv' /\ Trains(agent, memory, agent', memory')
  <2>1. /\ NextEvent /\ clock' \in Nat /\ lastDeploy' \in [IPs -> Nat \cup {None}]
        /\ Finish(ip, "deploy", CooldownPenalty, hit, deploys, pods)
        /\ triggered' = triggered
    BY <1>0, <1>4 DEF Refuse
  <2> QED
    BY <1>0, <1>z, <2>1, Finished
<1>5. ASSUME NEW ip \in IPs, NEW hit \in BOOLEAN, NoDeploy(ip, hit)
      PROVE  IInv' /\ Trains(agent, memory, agent', memory')
  <2>1. /\ NextEvent /\ clock' \in Nat /\ lastDeploy' \in [IPs -> Nat \cup {None}]
        /\ triggered' = triggered
    BY <1>0, <1>5 DEF NoDeploy
  <2>2. PICK p \in {pods} \cup (IF k8s THEN {NewPod(ip)} ELSE {}) :
          Finish(ip, "deploy", 0, hit, deploys, p)
    BY <1>5 DEF NoDeploy
  <2>3. p \in [IPs -> Nat \cup {None}]
    BY <1>0
  <2> QED
    BY <1>0, <1>z, <2>1, <2>2, <2>3, Finished
<1>6. ASSUME NEW ip \in IPs, NEW hit \in BOOLEAN, Deploy(ip, hit)
      PROVE  IInv' /\ Trains(agent, memory, agent', memory')
  <2> DEFINE D2 == [deploys EXCEPT ![ip] = [state |-> <<ip, events + 1>>, time |-> clock]]
             p == NewPod(ip)
  <2>1. /\ NextEvent /\ clock' \in Nat /\ triggered' = triggered + 1
        /\ lastDeploy' = [lastDeploy EXCEPT ![ip] = clock]
        /\ Finish(ip, "deploy", 0, hit, D2, p)
    BY <1>0, <1>6 DEF Deploy
  <2>2. lastDeploy' \in [IPs -> Nat \cup {None}]
    BY <1>0, <2>1
  <2>3. <<ip, events + 1>> \in States
    <3>1. events + 1 \in 1 .. MaxEvents
      BY <1>0, <2>1, EventLoopAssumption DEF NextEvent
    <3> QED
      BY <3>1 DEF States
  <2>4. /\ D2 \in [IPs -> Pendings] /\ D2[ip].state = <<ip, events + 1>>
        /\ \A jp \in IPs \ {ip} : D2[jp] = deploys[jp]
    <3> DEFINE d == [state |-> <<ip, events + 1>>, time |-> clock]
    <3>1. d \in Pendings /\ d.state = <<ip, events + 1>>
      BY <1>0, <2>3 DEF Pendings
    <3> HIDE DEF d
    <3>2. D2 = [deploys EXCEPT ![ip] = d]
      BY DEF d
    <3> HIDE DEF D2
    <3> QED
      BY <1>0, <3>1, <3>2
  <2>5. p \in [IPs -> Nat \cup {None}]
    BY <1>0
  <2> HIDE DEF D2, p
  <2> QED
    BY <1>z, <2>1, <2>2, <2>4, <2>5, Finished
<1>7. ASSUME NEW ip \in IPs, Abort(ip)
      PROVE  IInv' /\ Trains(agent, memory, agent', memory')
  <2>1. /\ NextEvent /\ clock' \in Nat /\ pods' \in [IPs -> Nat \cup {None}]
        /\ UNCHANGED <<processed, triggered, lastDeploy, deploys, transitions, agent, memory>>
    BY <1>0, <1>7 DEF Abort
  <2> QED
    BY <2>1, Skipped
<1>8. CASE UNCHANGED vars
  <2>1. TypeOK'
    BY <1>8 DEF vars, IInv, TypeOK
  <2>2. LearnerInv(agent', memory', deploys', transitions', events', triggered')
    BY <1>8 DEF vars, IInv
  <2>3. agent' = agent /\ memory' = memory
    BY <1>8 DEF vars
  <2> QED
    BY <2>1, <2>2, <2>3, Stutters DEF IInv
<1> QED
  BY <1>1, <1>2, <1>3, <1>4, <1>5, <1>6, <1>7, <1>8 DEF Next, Event

-----------------------------------------------------------------------------
(* The theorems. *)

LEMMA Starts == Init => IInv
<1> SUFFICES ASSUME Init PROVE IInv
  OBVIOUS
<1> USE DEF Init
<1>1. /\ NewAgent.replay = <<>> /\ NewAgent.steps = 0 /\ NewAgent.target = 0
      /\ NewAgent \in Agents(Experiences) /\ InPhase(NewAgent)
  <2>1. TargetEvery \in Nat \ {0} /\ Capacity \in Nat
    BY LearningAssumption
  <2>2. 0 = 0 * TargetEvery /\ 0 < 0 + TargetEvery /\ 0 <= Capacity
    BY <2>1
  <2>3. <<>> \in Seq(Experiences) /\ Len(<<>>) = 0
    OBVIOUS
  <2> QED
    BY <2>2, <2>3 DEF NewAgent, Agents, InPhase
<1>2. memory \in Seq(Experiences) /\ Len(memory) = 0
  OBVIOUS
<1>3. TypeOK
  <2>1. {clock, events, processed, triggered} \subseteq Nat
    OBVIOUS
  <2> QED
    BY <1>1, <1>2, <2>1 DEF TypeOK
<1>4. LearnerType(agent, memory, deploys, transitions)
  <2>1. ReplayInv(agent, memory)
    <3>1. Capacity \in Nat
      BY LearningAssumption
    <3> QED
      BY <1>1, <1>2, <3>1 DEF ReplayInv
  <2> QED
    BY <1>1, <1>2, <2>1 DEF LearnerType, Pendings, Transitions
<1>5. JudgedInv(memory, deploys, triggered)
  <2>1. Count(memory, Verdicts) = 0
    <3>1. \A i \in 1 .. Len(memory) : memory[i] \notin Verdicts
      BY <1>2
    <3> QED
      BY <1>2, <3>1, CountType
  <2>2. Cardinality(WaitingIn(deploys)) = 0
    <3>1. WaitingIn(deploys) = {}
      BY DEF WaitingIn
    <3> QED
      BY <3>1, FS_EmptySet
  <2> QED
    BY <2>1, <2>2 DEF JudgedInv
<1>6. MemoryInv(memory, deploys, transitions, events, triggered)
  <2>1. 1 .. Len(memory) = {}
    BY <1>2
  <2>2. /\ MadeInv(memory, events) /\ ForwardInv(memory, events)
        /\ OnceInv(memory, transitions) /\ GapInv(memory, deploys, transitions)
    BY <2>1 DEF MadeInv, ForwardInv, OnceInv, GapInv
  <2>3. PendingInv(deploys, transitions, events) /\ LatestInv(memory, deploys, transitions)
    BY DEF PendingInv, LatestInv
  <2> QED
    BY <1>5, <2>2, <2>3 DEF MemoryInv
<1> QED
  BY <1>3, <1>4, <1>6 DEF IInv, LearnerInv

LEMMA Invariance == Spec => []IInv
<1>1. IInv /\ [Next]_vars => IInv'
  BY Steps
<1> QED
  BY Starts, <1>1, PTL DEF Spec

(***************************************************************************)
(* The learner's memory, what is pending and the agent have their types:   *)
(* no reward is counted twice, the replay memory never exceeds its         *)
(* capacity, and the target network is never more than TargetEvery steps   *)
(* behind (agent.py:43-49, 145-171; event_loop.py:193-387).                *)
(***************************************************************************)
THEOREM TypeCorrect == Spec => []TypeOK
<1>1. IInv => TypeOK
  BY DEF IInv
<1> QED
  BY Invariance, <1>1, PTL

(***************************************************************************)
(* A decision enters the replay memory once, whichever of the next event,  *)
(* a hit and the idle timeout completes it (event_loop.py:266-273,         *)
(* 343-346, 378-387).                                                      *)
(***************************************************************************)
THEOREM RememberedOnceAlways == Spec => []RememberedOnce
<1>1. IInv => RememberedOnce
  <2> SUFFICES ASSUME IInv PROVE RememberedOnce
    OBVIOUS
  <2>1. DOMAIN memory = 1 .. Len(memory)
    BY DEF IInv, TypeOK
  <2>2. OnceInv(memory, transitions)
    BY DEF IInv, LearnerInv, MemoryInv
  <2> QED
    BY <2>1, <2>2 DEF RememberedOnce, OnceInv
<1> QED
  BY Invariance, <1>1, PTL

(***************************************************************************)
(* The transitions of one attacker form a chain, with no decision of his,  *)
(* remembered or pending, between the two states of a completed one        *)
(* (event_loop.py:266-273, 343-346).                                       *)
(***************************************************************************)
THEOREM ChainedAlways == Spec => []Chained
<1>1. IInv => Chained
  <2> SUFFICES ASSUME IInv, NEW i \in DOMAIN memory, ~memory[i].done
               PROVE  LET s == memory[i].state
                          n == memory[i].next
                          between(u) == u[1] = s[1] /\ s[2] < u[2] /\ u[2] < n[2]
                      IN /\ n[1] = s[1]
                         /\ n[2] > s[2] \/ (n = s /\ IsHit(memory[i]))
                         /\ \A j \in DOMAIN memory : ~between(memory[j].state)
                         /\ \A ip \in IPs :
                              transitions[ip] # None => ~between(transitions[ip].state)
    BY DEF Chained
  <2>1. DOMAIN memory = 1 .. Len(memory) /\ memory[i] \in Experiences
    BY ElementOfSeq DEF IInv, TypeOK
  <2>2. memory[i].state[2] \in Nat /\ memory[i].next[2] \in Nat
    BY <2>1, StateIs
  <2>3. /\ memory[i].next[1] = memory[i].state[1]
        /\ \/ memory[i].state[2] < memory[i].next[2]
           \/ memory[i].next = memory[i].state /\ IsHit(memory[i])
    BY <2>1 DEF IInv, LearnerInv, MemoryInv, ForwardInv
  <2>4. /\ \A j \in 1 .. Len(memory) : ~Between(memory[j].state, memory[i])
        /\ \A ip \in IPs : transitions[ip] # None => ~Between(transitions[ip].state, memory[i])
    BY <2>1 DEF IInv, LearnerInv, MemoryInv, GapInv
  <2> QED
    BY <2>1, <2>2, <2>3, <2>4 DEF Between
<1> QED
  BY Invariance, <1>1, PTL

(***************************************************************************)
(* A successful deployment is judged at most once: rewarded for a hit or   *)
(* penalised when its time is over, never both (event_loop.py:340, 371).   *)
(***************************************************************************)
THEOREM JudgedOnceAlways == Spec => []JudgedOnce
<1>1. IInv => JudgedOnce
  <2> SUFFICES ASSUME IInv PROVE JudgedOnce
    OBVIOUS
  <2>1. DOMAIN memory = 1 .. Len(memory)
    BY DEF IInv, TypeOK
  <2>2. \A i \in 1 .. Len(memory) : memory[i] \in Experiences
    BY ElementOfSeq DEF IInv, TypeOK
  <2>3. {i \in DOMAIN memory : IsPenalty(memory[i]) \/ IsHit(memory[i])} =
          Positions(memory, Verdicts)
    BY <2>1, <2>2 DEF Positions, Verdicts
  <2>4. JudgedInv(memory, deploys, triggered)
    BY DEF IInv, LearnerInv, MemoryInv
  <2> QED
    BY <2>3, <2>4 DEF JudgedOnce, JudgedInv, Count, WaitingIn
<1> QED
  BY Invariance, <1>1, PTL

(***************************************************************************)
(* "Immediate training on positive examples" (event_loop.py:351): the      *)
(* event that puts a hit into the replay memory makes a training step with *)
(* it there, unless there are too few experiences for a batch.             *)
(***************************************************************************)
THEOREM HitsAreTrainedAlways == Spec => HitsAreTrained
<1> DEFINE A == \A i \in DOMAIN memory' \ DOMAIN memory :
                  IsHit(memory'[i]) => \/ agent'.steps > agent.steps
                                       \/ Min({i, Capacity}) < BatchSize
<1>1. IInv /\ [Next]_vars => [A]_vars
  <2> SUFFICES ASSUME IInv, [Next]_vars,
                      NEW i \in DOMAIN memory' \ DOMAIN memory, IsHit(memory'[i])
               PROVE  agent'.steps > agent.steps \/ Min({i, Capacity}) < BatchSize
    OBVIOUS
  <2>1. IInv' /\ Trains(agent, memory, agent', memory')
    BY Steps
  <2>2. DOMAIN memory = 1 .. Len(memory) /\ DOMAIN memory' = 1 .. Len(memory')
    BY <2>1 DEF IInv, TypeOK
  <2> QED
    BY <2>1, <2>2 DEF Trains
<1>2. Spec => [][A]_vars
  BY Invariance, <1>1, PTL DEF Spec
<1> QED
  BY <1>2 DEF HitsAreTrained
=============================================================================
