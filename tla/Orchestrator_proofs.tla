------------------------- MODULE Orchestrator_proofs -------------------------
(***************************************************************************)
(* Proofs about the orchestrator, for any set of attackers and any number  *)
(* of requests, pods and restarts: the type invariant, MappedPodsRan, and  *)
(* MadePodsAreMapped.                                                      *)
(*                                                                         *)
(* Neither property is inductive: a handler acts on what a watch reported  *)
(* while the cluster moved on.  The invariant says what such a report is   *)
(* worth: it is about the attacker's latest pod, a pod it shows running    *)
(* did run, and a pod it shows ended stays so.                             *)
(***************************************************************************)
EXTENDS Orchestrator, SequenceTheorems, TLAPS

\* TypeOK alone is not inductive: the gens that the handler records in
\* announced and orphans have to be those of pods, which start with 1.
Types == /\ TypeOK
         /\ pc \in {"list", "watch", "store"} => made[ip] # 0
         /\ pc \in {"store", "publish"} => found # 0

IsUp(p) == p.phase = "Running" /\ p.addressed

\* The pod of an attacker is the last one made, and one that is up is in ran.
PodInv == \A a \in Attackers : pods[a] # NoPod =>
            /\ pods[a].gen = made[a]
            /\ IsUp(pods[a]) => <<a, pods[a].gen>> \in ran

\* What a state e that the watch reported says of the pod of attacker a.
Reported(a, e) == /\ e.gen = made[a]
                  /\ IsUp(e) => <<a, e.gen>> \in ran
                  /\ e.phase = "Ended" => \/ pods[a] = NoPod
                                          \/ pods[a].phase = "Ended"

EventInv == pc = "watch" => \A i \in 1 .. Len(events) : Reported(ip, events[i])

\* The address about to be written or announced is of the last pod made.
FoundInv == /\ pc \in {"store", "publish"} => /\ found = made[ip]
                                              /\ <<ip, found>> \in ran
            /\ pc = "publish" => map[ip] = found

\* The hash never runs ahead of the pods made: a later pod overwrites it.
MapInv == \A a \in Attackers : map[a] <= made[a]

\* As MadePodsAreMapped, of any pod that has not ended, running or not.
LivePodInv == \A a \in Attackers :
                \/ pods[a] = NoPod \/ pods[a].phase = "Ended"
                \/ map[a] = pods[a].gen
                \/ pc \in {"list", "watch", "store"} /\ ip = a
                \/ <<a, pods[a].gen>> \in orphans

IInv == /\ Types
        /\ PodInv
        /\ EventInv
        /\ FoundInv
        /\ MapInv
        /\ LivePodInv
        /\ MappedPodsRan

-----------------------------------------------------------------------------
(* Types. *)

\* What the cluster does to a pod leaves a state that is one of a pod.
LEMMA PodStates ==
  ASSUME NEW p \in Pods
  PROVE  /\ [p EXCEPT !.phase = "Running"] \in Pods
         /\ [p EXCEPT !.phase = "Ended"] \in Pods
         /\ [p EXCEPT !.addressed = TRUE] \in Pods
BY DEF Pods, Phases

\* The first event is a pod's state, and dropping or adding one leaves pods.
LEMMA EventTypes ==
  ASSUME events \in Seq(Pods), NEW p \in Pods
  PROVE  /\ events # <<>> => Head(events) \in Pods /\ Tail(events) \in Seq(Pods)
         /\ Append(events, p) \in Seq(Pods)
BY HeadTailProperties, AppendProperties

\* The parts of a sequence that is not empty, element by element.
LEMMA HeadAndTail ==
  ASSUME NEW S, NEW s \in Seq(S), s # <<>>
  PROVE  /\ Head(s) = s[1] /\ Head(s) \in S /\ 1 \in 1 .. Len(s)
         /\ Tail(s) \in Seq(S)
         /\ \A i \in 1 .. Len(Tail(s)) : /\ i + 1 \in 1 .. Len(s)
                                        /\ Tail(s)[i] = s[i + 1]
BY HeadTailProperties, LenProperties, EmptySeq

\* A pod changes its state: the types stay.
LEMMA BecomesType ==
  ASSUME Types, NEW a \in Attackers, NEW p \in Pods, Becomes(a, p)
  PROVE  Types'
<1>1. Append(events, p) \in Seq(Pods)
  BY EventTypes DEF Types, TypeOK
<1>2. p.gen \in Nat \ {0}
  BY DEF Pods
<1> QED
  BY <1>1, <1>2 DEF Types, TypeOK, Becomes, redis

\* A step of the orchestrator, of Redis or of the cluster keeps the types.
LEMMA Typing == Types /\ [Next]_vars => Types'
<1> SUFFICES ASSUME Types, [Next]_vars PROVE Types'
  OBVIOUS
<1> USE OrchestratorAssumption
<1>1. CASE Take
  BY <1>1, HeadTailProperties DEF Types, TypeOK, Take, cluster, redis
<1>2. CASE Read
  BY <1>2 DEF Types, TypeOK, Read, cluster, redis
<1>3. CASE Create
  <2> DEFINE p == [gen |-> made[ip] + 1, phase |-> "Pending", addressed |-> FALSE]
  <2>1. p \in Pods
    BY DEF Types, TypeOK, Pods, Phases
  <2>2. CASE Made
    <3>1. made'[ip] = made[ip] + 1 /\ pods' = [pods EXCEPT ![ip] = p]
      BY <2>2 DEF Made, Types, TypeOK
    <3>2. made' \in [Attackers -> Nat] /\ pods' \in [Attackers -> Pods \cup {NoPod}]
      BY <2>1, <2>2, <3>1 DEF Made, Types, TypeOK
    <3>3. orphans' \subseteq Attackers \X (Nat \ {0})
      BY <1>3, <3>1 DEF Create, Types, TypeOK
    <3>4. /\ pc' \in {"list", "listen"} /\ made'[ip] # 0
          /\ UNCHANGED <<inbox, ip, events, found, ran, map, announced, requests,
                         crashes>>
      BY <1>3, <2>2, <3>1 DEF Create, Made, Types, TypeOK, redis
    <3> QED
      BY <3>2, <3>3, <3>4 DEF Types, TypeOK
  <2>3. CASE UNCHANGED <<pods, made, orphans>> /\ pc' = "listen"
    BY <1>3, <2>3 DEF Create, Types, TypeOK, redis
  <2> QED
    BY <1>3, <2>2, <2>3 DEF Create
<1>4. CASE Look
  <2>1. Seen \in Pods /\ Tail(events) \in Seq(Pods) /\ <<>> \in Seq(Pods)
    BY <1>4, HeadTailProperties, EmptySeq DEF Look, Seen, Types, TypeOK
  <2>2. Seen.gen \in Nat \ {0}
    BY <2>1 DEF Pods
  <2> QED
    BY <1>4, <2>1, <2>2 DEF Types, TypeOK, Look, cluster, redis
<1>5. CASE Store
  BY <1>5 DEF Types, TypeOK, Store, cluster
<1>6. CASE Publish
  BY <1>6 DEF Types, TypeOK, Publish, cluster
<1>7. CASE Subscribe
  BY <1>7 DEF Types, TypeOK, Subscribe, cluster, redis
<1>8. CASE Raise
  BY <1>8, EmptySeq DEF Types, TypeOK, Raise, cluster, redis
<1>9. CASE Crash
  BY <1>9, EmptySeq DEF Types, TypeOK, Crash, cluster, redis
<1>10. CASE Request
  BY <1>10, AppendProperties DEF Types, TypeOK, Request, cluster, redis
<1>11. CASE Cluster
  <2>1. PICK a \in Attackers :
          StartPod(a) \/ AddressPod(a) \/ EndPod(a) \/ RemovePod(a)
    BY <1>11 DEF Cluster
  <2>2. pods[a] \in Pods
    BY <2>1 DEF Types, TypeOK, StartPod, AddressPod, EndPod, RemovePod
  <2>3. CASE StartPod(a)
    BY <2>2, <2>3, PodStates, BecomesType DEF StartPod
  <2>4. CASE AddressPod(a)
    BY <2>2, <2>4, PodStates, BecomesType DEF AddressPod
  <2>5. CASE EndPod(a)
    BY <2>2, <2>5, PodStates, BecomesType DEF EndPod
  <2>6. CASE RemovePod(a)
    BY <2>2, <2>6, EventTypes DEF Types, TypeOK, RemovePod, redis
  <2> QED
    BY <2>1, <2>3, <2>4, <2>5, <2>6
<1>12. CASE Begin
  <2>1. events' \in Seq(Pods)
    BY <1>12, EmptySeq DEF Types, TypeOK, Begin
  <2> QED
    BY <1>12, <2>1 DEF Types, TypeOK, Begin, cluster, redis
<1>13. CASE UNCHANGED vars
  BY <1>13 DEF Types, TypeOK, vars, cluster, redis
<1> QED
  BY <1>1, <1>2, <1>3, <1>4, <1>5, <1>6, <1>7, <1>8, <1>9, <1>10, <1>11, <1>12,
     <1>13
  DEF Next, Handle

-----------------------------------------------------------------------------
(* The invariant, one step of the handler at a time. *)

\* A step that touches neither cluster nor Redis and leaves no request under
\* way keeps the invariant, when the pod of a request it cuts short is noted.
LEMMA HandlerRests ==
  ASSUME IInv, Types',
         UNCHANGED <<cluster, redis>>,
         pc' \notin {"list", "watch", "store", "publish"},
         orphans \subseteq orphans',
         pc \in {"list", "watch", "store"} => <<ip, made[ip]>> \in orphans'
  PROVE  IInv'
<1>1. PodInv' /\ EventInv' /\ FoundInv' /\ MapInv' /\ MappedPodsRan'
  BY DEF IInv, PodInv, EventInv, FoundInv, MapInv, MappedPodsRan, IsUp,
         cluster, redis
<1>2. LivePodInv'
  BY DEF IInv, PodInv, LivePodInv, cluster, redis
<1> QED
  BY <1>1, <1>2 DEF IInv

\* A new pod: its request is watched, or is noted as cut short.
LEMMA CreateStep ==
  ASSUME IInv, Types', Create
  PROVE  IInv'
<1> USE DEF IInv, Types, TypeOK
<1>1. CASE Made
  <2> DEFINE p == [gen |-> made[ip] + 1, phase |-> "Pending", addressed |-> FALSE]
  <2>1. /\ made' = [made EXCEPT ![ip] = @ + 1] /\ made'[ip] = made[ip] + 1
        /\ pods' = [pods EXCEPT ![ip] = p] /\ pods'[ip] = p
    BY <1>1 DEF Made
  <2>2. /\ UNCHANGED <<ip, found, ran, map, announced>>
        /\ \/ pc' = "list" /\ orphans' = orphans
           \/ pc' = "listen" /\ orphans' = orphans \cup {<<ip, made'[ip]>>}
    <3>1. made' # made
      BY <2>1
    <3>2. \/ pc' = "list" /\ orphans' = orphans
          \/ pc' = "listen" /\ orphans' = orphans \cup {<<ip, made'[ip]>>}
      BY <3>1 DEF Create
    <3>3. UNCHANGED <<ip, found, ran, map, announced>>
      BY DEF Create, redis
    <3> QED
      BY <3>2, <3>3
  <2>3. PodInv'
    BY <2>1, <2>2 DEF PodInv, IsUp
  <2>4. EventInv'
    BY <2>2 DEF EventInv
  <2>5. FoundInv' /\ MapInv' /\ MappedPodsRan'
    BY <2>1, <2>2 DEF FoundInv, MapInv, MappedPodsRan
  <2>6. LivePodInv'
    BY <2>1, <2>2 DEF LivePodInv, Create
  <2> QED
    BY <2>3, <2>4, <2>5, <2>6
<1>2. CASE pc' = "listen" /\ UNCHANGED <<pods, made, orphans>>
  BY <1>2, HandlerRests DEF Create, cluster, redis
<1> QED
  BY <1>1, <1>2 DEF Create

\* The watch begins: all it knows is the pod as it is now.
LEMMA BeginStep ==
  ASSUME IInv, Types', Begin
  PROVE  IInv'
<1> USE DEF IInv, Types, TypeOK
<1>1. /\ pc = "list" /\ pc' = "watch"
      /\ events' = IF pods[ip] = NoPod THEN <<>> ELSE <<pods[ip]>>
      /\ UNCHANGED <<ip, found, pods, made, ran, map, announced, orphans>>
  BY DEF Begin, cluster, redis
<1>2. PodInv' /\ FoundInv' /\ MapInv' /\ MappedPodsRan' /\ LivePodInv'
  BY <1>1 DEF PodInv, FoundInv, MapInv, MappedPodsRan, LivePodInv, IsUp
<1>3. EventInv'
  <2> SUFFICES ASSUME NEW i \in 1 .. Len(events')
               PROVE  Reported(ip, events[i])'
    BY DEF EventInv
  <2>1. CASE pods[ip] = NoPod
    BY <1>1, <2>1
  <2>2. CASE pods[ip] # NoPod
    <3>1. PICK p \in Pods : p = pods[ip]
      BY <2>2
    <3>2. events' = <<p>>
      BY <1>1, <2>2, <3>1
    <3>3. events'[i] = p
      BY <3>2
    <3> QED
      BY <1>1, <2>2, <3>1, <3>3 DEF PodInv, Reported
  <2> QED
    BY <2>1, <2>2
<1> QED
  BY <1>2, <1>3

\* The head of the watch is believed: it is a report about the latest pod.
LEMMA LookStep ==
  ASSUME IInv, Types', Look
  PROVE  IInv'
<1> USE DEF IInv, Types, TypeOK
<1>1. /\ Seen \in Pods
      /\ Reported(ip, Seen)
  BY HeadAndTail DEF Look, Seen, EventInv
<1>2. UNCHANGED <<ip, pods, made, ran, map, announced, orphans>>
  BY DEF Look, cluster, redis
<1>3. PodInv' /\ MapInv' /\ MappedPodsRan'
  BY <1>2 DEF PodInv, MapInv, MappedPodsRan
<1>4. FoundInv'
  BY <1>1, <1>2 DEF Look, FoundInv, Reported, IsUp
<1>5. EventInv'
  <2> SUFFICES ASSUME pc' = "watch", NEW i \in 1 .. Len(events')
               PROVE  Reported(ip, events[i])'
    BY DEF EventInv
  <2>1. events' = Tail(events)
    BY DEF Look
  <2>2. i + 1 \in 1 .. Len(events) /\ events'[i] = events[i + 1]
    BY <2>1, HeadAndTail DEF Look
  <2>3. Reported(ip, events[i + 1])
    BY <2>2 DEF Look, EventInv
  <2> QED
    BY <1>2, <2>2, <2>3 DEF Reported, IsUp
<1>6. LivePodInv'
  BY <1>1, <1>2 DEF Look, LivePodInv, Reported
<1> QED
  BY <1>3, <1>4, <1>5, <1>6

\* What is written is the address of the latest pod, so no announced one is
\* overtaken by an older one.
LEMMA StoreStep ==
  ASSUME IInv, Types', Store
  PROVE  IInv'
<1> USE DEF IInv, Types, TypeOK
<1>1. /\ map' = [map EXCEPT ![ip] = found] /\ map[ip] <= found
      /\ found = made[ip] /\ <<ip, found>> \in ran
      /\ pc' \in {"publish", "listen"}
      /\ UNCHANGED <<ip, found, pods, made, ran, announced, orphans>>
  BY DEF Store, FoundInv, MapInv, cluster
<1>2. PodInv' /\ EventInv' /\ FoundInv' /\ MapInv'
  BY <1>1 DEF PodInv, EventInv, FoundInv, MapInv, IsUp
<1>3. MappedPodsRan'
  <2>1. \A a \in Attackers : map'[a] # 0 => <<a, map'[a]>> \in ran'
    BY <1>1 DEF MappedPodsRan
  <2>2. ASSUME NEW t \in announced' PROVE map'[t[1]] >= t[2]
    <3>1. t \in announced /\ t[1] \in Attackers /\ t[2] \in Nat
      BY <1>1, <2>2
    <3>2. map[t[1]] >= t[2] /\ map[t[1]] \in Nat /\ map'[t[1]] >= map[t[1]]
      BY <1>1, <3>1 DEF MappedPodsRan
    <3> QED
      BY <1>1, <3>1, <3>2
  <2> QED
    BY <2>1, <2>2 DEF MappedPodsRan
<1>4. LivePodInv'
  BY <1>1 DEF PodInv, LivePodInv
<1> QED
  BY <1>2, <1>3, <1>4

\* What is announced has just been written.
LEMMA PublishStep ==
  ASSUME IInv, Types', Publish
  PROVE  IInv'
<1> USE DEF IInv, Types, TypeOK
<1>1. /\ announced' \subseteq announced \cup {<<ip, found>>}
      /\ map[ip] = found
      /\ pc' = "listen"
      /\ UNCHANGED <<ip, found, pods, made, ran, map, orphans>>
  BY DEF Publish, FoundInv, cluster
<1>2. PodInv' /\ EventInv' /\ FoundInv' /\ MapInv'
  BY <1>1 DEF PodInv, EventInv, FoundInv, MapInv, IsUp
<1>3. LivePodInv'
  BY <1>1 DEF Publish, LivePodInv
<1>4. MappedPodsRan'
  BY <1>1 DEF MappedPodsRan
<1> QED
  BY <1>2, <1>3, <1>4

-----------------------------------------------------------------------------
(* The invariant, one step of the cluster at a time. *)

\* A report stays true when the pod of some attacker goes on, or away.
LEMMA ReportsHold ==
  ASSUME IInv, NEW a \in Attackers, NEW q,
         pods[a] # NoPod,
         q = NoPod \/ q.phase = "Ended" \/ pods[a].phase # "Ended",
         pods' = [pods EXCEPT ![a] = q],
         UNCHANGED made, ran \subseteq ran'
  PROVE  \A b \in Attackers, e \in Pods : Reported(b, e) => Reported(b, e)'
<1> SUFFICES ASSUME NEW b \in Attackers, NEW e \in Pods, Reported(b, e)
             PROVE  Reported(b, e)'
  OBVIOUS
<1>1. /\ e.gen = made'[b]
      /\ IsUp(e) => <<b, e.gen>> \in ran'
  BY DEF Reported
<1>2. e.phase = "Ended" => pods'[b] = NoPod \/ pods'[b].phase = "Ended"
  BY DEF IInv, Types, TypeOK, Reported
<1> QED
  BY <1>1, <1>2 DEF Reported, IsUp

\* When reports stay true and the watch on attacker a is told a true one, all
\* that it was told is true.
LEMMA Told ==
  ASSUME IInv, NEW a \in Attackers, NEW p \in Pods,
         UNCHANGED <<pc, ip>>,
         events' = IF Watching(a) THEN Append(events, p) ELSE events,
         \A b \in Attackers, e \in Pods : Reported(b, e) => Reported(b, e)',
         Reported(a, p)'
  PROVE  EventInv'
<1> USE DEF IInv, Types, TypeOK
<1> SUFFICES ASSUME pc = "watch", NEW i \in 1 .. Len(events')
             PROVE  Reported(ip, events[i])'
  BY DEF EventInv
<1>1. ASSUME i \in 1 .. Len(events), events'[i] = events[i]
      PROVE  Reported(ip, events[i])'
  <2>1. events[i] \in Pods /\ Reported(ip, events[i])
    BY <1>1, ElementOfSeq DEF EventInv
  <2>2. PICK e \in Pods : e = events[i] /\ Reported(ip, e)
    BY <2>1
  <2>3. PICK b \in Attackers : b = ip
    OBVIOUS
  <2>4. Reported(b, e)'
    BY <2>2, <2>3
  <2> QED
    BY <1>1, <2>2, <2>3, <2>4 DEF Reported, IsUp
<1>2. CASE Watching(a)
  <2>1. events' = Append(events, p)
    BY <1>2
  <2>2. \/ i \in 1 .. Len(events) /\ events'[i] = events[i]
        \/ events'[i] = p
    BY <2>1, AppendProperties, LenProperties
  <2>3. CASE events'[i] = p
    BY <1>2, <2>3 DEF Watching, Reported, IsUp
  <2> QED
    BY <1>1, <2>2, <2>3
<1>3. CASE ~Watching(a)
  BY <1>1, <1>3
<1> QED
  BY <1>2, <1>3

\* A pod starts, gets its address or ends: the watch is told the truth.
LEMMA BecomesStep ==
  ASSUME IInv, Types', NEW a \in Attackers, NEW p \in Pods,
         pods[a] # NoPod, pods[a].phase # "Ended", p.gen = pods[a].gen,
         Becomes(a, p)
  PROVE  IInv'
<1> USE DEF IInv, Types, TypeOK
<1>1. /\ pods' = [pods EXCEPT ![a] = p] /\ pods'[a] = p
      /\ ran \subseteq ran' /\ (IsUp(p) => <<a, p.gen>> \in ran')
      /\ p.gen = made[a]
      /\ UNCHANGED <<pc, ip, found, made, map, announced, orphans>>
  BY DEF Becomes, PodInv, IsUp, redis
<1>2. PodInv'
  BY <1>1 DEF PodInv, IsUp
<1>3. EventInv'
  <2>1. Reported(a, p)'
    BY <1>1 DEF Reported, IsUp
  <2> QED
    BY <1>1, <2>1, ReportsHold, Told DEF Becomes
<1>4. FoundInv' /\ MapInv' /\ MappedPodsRan'
  BY <1>1 DEF FoundInv, MapInv, MappedPodsRan
<1>5. LivePodInv'
  BY <1>1 DEF LivePodInv
<1> QED
  BY <1>2, <1>3, <1>4, <1>5

\* A pod is deleted: its last state is reported, and it is gone.
LEMMA RemoveStep ==
  ASSUME IInv, Types', NEW a \in Attackers, RemovePod(a)
  PROVE  IInv'
<1> USE DEF IInv, Types, TypeOK
<1>1. /\ pods[a] # NoPod /\ pods[a] \in Pods
      /\ pods' = [pods EXCEPT ![a] = NoPod] /\ pods'[a] = NoPod
      /\ UNCHANGED <<pc, ip, found, made, ran, map, announced, orphans>>
  BY DEF RemovePod, redis
<1>2. PodInv' /\ FoundInv' /\ MapInv' /\ MappedPodsRan' /\ LivePodInv'
  BY <1>1 DEF PodInv, FoundInv, MapInv, MappedPodsRan, LivePodInv, IsUp
<1>3. PICK p \in Pods : p = pods[a]
  BY <1>1
<1>4. Reported(a, p)'
  BY <1>1, <1>3 DEF PodInv, Reported, IsUp
<1>5. \A b \in Attackers, e \in Pods : Reported(b, e) => Reported(b, e)'
  BY <1>1, ReportsHold
<1>6. EventInv'
  BY <1>1, <1>3, <1>4, <1>5, Told DEF RemovePod
<1> QED
  BY <1>2, <1>6

\* Every step keeps the invariant.
LEMMA IInvStep == IInv /\ [Next]_vars => IInv'
<1> SUFFICES ASSUME IInv, [Next]_vars PROVE IInv'
  OBVIOUS
<1>1. Types'
  BY Typing DEF IInv
<1>2. CASE Take
  BY <1>1, <1>2, HandlerRests DEF Take
<1>3. CASE Read
  BY <1>1, <1>3, HandlerRests DEF Read, cluster, redis
<1>4. CASE Create
  BY <1>1, <1>4, CreateStep
<1>5. CASE Look
  BY <1>1, <1>5, LookStep
<1>6. CASE Store
  BY <1>1, <1>6, StoreStep
<1>7. CASE Publish
  BY <1>1, <1>7, PublishStep
<1>8. CASE Subscribe
  BY <1>1, <1>8, HandlerRests DEF Subscribe
<1>9. CASE Raise
  BY <1>1, <1>9, HandlerRests DEF Raise
<1>10. CASE Crash
  BY <1>1, <1>10, HandlerRests DEF Crash
<1>11. CASE Request \/ UNCHANGED vars
  <2>1. UNCHANGED <<pc, ip, events, found, cluster, redis, orphans>>
    BY <1>11 DEF Request, vars
  <2> QED
    BY <1>1, <2>1 DEF IInv, PodInv, EventInv, Reported, FoundInv, MapInv,
         LivePodInv, MappedPodsRan, IsUp, cluster, redis
<1>12. CASE Cluster
  <2>1. PICK a \in Attackers :
          StartPod(a) \/ AddressPod(a) \/ EndPod(a) \/ RemovePod(a)
    BY <1>12 DEF Cluster
  <2>2. pods[a] \in Pods
    BY <2>1 DEF IInv, Types, TypeOK, StartPod, AddressPod, EndPod, RemovePod
  <2>3. CASE StartPod(a) \/ AddressPod(a) \/ EndPod(a)
    <3>1. PICK p \in Pods : Becomes(a, p) /\ p.gen = pods[a].gen
      BY <2>2, <2>3, PodStates DEF StartPod, AddressPod, EndPod, Pods
    <3> QED
      BY <1>1, <2>3, <3>1, BecomesStep DEF StartPod, AddressPod, EndPod
  <2>4. CASE RemovePod(a)
    BY <1>1, <2>4, RemoveStep
  <2> QED
    BY <2>1, <2>3, <2>4
<1>13. CASE Begin
  BY <1>1, <1>13, BeginStep
<1> QED
  BY <1>2, <1>3, <1>4, <1>5, <1>6, <1>7, <1>8, <1>9, <1>10, <1>11, <1>12, <1>13
  DEF Next, Handle

\* The invariant holds at the start, when there are no pods and no requests.
LEMMA IInvInit == Init => IInv
BY EmptySeq, OrchestratorAssumption
   DEF Init, IInv, Types, TypeOK, PodInv, EventInv, FoundInv, MapInv,
       LivePodInv, MappedPodsRan

LEMMA IInvAlways == Spec => []IInv
BY IInvInit, IInvStep, PTL DEF Spec

-----------------------------------------------------------------------------
(* The theorems. *)

\* Type correctness: in particular the request being handled always names an
\* attacker (orchestrator.py:92-94), and only pods that were made are recorded.
THEOREM TypeCorrect == Spec => []TypeOK
<1>1. IInv => TypeOK
  BY DEF IInv, Types
<1> QED
  BY <1>1, IInvAlways, PTL

\* attacker_map holds the addresses of pods that did run, and whoever is told
\* of a pod finds this pod or a later one in it (orchestrator.py:117-131).
THEOREM MappedPodsRanAlways == Spec => []MappedPodsRan
<1>1. IInv => MappedPodsRan
  BY DEF IInv
<1> QED
  BY <1>1, IInvAlways, PTL

\* A running pod is mapped, is being waited for, or is one that an error or a
\* crash between creation and hset left behind (orchestrator.py:106-124).
THEOREM MadePodsAreMappedAlways == Spec => []MadePodsAreMapped
<1>1. IInv => MadePodsAreMapped
  BY DEF IInv, LivePodInv, MadePodsAreMapped
<1> QED
  BY <1>1, IInvAlways, PTL
=============================================================================
