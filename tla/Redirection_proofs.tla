-------------------------- MODULE Redirection_proofs --------------------------
(***************************************************************************)
(* Proofs about the honeypod manager and the redirection built on it, for  *)
(* any attackers, nodes, timeouts and number of calls: the type invariant, *)
(* SuccessMeansDeployed, MappingOfAttacker, YoungDeploymentsStay and       *)
(* RedirectsToSeenPod.                                                     *)
(*                                                                         *)
(* What the four action properties have in common is that something read   *)
(* earlier is acted on later.  The invariant says what is still true of    *)
(* it: the deployment a call waits for exists, the list of expired ones is *)
(* as it was, and a pod that was listed, or looked up, is among those that *)
(* have been there since the poll, or the event, began.                    *)
(***************************************************************************)
EXTENDS Redirection, TLAPS

Deployed(i) == deployments[i] # NoDeployment

\* A call waits for ports of a deployment that is there.
PortsInv == Waiting => Deployed(ip)

\* While a poll is under way, every ready pod of the attacker is on a host, and
\* so was the pod whose node is being read.
IsHost(p) == p.ip = ip /\ Ready(p) => p.node \in hosts
HostsInv == /\ pc \in {"list", "node"} => \A p \in pods : IsHost(p)
            /\ pc = "node" => host \in hosts

\* The deployments that are to be deleted are there, and as old as when listed.
TooOld(i) == Deployed(i) /\ clock - deployments[i].created > MaxAge
ExpiredInv == pc = "delete" => \A i \in expired : TooOld(i)

\* The invariant of the manager alone.
HoneypodsInv == /\ TypeOK
                /\ PortsInv
                /\ HostsInv
                /\ ExpiredInv

\* The event goes on only after its call has returned, and with a deployment.
LoopInv == loop # "free" => pc = "idle" /\ Deployed(ip)

\* The attacker's pods that are there have been seen, and so has the one found.
SeenInv == loop # "free" => \A p \in pods : p.ip = ip => Address(p) \in seen
FoundInv == loop \in {"publish", "track"} /\ found # NoAddress =>
              found.ip = ip /\ found \in seen

IInv == /\ RedirectionTypeOK
        /\ HoneypodsInv
        /\ LoopInv
        /\ SeenInv
        /\ FoundInv

-----------------------------------------------------------------------------
(* The manager and the cluster. *)

\* A pod that runs or is lost is a pod, with the same name on the same node.
LEMMA PodChanges ==
  ASSUME NEW p \in Pods, NEW f \in {p.phase, "Ended"}
  PROVE  LET q == [p EXCEPT !.phase = "Running"]
             r == [p EXCEPT !.phase = f, !.active = FALSE]
         IN /\ q \in Pods /\ Address(q) = Address(p) /\ q.node = p.node
            /\ q.ip = p.ip
            /\ r \in Pods /\ Address(r) = Address(p) /\ r.node = p.node
            /\ r.ip = p.ip /\ (Ready(r) => Ready(p))
BY DEF Pods, Address, Ready

\* The wait for ports, whatever the path.
LEMMA WaitTypes ==
  ASSUME TypeOK, NEW p \in Paths, WaitForPorts(p)
  PROVE  /\ pc' = "ports" /\ path' \in Paths /\ deadline' \in Nat
         /\ UNCHANGED <<host, hosts>>
<1>1. PortTimeout[p] \in Nat
  BY HoneypodsAssumption
<1> QED
  BY <1>1 DEF TypeOK, WaitForPorts

\* What deploy_honeypod returns.
LEMMA ReturnTypes ==
  ASSUME TypeOK, NEW b \in BOOLEAN, NEW n \in Nodes \cup {NoNode}, Return(b, n)
  PROVE  /\ pc' = "idle" /\ node' = NoNode
         /\ result' \in [success : BOOLEAN, node : Nodes \cup {NoNode}]
         /\ path' \in Paths /\ deadline' \in Nat /\ host' = NoNode /\ hosts' = {}
BY DEF TypeOK, Return, PollEnds, Paths

\* A step of the manager or the cluster keeps the types.
LEMMA Typing == TypeOK /\ [Next]_vars => TypeOK'
<1> SUFFICES ASSUME TypeOK, [Next]_vars PROVE TypeOK'
  OBVIOUS
<1> USE HoneypodsAssumption
<1>1. CASE CallCleanup
  <2>1. /\ UNCHANGED <<clock, deployments, pods, warm, ip, node, path, deadline,
                       host, result, calls, hasPorts, warmed, lost, hosts>>
        /\ cleanups' = cleanups + 1
    BY <1>1 DEF CallCleanup, cluster, rest, counters
  <2>2. expired' \subseteq IPs /\ pc' \in {"idle", "delete"}
    BY <1>1 DEF TypeOK, CallCleanup
  <2> QED
    BY <2>1, <2>2 DEF TypeOK
<1>2. ASSUME NEW i \in IPs, CallDeploy(i) PROVE TypeOK'
  BY <1>2 DEF TypeOK, CallDeploy, NoResult, cluster, rest, counters
<1>3. CASE Read
  <2>1. /\ \/ pc' = "ports" /\ path' \in Paths /\ deadline' \in Nat
           \/ pc' = "warm" /\ UNCHANGED <<path, deadline>>
        /\ UNCHANGED <<host, hosts>>
    BY <1>3, WaitTypes DEF Read, Paths
  <2> QED
    BY <1>3, <2>1 DEF TypeOK, Read, cluster, counters
<1>4. CASE ListWarm
  BY <1>4 DEF TypeOK, ListWarm, cluster, rest, counters
<1>5. CASE DeleteWarm
  BY <1>5 DEF TypeOK, DeleteWarm, rest, counters
<1>6. CASE Create
  <2>1. NewDeployment \in Deployments
    BY DEF TypeOK, NewDeployment, Deployments
  <2>2. UNCHANGED <<clock, pods, warm, ip, expired, calls, hasPorts,
                  cleanups, warmed, lost>>
    BY <1>6 DEF Create, counters
  <2>3. CASE /\ deployments[ip] = NoDeployment
             /\ deployments' = [deployments EXCEPT ![ip] = NewDeployment]
             /\ WaitForPorts(IF node = NoNode THEN "fresh" ELSE "warm")
             /\ UNCHANGED <<node, result>>
    <3>1. /\ pc' = "ports" /\ path' \in Paths /\ deadline' \in Nat
          /\ UNCHANGED <<host, hosts>>
      BY <2>3, WaitTypes DEF Paths
    <3> QED
      BY <2>1, <2>2, <2>3, <3>1 DEF TypeOK
  <2>4. CASE /\ node' = NoNode
             /\ UNCHANGED <<deployments, pc, path, deadline, host, hosts, result>>
    BY <2>2, <2>4 DEF TypeOK
  <2>5. CASE WaitForPorts("conflict") /\ UNCHANGED <<deployments, node, result>>
    <3>1. /\ pc' = "ports" /\ path' \in Paths /\ deadline' \in Nat
          /\ UNCHANGED <<host, hosts>>
      BY <2>5, WaitTypes DEF Paths
    <3> QED
      BY <2>2, <2>5, <3>1 DEF TypeOK
  <2>6. CASE Return(FALSE, NoNode) /\ UNCHANGED deployments
    BY <2>2, <2>6, ReturnTypes DEF TypeOK
  <2> QED
    BY <1>6, <2>3, <2>4, <2>5, <2>6 DEF Create
<1>7. CASE Timeout \/ PollFails
  <2>1. NoPorts
    BY <1>7 DEF Timeout, PollFails
  <2> QED
    BY <2>1, ReturnTypes DEF TypeOK, NoPorts, cluster, counters
<1>8. CASE Poll
  <2>1. hosts' \subseteq Nodes
    BY <1>8 DEF TypeOK, Poll, Pods
  <2> QED
    BY <1>8, <2>1 DEF TypeOK, Poll, cluster, counters
<1>9. CASE Answer
  <2>1. /\ host' \in Nodes \cup {NoNode} /\ hosts' \subseteq Nodes
        /\ pc' \in {"ports", "node"}
    BY <1>9 DEF TypeOK, Answer, Listed, PollEnds, Pods
  <2> QED
    BY <1>9, <2>1 DEF TypeOK, Answer, cluster, counters
<1>10. CASE ReadNode
  <2>1. CASE Return(TRUE, host)
    BY <1>10, <2>1, ReturnTypes DEF TypeOK, ReadNode, cluster, counters
  <2>2. CASE pc' = "ports" /\ PollEnds /\ UNCHANGED <<node, path, deadline, result>>
    BY <1>10, <2>2 DEF TypeOK, ReadNode, PollEnds, cluster, counters
  <2> QED
    BY <1>10, <2>1, <2>2 DEF ReadNode
<1>11. CASE CleanupEnds
  BY <1>11 DEF TypeOK, CleanupEnds, cluster, rest, counters
<1>12. ASSUME NEW i \in IPs, DeleteExpired(i) PROVE TypeOK'
  BY <1>12 DEF TypeOK, DeleteExpired, rest, counters
<1>13. ASSUME NEW i \in IPs, SpawnPod(i) PROVE TypeOK'
  <2>1. deployments[i].gen \in Nat
    BY <1>13 DEF TypeOK, SpawnPod, Deployments
  <2> DEFINE q(n) == [ip |-> i, gen |-> deployments[i].gen, lost |-> lost,
                         node |-> n, phase |-> "Pending",
                         active |-> TRUE]
  <2>2. PICK n \in Nodes : pods' = pods \cup {q(n)}
    BY <1>13 DEF SpawnPod
  <2>3. q(n) \in Pods
    BY <2>1 DEF TypeOK, Pods
  <2>4. pods' \subseteq Pods
    <3> HIDE DEF q
    <3> QED
      BY <2>2, <2>3 DEF TypeOK
  <2> QED
    BY <1>13, <2>4 DEF TypeOK, SpawnPod, call, rest, counters
<1>14. ASSUME NEW p \in pods, RunPod(p) PROVE TypeOK'
  <2>1. p \in Pods /\ p.node \in Nodes /\ p.phase \in {p.phase, "Ended"}
    BY DEF TypeOK, Pods
  <2>2. hosts' \subseteq Nodes
    BY <1>14, <2>1 DEF TypeOK, RunPod
  <2>3. [p EXCEPT !.phase = "Running"] \in Pods
    BY <2>1, PodChanges
  <2>4. pods' \subseteq Pods
    BY <1>14, <2>3 DEF TypeOK, RunPod
  <2> QED
    BY <1>14, <2>2, <2>4 DEF TypeOK, RunPod, call, counters
<1>15. ASSUME NEW p \in pods, LosePod(p) PROVE TypeOK'
  <2>0. PICK f \in {p.phase, "Ended"} :
          pods' = (pods \ {p}) \cup {[p EXCEPT !.phase = f, !.active = FALSE]}
    BY <1>15 DEF LosePod
  <2>1. pods' \subseteq Pods
    <3>1. p \in Pods
      BY DEF TypeOK
    <3>2. [p EXCEPT !.phase = f, !.active = FALSE] \in Pods
      BY <3>1, PodChanges
    <3> QED
      BY <2>0, <3>2 DEF TypeOK
  <2>2. lost' \in Nat
    BY <1>15 DEF TypeOK, LosePod
  <2> QED
    BY <1>15, <2>1, <2>2 DEF TypeOK, LosePod, call
<1>16. ASSUME NEW p \in pods, EndPod(p) PROVE TypeOK'
  BY <1>16 DEF TypeOK, EndPod, call, rest, counters
<1>17. CASE FillPool
  BY <1>17 DEF TypeOK, FillPool, call
<1>18. CASE Tick
  BY <1>18 DEF TypeOK, Tick, cluster, call, rest, counters
<1>19. CASE UNCHANGED vars
  BY <1>19 DEF TypeOK, vars, cluster, call, rest, counters
<1> QED
  BY <1>1, <1>2, <1>3, <1>4, <1>5, <1>6, <1>7, <1>8, <1>9, <1>10, <1>11, <1>12,
     <1>13, <1>14, <1>15, <1>16, <1>17, <1>18, <1>19
  DEF Next, Deploying, Polling, Cleaning, Cluster

\* A step that leaves the cluster alone, and moves the manager to no wait and no
\* deletion that it was not at.
LEMMA ManagerStep ==
  ASSUME HoneypodsInv, TypeOK',
         UNCHANGED <<deployments, pods, clock>>,
         pc' \notin {"list", "node"},
         pc' = "ports" => Deployed(ip'),
         pc' = "delete" => \A i \in expired' : TooOld(i)
  PROVE  HoneypodsInv'
<1>1. PortsInv' /\ HostsInv'
  BY DEF PortsInv, HostsInv, Deployed, Waiting
<1>2. ExpiredInv'
  BY DEF ExpiredInv, TooOld, Deployed
<1> QED
  BY <1>1, <1>2 DEF HoneypodsInv

\* After the creation the call waits for a deployment that is there.
LEMMA CreateStep ==
  ASSUME HoneypodsInv, TypeOK', Create
  PROVE  HoneypodsInv'
<1>1. UNCHANGED <<clock, pods, ip, expired, calls>>
  BY DEF Create
<1>2. CASE /\ deployments[ip] = NoDeployment
           /\ deployments' = [deployments EXCEPT ![ip] = NewDeployment]
           /\ WaitForPorts(IF node = NoNode THEN "fresh" ELSE "warm")
  <2>1. ip \in IPs /\ NewDeployment # NoDeployment
    BY HoneypodsAssumption DEF HoneypodsInv, TypeOK, NewDeployment, Deployments
  <2>2. Deployed(ip)' /\ pc' = "ports"
    BY <1>1, <1>2, <2>1 DEF HoneypodsInv, TypeOK, Deployed, WaitForPorts
  <2> QED
    BY <2>2 DEF HoneypodsInv, PortsInv, HostsInv, ExpiredInv
<1>3. CASE /\ UNCHANGED deployments
           /\ pc' \in {"create", "idle"} \/ deployments[ip] # NoDeployment
  <2>1. pc' \in {"create", "idle", "ports"}
    BY <1>3 DEF Create, WaitForPorts, Return
  <2> QED
    BY <1>1, <1>3, <2>1, ManagerStep DEF HoneypodsInv, TypeOK, Deployed
<1> QED
  BY <1>2, <1>3 DEF Create, Return

\* The other deployments to be deleted stay as they are.
LEMMA DeleteStep ==
  ASSUME HoneypodsInv, TypeOK', NEW i \in IPs, DeleteExpired(i)
  PROVE  HoneypodsInv'
<1> USE DEF HoneypodsInv, TypeOK
<1>1. /\ deployments' = deployments \/ deployments' = [deployments EXCEPT ![i] = NoDeployment]
      /\ expired' = expired \ {i} /\ pc = "delete"
      /\ UNCHANGED <<pods, pc, ip, clock>>
  BY DEF DeleteExpired
<1>2. \A j \in IPs \ {i} : deployments'[j] = deployments[j]
  BY <1>1
<1>3. PortsInv' /\ HostsInv' /\ ExpiredInv'
  BY <1>1, <1>2 DEF PortsInv, HostsInv, ExpiredInv, TooOld, Deployed, Waiting
<1> QED
  BY <1>3

\* A poll begins with the pods that are ready, and goes on with one of them.
LEMMA PollStep ==
  ASSUME HoneypodsInv, TypeOK', Poll \/ Answer \/ ReadNode
  PROVE  HoneypodsInv'
<1>1. /\ UNCHANGED <<deployments, pods, clock, ip, expired>>
      /\ pc \in {"ports", "list", "node"}
      /\ pc' \in {"ports", "list", "node", "idle"}
  BY DEF Poll, Answer, ReadNode, Return, cluster
<1>2. PortsInv'
  BY <1>1 DEF HoneypodsInv, PortsInv, Deployed, Waiting
<1>3. HostsInv'
  <2>1. CASE Poll
    BY <2>1 DEF Poll, HostsInv, IsHost, Ready, cluster
  <2>2. CASE Answer /\ pc' = "node"
    <3>1. pc = "list" /\ UNCHANGED <<hosts, pods, ip>>
      BY <2>2 DEF Answer, cluster
    <3>2. PICK p \in pods : p.ip = ip /\ Ready(p) /\ host' = p.node
      BY <2>2 DEF Answer, Listed
    <3>3. IsHost(p)
      BY <3>1 DEF HoneypodsInv, HostsInv
    <3> QED
      BY <3>1, <3>2, <3>3 DEF HoneypodsInv, HostsInv, IsHost, Ready
  <2>3. CASE pc' \in {"ports", "idle"}
    BY <2>3 DEF HostsInv
  <2> QED
    BY <2>1, <2>2, <2>3 DEF Answer, ReadNode, Return
<1> QED
  BY <1>1, <1>2, <1>3 DEF HoneypodsInv, ExpiredInv

\* The pods change, but one that is ready and was not is on a host.
LEMMA PodsStep ==
  ASSUME HoneypodsInv, TypeOK', UNCHANGED <<clock, deployments, call>>,
         hosts \subseteq hosts',
         pc \in {"list", "node"} => \A p \in pods' : IsHost(p)'
  PROVE  HoneypodsInv'
<1>1. PortsInv' /\ HostsInv' /\ ExpiredInv'
  BY DEF HoneypodsInv, PortsInv, HostsInv, ExpiredInv, TooOld, Deployed, Waiting, call
<1> QED
  BY <1>1 DEF HoneypodsInv

\* What the cluster does keeps the hosts of a poll.
LEMMA ClusterStep ==
  ASSUME HoneypodsInv, TypeOK', Cluster
  PROVE  HoneypodsInv'
<1>1. /\ UNCHANGED <<clock, deployments, call>> /\ hosts \subseteq hosts'
      /\ ip' = ip /\ hasPorts' = hasPorts
  BY DEF Cluster, SpawnPod, RunPod, LosePod, EndPod, FillPool, call, rest, counters
<1>2. ASSUME pc \in {"list", "node"}, NEW q \in pods' PROVE IsHost(q)'
  <2>1. ASSUME q \in pods PROVE IsHost(q)'
    BY <1>1, <1>2, <2>1 DEF HoneypodsInv, HostsInv, IsHost, Ready
  <2>2. ASSUME NEW i \in IPs, SpawnPod(i), q \notin pods PROVE IsHost(q)'
    BY <2>2 DEF SpawnPod, IsHost, Ready
  <2>3. ASSUME NEW p \in pods, RunPod(p), q \notin pods PROVE IsHost(q)'
    <3>1. p \in Pods /\ p.phase \in {p.phase, "Ended"}
      BY DEF HoneypodsInv, TypeOK
    <3>2. q = [p EXCEPT !.phase = "Running"]
      BY <2>3 DEF RunPod
    <3>3. q.ip = p.ip /\ q.node = p.node
      BY <3>1, <3>2, PodChanges
    <3> QED
      BY <1>1, <1>2, <2>3, <3>3 DEF RunPod, IsHost, Ready
  <2>4. ASSUME NEW p \in pods, LosePod(p), q \notin pods PROVE IsHost(q)'
    <3>1. p \in Pods
      BY DEF HoneypodsInv, TypeOK
    <3>2. PICK f \in {p.phase, "Ended"} : q = [p EXCEPT !.phase = f, !.active = FALSE]
      BY <2>4 DEF LosePod
    <3>3. q.ip = p.ip /\ q.node = p.node /\ (Ready(q) => Ready(p))
      BY <3>1, <3>2, PodChanges
    <3>4. IsHost(p)
      BY <1>2 DEF HoneypodsInv, HostsInv
    <3> QED
      BY <1>1, <3>3, <3>4 DEF IsHost, Ready
  <2>5. ASSUME NEW p \in pods, EndPod(p) PROVE q \in pods
    BY <2>5 DEF EndPod
  <2>6. ASSUME FillPool PROVE q \in pods
    BY <2>6 DEF FillPool
  <2> QED
    BY <2>1, <2>2, <2>3, <2>4, <2>5, <2>6 DEF Cluster
<1> QED
  BY <1>1, <1>2, PodsStep

\* A step of the manager or the cluster keeps the invariant.
LEMMA HoneypodsStep == HoneypodsInv /\ [Next]_vars => HoneypodsInv'
<1> SUFFICES ASSUME HoneypodsInv, [Next]_vars PROVE HoneypodsInv'
  OBVIOUS
<1>0. TypeOK /\ TypeOK'
  BY Typing DEF HoneypodsInv
<1>1. CASE CallCleanup
  <2>1. UNCHANGED <<deployments, pods, clock>> /\ pc' \in {"idle", "delete"}
    BY <1>1 DEF CallCleanup, cluster
  <2>2. pc' = "delete" => \A i \in expired' : TooOld(i)
    BY <1>1 DEF CallCleanup, TooOld, Deployed
  <2> QED
    BY <1>0, <2>1, <2>2, ManagerStep
<1>2. ASSUME NEW i \in IPs, CallDeploy(i) PROVE HoneypodsInv'
  <2>1. UNCHANGED <<deployments, pods, clock>> /\ pc' = "read"
    BY <1>2 DEF CallDeploy, cluster
  <2> QED
    BY <1>0, <2>1, ManagerStep
<1>3. CASE Read
  <2>1. UNCHANGED <<deployments, pods, clock, ip>>
    BY <1>3 DEF Read, cluster
  <2>2. pc' = "warm" \/ (pc' = "ports" /\ Deployed(ip))
    BY <1>3 DEF Read, WaitForPorts, Deployed
  <2> QED
    BY <1>0, <2>1, <2>2, ManagerStep DEF Deployed
<1>4. CASE ListWarm \/ DeleteWarm
  <2>1. /\ UNCHANGED <<deployments, pods, clock>>
        /\ pc' \in {"create", "unwarm"}
    BY <1>4 DEF ListWarm, DeleteWarm, cluster
  <2> QED
    BY <1>0, <2>1, ManagerStep
<1>5. CASE Create
  BY <1>0, <1>5, CreateStep
<1>6. CASE Timeout \/ PollFails \/ CleanupEnds
  <2>1. UNCHANGED <<deployments, pods, clock>> /\ pc' = "idle"
    BY <1>6 DEF Timeout, PollFails, CleanupEnds, NoPorts, Return, cluster
  <2> QED
    BY <1>0, <2>1, ManagerStep
<1>7. CASE Poll \/ Answer \/ ReadNode
  BY <1>0, <1>7, PollStep
<1>8. ASSUME NEW i \in IPs, DeleteExpired(i) PROVE HoneypodsInv'
  BY <1>0, <1>8, DeleteStep
<1>9. CASE Cluster
  BY <1>0, <1>9, ClusterStep
<1>10. CASE Tick
  <2>1. /\ UNCHANGED <<deployments, pods, ip, pc, host, hosts, expired,
                    hasPorts>>
        /\ clock' = clock + 1
    BY <1>10 DEF Tick, cluster, call, rest, counters
  <2>2. \A i \in IPs : Deployed(i) => deployments[i].created \in Nat
    BY <1>0 DEF TypeOK, Deployed, Deployments
  <2>3. ExpiredInv'
    BY <1>0, <2>1, <2>2, HoneypodsAssumption
    DEF HoneypodsInv, ExpiredInv, TooOld, Deployed, TypeOK
  <2> QED
    BY <1>0, <2>1, <2>3
    DEF HoneypodsInv, PortsInv, HostsInv, IsHost, Ready, Deployed, Waiting
<1>11. CASE UNCHANGED vars
  <2>1. UNCHANGED <<deployments, pods, clock, ip, pc, host, hosts, expired,
                    hasPorts>>
    BY <1>11 DEF vars, cluster, call, rest, counters
  <2> QED
    BY <1>0, <2>1 DEF HoneypodsInv, PortsInv, HostsInv, IsHost, Ready, ExpiredInv,
                      TooOld, Deployed, Waiting
<1> QED
  BY <1>1, <1>2, <1>3, <1>4, <1>5, <1>6, <1>7, <1>8, <1>9, <1>10, <1>11
  DEF Next, Deploying, Polling, Cleaning

-----------------------------------------------------------------------------
(* What a step of the manager may never do. *)

\* A step that ends a wait is one of the manager, and changes nothing in the
\* cluster.
LEMMA WaitEnds ==
  ASSUME TypeOK, Waiting, pc' = "idle", [Next]_vars
  PROVE  /\ UNCHANGED <<deployments, ip>>
         /\ NoPorts \/ (ReadNode /\ Return(TRUE, host))
<1>1. pc \in {"ports", "list", "node"} /\ pc' # pc
  BY DEF Waiting
<1>2. CASE Timeout \/ PollFails
  BY <1>2 DEF Timeout, PollFails, NoPorts, cluster
<1>3. CASE ReadNode
  BY <1>3 DEF ReadNode, cluster
<1>4. ~(Poll \/ Answer)
  BY DEF Poll, Answer
<1>5. ~(Cluster \/ Tick \/ UNCHANGED vars)
  BY <1>1 DEF Cluster, SpawnPod, RunPod, LosePod, EndPod, FillPool, Tick, vars, call
<1>6. ~(Cleaning \/ CallCleanup \/ Read \/ ListWarm \/ DeleteWarm \/ Create)
  BY <1>1 DEF Cleaning, CleanupEnds, DeleteExpired, CallCleanup, Read, ListWarm,
              DeleteWarm, Create
<1>7. ~\E i \in IPs : CallDeploy(i)
  BY <1>1 DEF CallDeploy
<1> QED
  BY <1>2, <1>3, <1>4, <1>5, <1>6, <1>7 DEF Next, Deploying, Polling

\* From "create" a call returns only with a failure.
LEMMA CreateFails ==
  ASSUME pc = "create", pc' = "idle", [Next]_vars
  PROVE  ~result'.success
<1>1. Create
  <2>1. ~(Timeout \/ PollFails \/ Poll \/ Answer \/ ReadNode)
    BY DEF Timeout, PollFails, Poll, Answer, ReadNode
  <2>2. ~(Cluster \/ Tick \/ UNCHANGED vars)
    BY DEF Cluster, SpawnPod, RunPod, LosePod, EndPod, FillPool, Tick, vars, call
  <2>3. ~(Cleaning \/ CallCleanup \/ Read \/ ListWarm \/ DeleteWarm)
    BY DEF Cleaning, CleanupEnds, DeleteExpired, CallCleanup, Read, ListWarm,
           DeleteWarm
  <2>4. ~\E i \in IPs : CallDeploy(i)
    BY DEF CallDeploy
  <2> QED
    BY <2>1, <2>2, <2>3, <2>4 DEF Next, Deploying, Polling
<1>2. Return(FALSE, NoNode)
  BY <1>1 DEF Create, WaitForPorts
<1> QED
  BY <1>2 DEF Return

LEMMA SuccessStep ==
  ASSUME HoneypodsInv, [Next]_vars,
         pc = "create" \/ Waiting, pc' = "idle", result'.success
  PROVE  deployments'[ip] # NoDeployment
BY WaitEnds, CreateFails DEF HoneypodsInv, PortsInv, Deployed

LEMMA MappingStep ==
  ASSUME HoneypodsInv, [Next]_vars,
         Waiting, pc' = "idle", result'.node # NoNode
  PROVE  result'.node \in hosts
<1>1. ~NoPorts
  BY DEF NoPorts, Return
<1>2. ReadNode /\ Return(TRUE, host)
  BY <1>1, WaitEnds DEF HoneypodsInv
<1>3. pc = "node" /\ result'.node = host
  BY <1>2 DEF ReadNode, Return
<1> QED
  BY <1>3 DEF HoneypodsInv, HostsInv

LEMMA YoungStep ==
  ASSUME HoneypodsInv, [Next]_vars, NEW i \in IPs,
         deployments[i] # NoDeployment, deployments'[i] = NoDeployment
  PROVE  clock - deployments[i].created > MaxAge
<1>1. PICK j \in IPs : DeleteExpired(j)
  <2>1. deployments' # deployments
    OBVIOUS
  <2>2. ~(Timeout \/ PollFails \/ Poll \/ Answer \/ ReadNode \/ CleanupEnds
          \/ CallCleanup)
    BY <2>1 DEF Timeout, PollFails, NoPorts, Poll, Answer, ReadNode, CleanupEnds,
                CallCleanup, cluster
  <2>3. ~(Cluster \/ Tick \/ UNCHANGED vars)
    BY <2>1 DEF Cluster, SpawnPod, RunPod, LosePod, EndPod, FillPool, Tick, vars,
                cluster
  <2>4. ~(Read \/ ListWarm \/ DeleteWarm) /\ ~\E k \in IPs : CallDeploy(k)
    BY <2>1 DEF Read, ListWarm, DeleteWarm, CallDeploy, cluster
  <2>5. ~Create
    <3>1. NewDeployment # NoDeployment
      BY HoneypodsAssumption DEF HoneypodsInv, TypeOK, NewDeployment, Deployments
    <3> QED
      BY <2>1, <3>1 DEF Create, HoneypodsInv, TypeOK
  <2> QED
    BY <2>2, <2>3, <2>4, <2>5 DEF Next, Deploying, Polling, Cleaning
<1>2. i = j
  BY <1>1 DEF DeleteExpired, HoneypodsInv, TypeOK
<1> QED
  BY <1>1, <1>2 DEF DeleteExpired, HoneypodsInv, ExpiredInv, TooOld

-----------------------------------------------------------------------------
(* The event that redirects. *)

\* While the event goes on, the manager rests and the deployments stay.
LEMMA EventRuns ==
  ASSUME LoopInv, loop # "free", RedirectionNext \/ UNCHANGED redirection
  PROVE  \/ (Cluster \/ Tick) /\ Others
         \/ (LookUp \/ Publish \/ Track) /\ UNCHANGED vars
         \/ UNCHANGED redirection
<1>1. pc = "idle"
  BY DEF LoopInv
<1>2. ~(Call \/ Manage \/ Cleaning)
  BY <1>1 DEF Call, Manage, Deploying, Polling, Read, ListWarm, DeleteWarm, Create,
              Timeout, Poll, Answer, ReadNode, PollFails, Cleaning, CleanupEnds,
              DeleteExpired
<1> QED
  BY <1>2 DEF RedirectionNext, Others, LookUp, Publish, Track

\* The addresses of an attacker's pods.
LEMMA AddressTypes ==
  ASSUME TypeOK, NEW i \in IPs
  PROVE  /\ AddressesOf(i) \subseteq Addresses
         /\ \A p \in pods : Address(p) \in Addresses /\ Address(p).ip = p.ip
         /\ \A p \in pods : p.ip = i => Address(p) \in AddressesOf(i)
BY DEF TypeOK, Pods, Address, Addresses, AddressesOf

\* A step of the event, the manager or the cluster keeps the types.
LEMMA RedirectionTyping ==
  ASSUME RedirectionTypeOK, TypeOK', RedirectionNext \/ UNCHANGED redirection
  PROVE  RedirectionTypeOK'
<1>0. TypeOK /\ ip \in IPs /\ ip' \in IPs
  BY DEF RedirectionTypeOK, TypeOK
<1>1. CASE Call \/ UNCHANGED redirection
  BY <1>1 DEF RedirectionTypeOK, Call, redirection, event
<1>2. CASE Manage
  BY <1>0, <1>2, AddressTypes DEF RedirectionTypeOK, Manage, Proceed
<1>3. CASE Others
  <2>1. AddressesOf(ip)' \subseteq Addresses
    BY <1>0 DEF TypeOK, Pods, Address, Addresses, AddressesOf
  <2> QED
    BY <1>3, <2>1 DEF RedirectionTypeOK, Others, Noticed
<1>4. CASE LookUp
  <2>1. found' \in Addresses \cup {NoAddress}
    BY <1>0, <1>4, AddressTypes DEF LookUp
  <2> QED
    BY <1>4, <2>1 DEF RedirectionTypeOK, LookUp, GoTo
<1>5. CASE Publish
  BY <1>5 DEF RedirectionTypeOK, Publish, GoTo
<1>6. CASE Track
  BY <1>0, <1>6 DEF RedirectionTypeOK, Track, GoTo
<1> QED
  BY <1>1, <1>2, <1>3, <1>4, <1>5, <1>6 DEF RedirectionNext

\* Seen from the manager, every step is one of its own or of the cluster.
LEMMA IsNext == [RedirectionNext]_redirection => [Next]_vars
BY DEF RedirectionNext, Call, Manage, Others, LookUp, Publish, Track, Next,
       redirection

LEMMA IInvStep == IInv /\ [RedirectionNext]_redirection => IInv'
<1> SUFFICES ASSUME IInv, [RedirectionNext]_redirection PROVE IInv'
  OBVIOUS
<1> USE DEF IInv
<1>1. HoneypodsInv' /\ RedirectionTypeOK' /\ TypeOK /\ TypeOK'
  BY IsNext, HoneypodsStep, RedirectionTyping DEF HoneypodsInv
<1>2. ip \in IPs /\ ip' \in IPs
  BY <1>1 DEF TypeOK
<1>3. CASE loop = "free" /\ loop' = "free"
  BY <1>1, <1>3 DEF LoopInv, SeenInv, FoundInv
<1>4. CASE loop = "free" /\ loop' # "free"
  <2>1. /\ Waiting /\ pc' = "idle" /\ result'.success
        /\ loop' = "address" /\ seen' = AddressesOf(ip)
        /\ Deploying \/ PollFails
    BY <1>4 DEF RedirectionNext, Call, Manage, Proceed, Others, Noticed, LookUp,
                Publish, Track, redirection, event
  <2>2. UNCHANGED <<ip, pods>>
    <3>1. NoPorts \/ ReadNode
      BY <1>1, <2>1, IsNext, WaitEnds
    <3> QED
      BY <3>1 DEF NoPorts, ReadNode, cluster
  <2>3. deployments'[ip] # NoDeployment
    BY <2>1, IsNext, SuccessStep
  <2>4. SeenInv'
    BY <1>1, <1>2, <2>1, <2>2, AddressTypes DEF SeenInv
  <2> QED
    BY <1>1, <2>1, <2>2, <2>3, <2>4 DEF LoopInv, FoundInv, Deployed
<1>5. CASE loop # "free"
  <2>0. pc = "idle" /\ Deployed(ip)
    BY <1>5 DEF LoopInv
  <2>1. CASE (Cluster \/ Tick) /\ Others
    <3>1. UNCHANGED <<deployments, ip, pc, loop, found>>
      BY <2>1 DEF Cluster, SpawnPod, RunPod, LosePod, EndPod, FillPool, Tick, cluster,
                  call, Others, Noticed
    <3>2. seen' = seen \cup AddressesOf(ip)'
      BY <1>5, <2>1 DEF Others, Noticed
    <3>3. SeenInv'
      BY <3>1, <3>2 DEF SeenInv, AddressesOf
    <3> QED
      BY <1>1, <2>0, <3>1, <3>2, <3>3 DEF LoopInv, FoundInv, Deployed
  <2>2. CASE LookUp
    <3>1. UNCHANGED <<deployments, pods, ip, pc>>
      BY <2>2 DEF LookUp, vars, cluster, call
    <3>2. seen' = IF loop' = "free" THEN {} ELSE seen
      BY <2>2 DEF LookUp, GoTo
    <3>3. ASSUME found' # NoAddress
          PROVE  found'.ip = ip /\ found' \in seen
      <4>1. PICK p \in pods : p.ip = ip /\ found' = Address(p)
        BY <2>2, <3>3 DEF LookUp
      <4> QED
        BY <1>1, <1>2, <1>5, <4>1, AddressTypes DEF SeenInv
    <3> QED
      BY <1>1, <1>5, <2>0, <3>1, <3>2, <3>3
      DEF LoopInv, SeenInv, FoundInv, Deployed
  <2>3. CASE Publish \/ Track
    <3>1. UNCHANGED <<deployments, pods, ip, pc>> /\ loop' \notin {"publish", "track"}
      BY <2>3 DEF Publish, Track, GoTo, vars, cluster, call
    <3>2. seen' = IF loop' = "free" THEN {} ELSE seen
      BY <2>3 DEF Publish, Track, GoTo
    <3> QED
      BY <1>1, <1>5, <2>0, <3>1, <3>2 DEF LoopInv, SeenInv, FoundInv, Deployed
  <2>4. CASE UNCHANGED redirection
    <3>1. UNCHANGED <<deployments, pods, ip, pc, loop, found, seen>>
      BY <2>4 DEF redirection, vars, cluster, call, event
    <3> QED
      BY <1>1, <3>1 DEF LoopInv, SeenInv, FoundInv, Deployed
  <2> QED
    BY <1>5, <2>1, <2>2, <2>3, <2>4, EventRuns
<1> QED
  BY <1>3, <1>4, <1>5

LEMMA IInvInit == RedirectionInit => IInv
<1> SUFFICES ASSUME RedirectionInit PROVE IInv
  OBVIOUS
<1>1. TypeOK
  BY DEF RedirectionInit, Init, NoResult, TypeOK, Paths
<1> QED
  BY <1>1 DEF RedirectionInit, Init, IInv, RedirectionTypeOK, HoneypodsInv,
     PortsInv, HostsInv, ExpiredInv, Waiting, LoopInv, SeenInv, FoundInv

LEMMA IInvAlways == RedirectionSpec => []IInv
BY IInvInit, IInvStep, PTL DEF RedirectionSpec

-----------------------------------------------------------------------------
(* The theorems. *)

\* Type correctness of the manager, its cluster and the redirecting event.
THEOREM TypeCorrect == RedirectionSpec => []RedirectionTypeOK
<1>1. IInv => RedirectionTypeOK
  BY DEF IInv
<1> QED
  BY <1>1, IInvAlways, PTL

\* deploy_honeypod reports success only with the deployment in the cluster,
\* along all of its paths (k8s.py:45-106).
THEOREM SuccessMeansDeployedAlways == RedirectionSpec => SuccessMeansDeployed
<1>1. IInv /\ [RedirectionNext]_redirection =>
        [((pc = "create" \/ Waiting) /\ pc' = "idle" /\ result'.success)
           => deployments'[ip] # NoDeployment]_vars
  BY IsNext, SuccessStep DEF IInv
<1> QED
  BY <1>1, IInvAlways, PTL DEF RedirectionSpec, SuccessMeansDeployed

\* The node it returns is one on which a pod of this attacker was ready during
\* the poll that found it, whatever has become of the pod (k8s.py:134-158).
THEOREM MappingOfAttackerAlways == RedirectionSpec => MappingOfAttacker
<1>1. IInv /\ [RedirectionNext]_redirection =>
        [(Waiting /\ pc' = "idle" /\ result'.node # NoNode)
           => result'.node \in hosts]_vars
  BY IsNext, MappingStep DEF IInv
<1> QED
  BY <1>1, IInvAlways, PTL DEF RedirectionSpec, MappingOfAttacker

\* cleanup_expired_pods deletes only what is too old at the moment of the
\* deletion, not only when it was listed (k8s.py:204-228).
THEOREM YoungDeploymentsStayAlways == RedirectionSpec => YoungDeploymentsStay
<1>1. IInv /\ [RedirectionNext]_redirection =>
        [\A i \in IPs : (deployments[i] # NoDeployment /\ deployments'[i] = NoDeployment)
                          => clock - deployments[i].created > MaxAge]_vars
  BY IsNext, YoungStep DEF IInv
<1> QED
  BY <1>1, IInvAlways, PTL DEF RedirectionSpec, YoungDeploymentsStay

\* An attacker is redirected to, and recorded with, a pod of its own that has
\* been there since deploy_honeypod returned, and has a deployment
\* (event_loop.py:301-325, 391, 420-444).
THEOREM RedirectsToSeenPodAlways == RedirectionSpec => RedirectsToSeenPod
<1>1. IInv /\ [RedirectionNext]_redirection =>
        [(loop # loop' /\ loop \in {"publish", "track"} /\ found # NoAddress) =>
           /\ found.ip = ip /\ found \in seen
           /\ deployments[ip] # NoDeployment]_redirection
  BY DEF IInv, FoundInv, LoopInv, Deployed
<1> QED
  BY <1>1, IInvAlways, PTL DEF RedirectionSpec, RedirectsToSeenPod
=============================================================================
