------------------------------ MODULE Honeypods ------------------------------
(***************************************************************************)
(* HoneypodManager (hive/rl-agent/rl_agent/k8s.py): honeypods are          *)
(* Kubernetes deployments, one name per attacker.  The event loop is its   *)
(* only caller and makes one call at a time; between two requests to the   *)
(* API server the cluster moves on: it starts pods for a deployment, runs  *)
(* them, loses them (a node fails, somebody deletes or evicts a pod) and   *)
(* replaces them, and takes pods away when they are lost or their          *)
(* deployment is gone.  Every request may raise an ApiException.           *)
(*                                                                         *)
(* A pod remembers the generation of the deployment it was made for and    *)
(* the number of pods lost before, and is named by them.  The manager      *)
(* selects pods by the label src-ip alone, so that it may see pods of a    *)
(* deployment that was deleted before, or a pod that is being replaced;    *)
(* the list has no order it could rely on, and only its first pod is       *)
(* looked at.  All pods are made from one specification that asks for host *)
(* port 0 (lines 336-346): whether that gives pods host ports, which is    *)
(* hasPorts, is the cluster's choice, and the same for all.                *)
(***************************************************************************)
EXTENDS Integers, FiniteSets

CONSTANTS
  IPs,           \* attackers
  Nodes,         \* cluster nodes
  NoNode,        \* no node: nothing pinned, nothing returned
  NoDeployment,
  PortTimeout,   \* path -> timeout of _get_pod_host_ports (30, 60, 120, 300)
  MaxAge,        \* max_age_seconds
  ApiOutcomes,   \* {TRUE}, or BOOLEAN when requests may fail
  MaxClock,      \* bound: the clock
  MaxCalls,      \* bound: calls of deploy_honeypod
  MaxCleanups,   \* bound: calls of cleanup_expired_pods
  MaxWarm,       \* bound: pods that join the warm pool
  MaxLost        \* bound: pods lost although their deployment is there

Paths == {"existing", "warm", "fresh", "conflict"}

Deployments == [gen : Nat, created : Nat, pinned : Nodes \cup {NoNode}]

ASSUME HoneypodsAssumption ==
  /\ IPs # {} /\ NoNode \notin Nodes /\ NoDeployment \notin Deployments
  /\ PortTimeout \in [Paths -> Nat]
  /\ ApiOutcomes \subseteq BOOLEAN /\ TRUE \in ApiOutcomes
  /\ {MaxAge, MaxClock, MaxCalls, MaxCleanups, MaxWarm, MaxLost} \subseteq Nat

\* active: the pod counts as one of its deployment; it no longer does when it
\* has failed or is being deleted.  Ended: Failed or Succeeded.
Pods == [ip : IPs, gen : Nat, lost : Nat, node : Nodes,
         phase : {"Pending", "Running", "Ended"}, active : BOOLEAN]

VARIABLES
  clock,
  deployments,  \* API server: ip -> deployment or NoDeployment
  pods,         \* API server: pods labelled app=honeypod
  warm,         \* API server: nodes with a ready pod of the warm pool
  hasPorts,     \* pods have host ports
  pc,           \* "idle", "read", "warm", "unwarm", "create", "ports", "list",
                \* "node", "delete"
  ip,           \* attacker of the call
  node,         \* node of the warm pod taken, or NoNode
  path, deadline,  \* why the call waits for ports, and until when
  host,         \* node of the pod that the present poll has found
  expired,      \* cleanup: what is left of the deployments to delete
  result,       \* of deploy_honeypod: [success, node]
  calls, cleanups, warmed, lost,  \* counters of the bounds
  hosts         \* history: nodes on which a pod of the attacker was ready at
                \* some moment of the present poll

counters == <<cleanups, warmed, lost>>
rest == <<hasPorts, counters, hosts>>
cluster == <<deployments, pods, warm>>
call == <<pc, ip, node, path, deadline, host, expired, result, calls>>
vars == <<clock, cluster, call, rest>>

NoResult == [success |-> FALSE, node |-> NoNode]

Init == /\ clock = 0
        /\ deployments = [i \in IPs |-> NoDeployment]
        /\ pods = {} /\ warm = {} /\ hasPorts \in BOOLEAN
        /\ pc = "idle" /\ ip \in IPs
        /\ node = NoNode /\ path = "fresh" /\ deadline = 0
        /\ host = NoNode /\ expired = {}
        /\ result = NoResult
        /\ calls = 0 /\ cleanups = 0 /\ warmed = 0 /\ lost = 0 /\ hosts = {}

-----------------------------------------------------------------------------
(* deploy_honeypod *)

CallDeploy(i) == /\ pc = "idle" /\ calls < MaxCalls
                 /\ pc' = "read" /\ ip' = i /\ node' = NoNode
                 /\ calls' = calls + 1 /\ result' = NoResult
                 /\ UNCHANGED <<clock, cluster, path, deadline, host, expired, rest>>

\* Mutant: the timeout is counted back from the start of the wait.
WaitCountsBack(p) == /\ pc' = "ports" /\ path' = p
                     /\ deadline' = clock - PortTimeout[p]
                     /\ UNCHANGED <<host, hosts>>

\* _get_pod_host_ports(ip, timeout) begins.
WaitForPorts(p) == /\ pc' = "ports" /\ path' = p
                   /\ deadline' = clock + PortTimeout[p]
                   /\ UNCHANGED <<host, hosts>>

\* A poll is over.
PollEnds == host' = NoNode /\ hosts' = {}

\* The call returns, and what it knew is forgotten.
Return(success, n) == /\ pc' = "idle" /\ result' = [success |-> success, node |-> n]
                      /\ node' = NoNode /\ path' = "fresh" /\ deadline' = 0
                      /\ PollEnds

\* Lines 45-53: a failed read is taken for an absent deployment.
Read == /\ pc = "read"
        /\ \E ok \in ApiOutcomes :
             IF ok /\ deployments[ip] # NoDeployment
             THEN WaitForPorts("existing")
             ELSE pc' = "warm" /\ UNCHANGED <<path, deadline, host, hosts>>
        /\ UNCHANGED <<clock, cluster, ip, node, expired, result, calls,
                       hasPorts, counters>>

\* Lines 56-64: a pod of the pool, if there is one and the request succeeds.
ListWarm == /\ pc = "warm"
            /\ \/ /\ warm = {} \/ FALSE \in ApiOutcomes
                  /\ pc' = "create" /\ UNCHANGED node
               \/ \E n \in warm : pc' = "unwarm" /\ node' = n
            /\ UNCHANGED <<clock, cluster, ip, path, deadline, host, expired,
                           result, calls, rest>>

\* Lines 67-74: the placeholder is deleted; a failure is only logged.
DeleteWarm == /\ pc = "unwarm"
              /\ \E ok \in ApiOutcomes : warm' = IF ok THEN warm \ {node} ELSE warm
              /\ pc' = "create"
              /\ UNCHANGED <<clock, deployments, pods, ip, node, path, deadline,
                             host, expired, result, calls, rest>>

NewDeployment == [gen |-> calls, created |-> clock, pinned |-> node]

\* Mutant: whatever create_namespaced_deployment raises means "already exists".
CreateTakesErrorForConflict ==
  /\ pc = "create"
  /\ \E ok \in ApiOutcomes :
       CASE deployments[ip] = NoDeployment /\ ok ->
              /\ deployments' = [deployments EXCEPT ![ip] = NewDeployment]
              /\ WaitForPorts(IF node = NoNode THEN "fresh" ELSE "warm")
              /\ UNCHANGED <<node, result>>
         [] OTHER ->
              /\ WaitForPorts("fresh") /\ UNCHANGED <<deployments, node, result>>
  /\ UNCHANGED <<clock, pods, warm, ip, expired, calls, hasPorts, counters>>

\* Lines 77-79 on the node of the warm pod, 89-106 anywhere.  The first is
\* followed by the second when it raises, a conflict included.
Create ==
  /\ pc = "create"
  /\ \E ok \in ApiOutcomes :
       CASE deployments[ip] = NoDeployment /\ ok ->
              /\ deployments' = [deployments EXCEPT ![ip] = NewDeployment]
              /\ WaitForPorts(IF node = NoNode THEN "fresh" ELSE "warm")
              /\ UNCHANGED <<node, result>>
         [] node # NoNode /\ (~ok \/ deployments[ip] # NoDeployment) ->
              /\ node' = NoNode
              /\ UNCHANGED <<deployments, pc, path, deadline, host, hosts, result>>
         [] node = NoNode /\ ok /\ deployments[ip] # NoDeployment ->
              /\ WaitForPorts("conflict")
              /\ UNCHANGED <<deployments, node, result>>
         [] node = NoNode /\ ~ok ->
              /\ Return(FALSE, NoNode) /\ UNCHANGED deployments
  /\ UNCHANGED <<clock, pods, warm, ip, expired, calls, hasPorts, counters>>

-----------------------------------------------------------------------------
(* _get_pod_host_ports *)

Waiting == pc \in {"ports", "list", "node"}

Ready(p) == p.phase = "Running" /\ hasPorts

\* Mutant: the label selector names the application only.
ListedByApp == pods

\* The pods of the selector "app=honeypod,src-ip=...".
Listed == {p \in pods : p.ip = ip}

\* Lines 134-136: until the deadline, the pods are asked for.
Poll == /\ pc = "ports" /\ clock < deadline
        /\ pc' = "list"
        /\ hosts' = {p.node : p \in {q \in pods : q.ip = ip /\ Ready(q)}}
        /\ UNCHANGED <<clock, cluster, ip, node, path, deadline, host, expired,
                       result, calls, hasPorts, counters>>

\* Lines 136-151: the first pod of the answer is ready, or it is not, or there
\* is none, and the next poll begins after two seconds.
Answer ==
  /\ pc = "list"
  /\ \/ /\ \E p \in Listed : Ready(p) /\ host' = p.node
        /\ pc' = "node" /\ UNCHANGED hosts
     \/ /\ Listed = {} \/ \E p \in Listed : ~Ready(p)
        /\ pc' = "ports" /\ PollEnds
  /\ UNCHANGED <<clock, cluster, ip, node, path, deadline, expired, result, calls,
                 hasPorts, counters>>

\* Lines 152-158: the node has an internal address, which is returned, or not.
\* By now the pod may be gone, and the deadline have passed.
ReadNode == /\ pc = "node"
            /\ \/ Return(TRUE, host)
               \/ /\ pc' = "ports" /\ PollEnds
                  /\ UNCHANGED <<node, path, deadline, result>>
            /\ UNCHANGED <<clock, cluster, ip, expired, calls, hasPorts, counters>>

\* Without ports, only a deployment made from scratch is a success (line 96).
NoPorts == /\ Return(path = "fresh", NoNode)
           /\ UNCHANGED <<clock, cluster, ip, expired, calls, hasPorts, counters>>

\* Lines 163-165: either request raises.
PollFails == FALSE \in ApiOutcomes /\ pc \in {"list", "node"} /\ NoPorts

\* Mutant: the deadline only counts once there is a pod to wait for.
TimeoutNeedsPod == /\ pc = "ports" /\ clock >= deadline
                   /\ \E p \in pods : p.ip = ip
                   /\ NoPorts

\* Lines 167-168.
Timeout == pc = "ports" /\ clock >= deadline /\ NoPorts

-----------------------------------------------------------------------------
(* cleanup_expired_pods *)

\* Mutant: deployments whose age is the limit are deleted too.
CallCleanupEarly ==
  /\ pc = "idle" /\ cleanups < MaxCleanups
  /\ cleanups' = cleanups + 1
  /\ expired' = {i \in IPs : deployments[i] # NoDeployment
                               /\ clock - deployments[i].created >= MaxAge}
  /\ pc' = "delete"
  /\ UNCHANGED <<clock, cluster, ip, node, path, deadline, host, result, calls,
                 hasPorts, warmed, lost, hosts>>

\* Lines 204-216: a failed list ends the call.
CallCleanup ==
  /\ pc = "idle" /\ cleanups < MaxCleanups
  /\ cleanups' = cleanups + 1
  /\ \/ /\ expired' = {i \in IPs : deployments[i] # NoDeployment
                                     /\ clock - deployments[i].created > MaxAge}
        /\ pc' = "delete"
     \/ FALSE \in ApiOutcomes /\ UNCHANGED <<expired, pc>>
  /\ UNCHANGED <<clock, cluster, ip, node, path, deadline, host, result, calls,
                 hasPorts, warmed, lost, hosts>>

\* A failed deletion is logged, and the next deployment is tried.
DeleteExpired(i) ==
  /\ pc = "delete" /\ i \in expired
  /\ expired' = expired \ {i}
  /\ \E ok \in ApiOutcomes :
       deployments' = IF ok THEN [deployments EXCEPT ![i] = NoDeployment]
                            ELSE deployments
  /\ UNCHANGED <<clock, pods, warm, pc, ip, node, path, deadline, host, result,
                 calls, rest>>

CleanupEnds == /\ pc = "delete" /\ expired = {}
               /\ pc' = "idle"
               /\ UNCHANGED <<clock, cluster, ip, node, path, deadline, host,
                              expired, result, calls, rest>>

-----------------------------------------------------------------------------
(* The cluster *)

Current(p) == /\ deployments[p.ip] # NoDeployment
              /\ deployments[p.ip].gen = p.gen

\* The deployment has no active pod: the controller makes one, on the pinned
\* node if there is one.
SpawnPod(i) ==
  /\ deployments[i] # NoDeployment
  /\ ~\E p \in pods : p.ip = i /\ p.active /\ Current(p)
  /\ \E n \in Nodes :
       /\ deployments[i].pinned \in {n, NoNode}
       /\ pods' = pods \cup {[ip |-> i, gen |-> deployments[i].gen, lost |-> lost,
                              node |-> n, phase |-> "Pending", active |-> TRUE]}
  /\ UNCHANGED <<clock, deployments, warm, call, rest>>

RunPod(p) == /\ p.phase = "Pending"
             /\ pods' = (pods \ {p}) \cup {[p EXCEPT !.phase = "Running"]}
             /\ hosts' = IF pc \in {"list", "node"} /\ p.ip = ip /\ hasPorts
                         THEN hosts \cup {p.node} ELSE hosts
             /\ UNCHANGED <<clock, deployments, warm, call, hasPorts, counters>>

\* A pod fails, or its deletion begins; its deployment, if it still has one, may
\* have another.
LosePod(p) == /\ p.active /\ (Current(p) => lost < MaxLost)
              /\ lost' = IF Current(p) THEN lost + 1 ELSE lost
              /\ \E f \in {p.phase, "Ended"} :
                   pods' = (pods \ {p}) \cup {[p EXCEPT !.phase = f, !.active = FALSE]}
              /\ UNCHANGED <<clock, deployments, warm, call, hasPorts, cleanups,
                             warmed, hosts>>

\* A pod that is lost or whose deployment is gone disappears some time after.
EndPod(p) == /\ ~(p.active /\ Current(p))
             /\ pods' = pods \ {p}
             /\ UNCHANGED <<clock, deployments, warm, call, rest>>

FillPool == /\ warmed < MaxWarm
            /\ warmed' = warmed + 1
            /\ \E n \in Nodes : warm' = warm \cup {n}
            /\ UNCHANGED <<clock, deployments, pods, call, hasPorts, cleanups,
                           lost, hosts>>

\* The bound of the clock leaves room for a wait that has begun.
Tick == /\ clock < MaxClock \/ (Waiting /\ clock < deadline)
        /\ clock' = clock + 1
        /\ UNCHANGED <<cluster, call, rest>>

Polling == Poll \/ Answer \/ ReadNode \/ Timeout

Deploying == Read \/ ListWarm \/ DeleteWarm \/ Create \/ Polling

Cleaning == CleanupEnds \/ \E i \in IPs : DeleteExpired(i)

Cluster == \/ \E i \in IPs : SpawnPod(i)
           \/ \E p \in pods : RunPod(p) \/ LosePod(p) \/ EndPod(p)
           \/ FillPool

Next == \/ CallCleanup \/ \E i \in IPs : CallDeploy(i)
        \/ Deploying \/ PollFails \/ Cleaning \/ Cluster \/ Tick

Spec == Init /\ [][Next]_vars

\* The caller's thread runs and time passes; the cluster may do nothing, and
\* no request has to fail.
FairSpec == Spec /\ WF_vars(Deploying \/ Cleaning) /\ WF_vars(Tick)

-----------------------------------------------------------------------------
(* Properties *)

\* The variables range over the values the code and the cluster can give them.
TypeOK ==
  /\ clock \in Nat
  /\ deployments \in [IPs -> Deployments \cup {NoDeployment}]
  /\ pods \subseteq Pods /\ warm \subseteq Nodes /\ hasPorts \in BOOLEAN
  /\ pc \in {"idle", "read", "warm", "unwarm", "create", "ports", "list", "node",
             "delete"}
  /\ ip \in IPs /\ node \in Nodes \cup {NoNode}
  /\ path \in Paths /\ deadline \in Nat /\ expired \subseteq IPs
  /\ host \in Nodes \cup {NoNode} /\ hosts \subseteq Nodes
  /\ result \in [success : BOOLEAN, node : Nodes \cup {NoNode}]
  /\ {calls, cleanups, warmed, lost} \subseteq Nat

(***************************************************************************)
(* A call that reports success leaves the attacker's deployment in the     *)
(* cluster, along each of its four paths and whatever requests failed on   *)
(* the way (k8s.py:45-106); the event loop then waits for a hit on it.     *)
(***************************************************************************)
SuccessMeansDeployed ==
  [][((pc = "create" \/ Waiting) /\ pc' = "idle" /\ result'.success)
       => deployments'[ip] # NoDeployment]_vars

(***************************************************************************)
(* The node a call returns is one on which a pod of this attacker was      *)
(* ready, with host ports, at some moment of the very poll that found it   *)
(* (k8s.py:134-158): never another attacker's node, and never one known    *)
(* from before only, although the pod may be lost, replaced or deleted     *)
(* between the list (line 136) and the read of its node (line 152), and    *)
(* then need not be there any more when the call returns.                  *)
(***************************************************************************)
MappingOfAttacker ==
  [][(Waiting /\ pc' = "idle" /\ result'.node # NoNode) => result'.node \in hosts]_vars

(***************************************************************************)
(* A deployment is deleted only when it is older than max_age_seconds,     *)
(* although the deletions come after the list and name deployments by      *)
(* attacker: nothing is deployed in between (k8s.py:204-228).              *)
(***************************************************************************)
YoungDeploymentsStay ==
  [][\A i \in IPs : (deployments[i] # NoDeployment /\ deployments'[i] = NoDeployment)
                      => clock - deployments[i].created > MaxAge]_vars

(***************************************************************************)
(* Every call returns, also when no pod ever runs: the event loop holds    *)
(* its lock meanwhile (k8s.py:131-168).                                    *)
(***************************************************************************)
EveryCallReturns == (pc # "idle") ~> (pc = "idle")
=============================================================================
