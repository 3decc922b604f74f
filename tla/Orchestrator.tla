----------------------------- MODULE Orchestrator -----------------------------
(***************************************************************************)
(* The orchestrator (orchestrator/orchestrator.py): for each request on    *)
(* the Redis channel deployment-notifications it makes a pod named after   *)
(* the attacker, watches it until it runs, writes its address into the     *)
(* hash attacker_map and announces that on map-updates.                    *)
(*                                                                         *)
(* One request is handled at a time; others wait in the subscription.  The *)
(* pods change on their own between any two requests to the API server.    *)
(* An address is named by the pod it belongs to, <<attacker, gen>>.        *)
(***************************************************************************)
EXTENDS Integers, Sequences

CONSTANTS
  Attackers,     \* addresses of attackers
  NoAttacker,    \* a message without attacker_ip, or one that is not JSON
  NoPod,         \* the API server has no pod of that name
  MaxRequests,   \* bound: messages published
  MaxPods,       \* bound: pods made for one attacker
  MaxCrashes     \* bound: restarts of the process

ASSUME OrchestratorAssumption ==
  /\ NoAttacker \notin Attackers
  /\ MaxRequests \in Nat /\ MaxPods \in Nat /\ MaxCrashes \in Nat

VARIABLES
  inbox,      \* messages of the subscription not yet taken
  pc,         \* "listen", "read", "create", "list", "watch", "store",
              \* "publish", "down"
  ip,         \* attacker_ip of the present request
  events,     \* the watch: states of the pod not yet looked at
  found,      \* gen of the pod whose address was read
  pods,       \* API server: the pod of each attacker, or NoPod
  made,       \* number of pods made for each attacker
  map,        \* Redis: attacker_map, the gen of the address; 0 for no field
  announced,  \* history: <<attacker, gen>> announced on map-updates
  ran,        \* history: pods that ran and had an address
  orphans,    \* history: pods whose request was cut short
  requests, crashes  \* counters for the bounds

cluster == <<pods, made, ran>>
redis   == <<map, announced>>
vars == <<inbox, pc, ip, events, found, cluster, redis, orphans,
          requests, crashes>>

Phases == {"Pending", "Running", "Ended"}  \* Ended: Failed or Succeeded
Pods == [gen : Nat \ {0}, phase : Phases, addressed : BOOLEAN]

Init == /\ inbox = <<>> /\ pc = "listen" /\ ip \in Attackers
        /\ events = <<>> /\ found = 0
        /\ pods = [a \in Attackers |-> NoPod] /\ made = [a \in Attackers |-> 0]
        /\ map = [a \in Attackers |-> 0] /\ announced = {}
        /\ ran = {} /\ orphans = {}
        /\ requests = 0 /\ crashes = 0

-----------------------------------------------------------------------------
(* The handler of a message. *)

\* Mutant: a message without attacker_ip is not skipped.
TakeAny == /\ pc = "listen" /\ inbox # <<>>
           /\ inbox' = Tail(inbox) /\ ip' = Head(inbox) /\ pc' = "read"
           /\ UNCHANGED <<events, found, cluster, redis, orphans, requests,
                          crashes>>

\* Lines 84-94.
Take == /\ pc = "listen" /\ inbox # <<>>
        /\ inbox' = Tail(inbox)
        /\ IF Head(inbox) = NoAttacker THEN UNCHANGED <<pc, ip>>
                                       ELSE ip' = Head(inbox) /\ pc' = "read"
        /\ UNCHANGED <<events, found, cluster, redis, orphans, requests, crashes>>

\* Lines 97-104: only "404" leads on; a pod that is there, running or not, and
\* any other error end the request.
Read == /\ pc = "read"
        /\ \/ pods[ip] = NoPod /\ pc' = "create"
           \/ pc' = "listen"
        /\ UNCHANGED <<inbox, ip, events, found, cluster, redis, orphans,
                       requests, crashes>>

Made == /\ made[ip] < MaxPods
        /\ made' = [made EXCEPT ![ip] = @ + 1]
        /\ pods' = [pods EXCEPT ![ip] = [gen |-> made'[ip], phase |-> "Pending",
                                         addressed |-> FALSE]]

\* Lines 107-109, and the exception of line 139: the request may be refused, or
\* carried out with its answer lost.
Create == /\ pc = "create"
          /\ \/ Made /\ pc' = "list" /\ UNCHANGED orphans
             \/ /\ Made /\ pc' = "listen"
                /\ orphans' = orphans \cup {<<ip, made'[ip]>>}
             \/ pc' = "listen" /\ UNCHANGED <<pods, made, orphans>>
          /\ UNCHANGED <<inbox, ip, events, found, ran, redis, requests, crashes>>

\* Lines 112-113: the watch is asked for.  It starts with the pod as it is by
\* now: it may have run or ended meanwhile, and of one that is gone it says
\* nothing.
Begin == /\ pc = "list" /\ pc' = "watch"
         /\ events' = IF pods[ip] = NoPod THEN <<>> ELSE <<pods[ip]>>
         /\ UNCHANGED <<inbox, ip, found, cluster, redis, orphans, requests,
                        crashes>>

Seen == Head(events)

\* Mutant: the break has slipped out of its branch: the first event ends the
\* watch.
LookOnce == /\ pc = "watch" /\ events # <<>>
            /\ IF Seen.phase = "Running" /\ Seen.addressed
               THEN pc' = "store" /\ found' = Seen.gen
               ELSE pc' = "listen" /\ UNCHANGED found
            /\ events' = <<>>
            /\ UNCHANGED <<inbox, ip, cluster, redis, orphans, requests, crashes>>

\* Mutant: the address is not asked for.
LookAtPhase == /\ pc = "watch" /\ events # <<>>
               /\ CASE Seen.phase = "Running" ->
                         pc' = "store" /\ found' = Seen.gen /\ events' = <<>>
                    [] Seen.phase = "Ended" ->
                         pc' = "listen" /\ events' = <<>> /\ UNCHANGED found
                    [] Seen.phase = "Pending" ->
                         events' = Tail(events) /\ UNCHANGED <<pc, found>>
               /\ UNCHANGED <<inbox, ip, cluster, redis, orphans, requests,
                              crashes>>

\* Mutant: a pod that failed is waited for like one that has not started.
LookForRunning == /\ pc = "watch" /\ events # <<>>
                  /\ IF Seen.phase = "Running" /\ Seen.addressed
                     THEN pc' = "store" /\ found' = Seen.gen /\ events' = <<>>
                     ELSE events' = Tail(events) /\ UNCHANGED <<pc, found>>
                  /\ UNCHANGED <<inbox, ip, cluster, redis, orphans, requests,
                                 crashes>>

\* Lines 113-135: the next event of the watch.
Look == /\ pc = "watch" /\ events # <<>>
        /\ CASE Seen.phase = "Running" /\ Seen.addressed ->
                  pc' = "store" /\ found' = Seen.gen /\ events' = <<>>
             [] Seen.phase = "Ended" ->
                  pc' = "listen" /\ events' = <<>> /\ UNCHANGED found
             [] OTHER -> events' = Tail(events) /\ UNCHANGED <<pc, found>>
        /\ UNCHANGED <<inbox, ip, cluster, redis, orphans, requests, crashes>>

\* Lines 122-124; hset may raise although Redis has carried it out.
Store == /\ pc = "store"
         /\ map' = [map EXCEPT ![ip] = found] /\ pc' \in {"publish", "listen"}
         /\ UNCHANGED <<inbox, ip, events, found, cluster, announced, orphans,
                        requests, crashes>>

\* Lines 127-131; publish raises, or the message is sent.
Publish == /\ pc = "publish"
           /\ \/ announced' = announced \cup {<<ip, found>>}
              \/ UNCHANGED announced
           /\ pc' = "listen"
           /\ UNCHANGED <<inbox, ip, events, found, cluster, map, orphans,
                          requests, crashes>>

\* Line 139: the watch or hset raises and has done nothing; the pod stays.
Raise == /\ pc \in {"list", "watch", "store"}
         /\ pc' = "listen" /\ events' = <<>>
         /\ orphans' = orphans \cup {<<ip, made[ip]>>}
         /\ UNCHANGED <<inbox, ip, found, cluster, redis, requests, crashes>>

\* listen() raises, or the container dies; it subscribes anew when it is back.
Crash == /\ pc # "down" /\ crashes < MaxCrashes
         /\ crashes' = crashes + 1
         /\ pc' = "down" /\ inbox' = <<>> /\ events' = <<>>
         /\ orphans' = IF pc \in {"list", "watch", "store"}
                       THEN orphans \cup {<<ip, made[ip]>>} ELSE orphans
         /\ UNCHANGED <<ip, found, cluster, redis, requests>>

\* Lines 69-82.
Subscribe == /\ pc = "down" /\ pc' = "listen"
             /\ UNCHANGED <<inbox, ip, events, found, cluster, redis, orphans,
                            requests, crashes>>

-----------------------------------------------------------------------------
(* Redis delivers to subscribers only; the cluster moves the pods. *)

Request == /\ requests < MaxRequests
           /\ requests' = requests + 1
           /\ \E m \in Attackers \cup {NoAttacker} :
                inbox' = IF pc = "down" THEN inbox ELSE Append(inbox, m)
           /\ UNCHANGED <<pc, ip, events, found, cluster, redis, orphans, crashes>>

Watching(a) == pc = "watch" /\ ip = a

\* The pod of attacker a becomes p, and a watch on it is told.
Becomes(a, p) ==
  /\ pods' = [pods EXCEPT ![a] = p]
  /\ events' = IF Watching(a) THEN Append(events, p) ELSE events
  /\ ran' = IF p.phase = "Running" /\ p.addressed
            THEN ran \cup {<<a, p.gen>>} ELSE ran
  /\ UNCHANGED <<inbox, pc, ip, found, made, redis, orphans, requests, crashes>>

StartPod(a) == /\ pods[a] # NoPod /\ pods[a].phase = "Pending"
               /\ Becomes(a, [pods[a] EXCEPT !.phase = "Running"])

AddressPod(a) == /\ pods[a] # NoPod /\ pods[a].phase # "Ended"
                 /\ ~pods[a].addressed
                 /\ Becomes(a, [pods[a] EXCEPT !.addressed = TRUE])

EndPod(a) == /\ pods[a] # NoPod /\ pods[a].phase # "Ended"
             /\ Becomes(a, [pods[a] EXCEPT !.phase = "Ended"])

\* Somebody else deletes the pod; the event carries its last state.
RemovePod(a) ==
  /\ pods[a] # NoPod
  /\ pods' = [pods EXCEPT ![a] = NoPod]
  /\ events' = IF Watching(a) THEN Append(events, pods[a]) ELSE events
  /\ UNCHANGED <<inbox, pc, ip, found, made, ran, redis, orphans, requests,
                 crashes>>

Cluster == \E a \in Attackers :
             StartPod(a) \/ AddressPod(a) \/ EndPod(a) \/ RemovePod(a)

Handle == \/ Take \/ Read \/ Create \/ Begin \/ Look \/ Store \/ Publish
          \/ Subscribe

Next == Handle \/ Raise \/ Crash \/ Request \/ Cluster

Spec == Init /\ [][Next]_vars

\* The process runs and is restarted; nothing else has to happen.
FairSpec == Spec /\ WF_vars(Handle)

-----------------------------------------------------------------------------
(* Properties. *)

\* Type correctness; the request being handled names an attacker.
TypeOK ==
  /\ inbox \in Seq(Attackers \cup {NoAttacker})
  /\ pc \in {"listen", "read", "create", "list", "watch", "store", "publish",
             "down"}
  /\ ip \in Attackers /\ events \in Seq(Pods) /\ found \in Nat
  /\ pods \in [Attackers -> Pods \cup {NoPod}] /\ made \in [Attackers -> Nat]
  /\ map \in [Attackers -> Nat]
  /\ {announced, ran, orphans} \subseteq SUBSET (Attackers \X (Nat \ {0}))
  /\ requests \in Nat /\ crashes \in Nat

(***************************************************************************)
(* attacker_map holds addresses only of pods that did run and had one,     *)
(* and only the attacker's own (orchestrator.py:117-123), although the     *)
(* state a watch reports may long have passed; and whoever is told of a    *)
(* pod on map-updates (line 127) and then reads the hash finds this pod or *)
(* a later one of the attacker.                                            *)
(***************************************************************************)
MappedPodsRan == /\ \A a \in Attackers : map[a] # 0 => <<a, map[a]>> \in ran
                 /\ \A t \in announced : map[t[1]] >= t[2]

(***************************************************************************)
(* A pod that runs is mapped, except while its request is being handled    *)
(* and when that request was cut short by an error or a crash between the  *)
(* creation and hset (orchestrator.py:106-124): such a pod makes every     *)
(* later request for the attacker end at line 100, and stays unmapped.     *)
(***************************************************************************)
MadePodsAreMapped ==
  \A a \in Attackers :
    \/ pods[a] = NoPod \/ pods[a].phase # "Running" \/ ~pods[a].addressed
    \/ map[a] = pods[a].gen
    \/ pc \in {"list", "watch", "store"} /\ ip = a
    \/ <<a, pods[a].gen>> \in orphans

(***************************************************************************)
(* A watch comes to an end once its pod is found to run with an address or *)
(* to have ended, also when it came to that before the watch began, and    *)
(* however short it lasts: the pod may be gone before the watch has looked *)
(* (orchestrator.py:108-135).  A pod that does neither while it is         *)
(* watched, or was deleted before the watch began, blocks the orchestrator *)
(* for good: the watch has no timeout.                                     *)
(***************************************************************************)
WatchEnds ==
  (/\ pc = "watch" /\ pods[ip] # NoPod
   /\ \/ pods[ip].phase = "Ended"
      \/ pods[ip].phase = "Running" /\ pods[ip].addressed) ~> (pc # "watch")

=============================================================================
