----------------------------- MODULE Redirection -----------------------------
(***************************************************************************)
(* What the event loop does with a honeypod it got                         *)
(* (event_loop.py:301-328): it looks up the address of the attacker's pod, *)
(* publishes a redirection to it (es.py:56-72), looks the address up again *)
(* and has ConnectionTracker record and announce the connection            *)
(* (event_loop.py:398-418, connection_tracker.py:150-187).  All of it, the *)
(* calls of HoneypodManager (Honeypods) and the clean-up run in the thread *)
(* that holds EventLoop.lock, while the cluster moves on.                  *)
(*                                                                         *)
(* The address of a pod is named as the pod is, by its attacker, the       *)
(* generation of its deployment and the number of pods lost before.        *)
(* Nothing calls cleanup_connection_tracking or periodic_cleanup: a        *)
(* connection stays recorded until the next one of its attacker replaces   *)
(* it.                                                                     *)
(*                                                                         *)
(* Arity is EventLoop's arity: the 3 values deploy_honeypod returns, in    *)
(* the code as it is, do not unpack into two names, and the event ends     *)
(* there; 2 is the contract the lines after that were written for.         *)
(***************************************************************************)
EXTENDS Honeypods

CONSTANTS
  Arity,       \* 2 or 3: see above
  NoAddress    \* nothing found or recorded

ASSUME RedirectionAssumption == Arity \in {2, 3}

VARIABLES
  loop,       \* "free", "address", "publish", "address again", "track"
  found,      \* pod_ip of the last look-up
  active,     \* active_connections: ip -> pod or NoAddress
  seen        \* history: the attacker's pods that have been in the cluster
              \* since deploy_honeypod returned

event == <<loop, found, active, seen>>
redirection == <<vars, event>>

Addresses == [ip : IPs, gen : Nat, lost : Nat]

Address(p) == [ip |-> p.ip, gen |-> p.gen, lost |-> p.lost]

RedirectionInit == /\ Init
                   /\ loop = "free" /\ found = NoAddress
                   /\ active = [i \in IPs |-> NoAddress]
                   /\ seen = {}

AddressesOf(i) == {Address(p) : p \in {q \in pods : q.ip = i}}

\* Mutant: maintenance runs in a thread that does not take the lock.
CallUnlocked == /\ CallCleanup \/ (loop = "free" /\ \E i \in IPs : CallDeploy(i))
                /\ UNCHANGED event

\* One thread, one lock: the loop comes to its next call when the event is done.
Call == /\ loop = "free"
        /\ CallCleanup \/ \E i \in IPs : CallDeploy(i)
        /\ UNCHANGED event

\* When deploy_honeypod returns a success with ports, the event goes on.
Proceed == /\ IF /\ Waiting /\ pc' = "idle" /\ Arity = 2
                 /\ result'.success /\ result'.node # NoNode
              THEN loop' = "address" /\ seen' = AddressesOf(ip)
              ELSE UNCHANGED <<loop, seen>>
           /\ UNCHANGED <<found, active>>

Manage == (Deploying \/ PollFails) /\ Proceed

\* The pods that the attacker of an event gets meanwhile.
Noticed == /\ seen' = IF loop = "free" THEN seen ELSE seen \cup AddressesOf(ip)'
           /\ UNCHANGED <<loop, found, active>>

Others == (Cleaning \/ Cluster \/ Tick) /\ Noticed

\* The next step of the event; it forgets its pods when it is over.
GoTo(l) == loop' = l /\ seen' = IF l = "free" THEN {} ELSE seen

\* Mutant: the pod that is recorded for the attacker is taken without a request.
LookUpCached ==
  /\ loop \in {"address", "address again"}
  /\ IF active[ip] # NoAddress THEN found' = active[ip]
     ELSE \E p \in pods : p.ip = ip /\ found' = Address(p)
  /\ GoTo(IF loop = "address" THEN "publish" ELSE "track")
  /\ UNCHANGED <<vars, active>>

\* _get_honeypod_ip_and_port: the address of the first pod with the attacker's
\* label, if there is one; a pod that runs has one, others may, and whether it
\* runs or is being deleted is not asked.
LookUp ==
  /\ loop \in {"address", "address again"}
  /\ \/ /\ \E p \in pods : p.ip = ip /\ found' = Address(p)
        /\ GoTo(IF loop = "address" THEN "publish" ELSE "track")
     \/ /\ \/ FALSE \in ApiOutcomes
           \/ \A p \in pods : p.ip # ip
           \/ \E p \in pods : p.ip = ip /\ p.phase # "Running"
        /\ found' = NoAddress
        /\ GoTo(IF loop = "address" THEN "publish" ELSE "free")
  /\ UNCHANGED <<vars, active>>

\* publish_redirection, if there is an address: a message, or a logged error.
Publish == /\ loop = "publish"
           /\ GoTo("address again") /\ found' = NoAddress
           /\ UNCHANGED <<vars, active>>

\* setup_connection_tracking: recorded, whether or not the sensor can be told.
Track == /\ loop = "track"
         /\ active' = [active EXCEPT ![ip] = found]
         /\ GoTo("free") /\ found' = NoAddress
         /\ UNCHANGED vars

RedirectionNext == Call \/ Manage \/ Others \/ LookUp \/ Publish \/ Track

RedirectionSpec == RedirectionInit /\ [][RedirectionNext]_redirection

\* The thread that makes the calls runs, and time passes; the cluster may do
\* nothing, no request has to fail, and what the event does after a call does
\* not matter to the call.
RedirectionFairSpec ==
  /\ RedirectionSpec
  /\ WF_redirection(Deploying /\ Proceed)
  /\ WF_redirection((Cleaning \/ Tick) /\ Noticed)

-----------------------------------------------------------------------------
(* Properties *)

\* The variables range over the values the code can give them.
RedirectionTypeOK ==
  /\ TypeOK
  /\ loop \in {"free", "address", "publish", "address again", "track"}
  /\ found \in Addresses \cup {NoAddress}
  /\ active \in [IPs -> Addresses \cup {NoAddress}]
  /\ seen \subseteq Addresses

(***************************************************************************)
(* An attacker is redirected to, and recorded with, a pod of its own that  *)
(* has been in the cluster since deploy_honeypod returned, never one that  *)
(* an earlier event knew and that was gone before; and it still has a      *)
(* deployment, because clean-up waits for the event: when the pod is lost  *)
(* after it was looked up, the cluster makes another (event_loop.py:       *)
(* 301-325, 391, 420-444).  That the pod is still there is not promised,   *)
(* nor that the pod recorded is the one published.                         *)
(***************************************************************************)
RedirectsToSeenPod ==
  [][(loop # loop' /\ loop \in {"publish", "track"} /\ found # NoAddress) =>
       found.ip = ip /\ found \in seen /\ deployments[ip] # NoDeployment]_redirection
=============================================================================
