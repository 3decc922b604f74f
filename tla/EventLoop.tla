------------------------------ MODULE EventLoop -----------------------------
(***************************************************************************)
(* The decision loop of the RL agent (hive/rl-agent/rl_agent/event_loop.py)*)
(* One thread processes one log event after the other under EventLoop.lock *)
(* so that an event is one step: decide, act, complete the transition of   *)
(* the attacker's previous decision, keep this one pending, reward a hit,  *)
(* and every MaintenanceEvery events run _periodic_maintenance.            *)
(*                                                                         *)
(* A state tensor is named by the event it was built at, <<ip, number>>.   *)
(* The agent may choose either action (Inference.tla); the cluster may     *)
(* have resources or not, and a deployment may succeed or not              *)
(* (Honeypods.tla).  Rewards are in hundredths.                            *)
(*                                                                         *)
(* `success, port_mapping = ...deploy_honeypod(ip)` (event_loop.py:304)    *)
(* unpacks two values; deploy_honeypod returns three (k8s.py:40-106).  So  *)
(* every deployment raises ValueError after it was made, run()'s catch-all *)
(* logs it, and the rest of the event is skipped: action Abort.  `arity`   *)
(* keeps that visible: 3 is the code as it is; 2 is the contract its       *)
(* caller was written for, under which lines 305-328 and 339-376 run.      *)
(* Every property is checked for both.                                     *)
(***************************************************************************)
EXTENDS Learning

CONSTANTS
  IPs,                \* attackers
  Arities,            \* subset of {2, 3}: see above
  Cooldown,           \* ip_cooldown_sec
  HoneypodTtl,        \* honeypod_ttl_sec
  IdleTimeout,        \* idle_timeout_sec
  MaintenanceEvery,   \* 1000 in the code (event_loop.py:282)
  MaxEvents,          \* bound: events
  MaxClock,           \* bound: the clock
  Waits,              \* how long a deployment may block the loop (k8s.py:131-168)
  None

ASSUME EventLoopAssumption ==
  /\ IsFiniteSet(IPs)
  /\ Arities \subseteq {2, 3} /\ Arities # {}
  /\ {Cooldown, HoneypodTtl, IdleTimeout, MaxEvents, MaxClock} \subseteq Nat
  /\ Waits \subseteq Nat
  /\ MaintenanceEvery \in Nat \ {0}

AttackReward == 100        \* feature_config.attack_reward
FalseDeployPenalty == -10  \* feature_config.false_deploy_penalty
CooldownPenalty == -1      \* feature_config.cooldown_penalty

States == IPs \X (1 .. MaxEvents)

Terminal == <<None, 0>>    \* np.zeros_like(state)

VARIABLES
  arity,        \* the number of values deploy_honeypod returns
  k8s,          \* honeypod_manager is not None
  clock,        \* time.time()
  events,       \* events taken from the source
  processed,    \* stats['events_processed']
  triggered,    \* stats['deploys_triggered']
  lastDeploy,   \* last_deploy_time: ip -> time or None
  deploys,      \* pending_deploys: ip -> [state, time] or None
  transitions,  \* pending_transitions: ip -> [state, action, reward, time] or None
  agent,        \* the learning agent
  memory,       \* history: the experiences it was given, oldest first
  pods          \* cluster: ip -> creation time of its honeypod, or None

vars == <<arity, k8s, clock, events, processed, triggered, lastDeploy, deploys,
          transitions, agent, memory, pods>>

Init == /\ arity \in Arities
        /\ k8s \in BOOLEAN
        /\ clock = 0 /\ events = 0 /\ processed = 0 /\ triggered = 0
        /\ lastDeploy = [ip \in IPs |-> None]
        /\ deploys = [ip \in IPs |-> None]
        /\ transitions = [ip \in IPs |-> None]
        /\ agent = NewAgent /\ memory = <<>>
        /\ pods = [ip \in IPs |-> None]

-----------------------------------------------------------------------------
(* Replay memory *)

\* agent.remember: a transition from state s.
Experience(s, action, reward, next, done) ==
  [state |-> s, action |-> action, reward |-> reward, next |-> next, done |-> done]

\* The learner after agent.remember of the experiences xs, one after the other.
Learn(l, xs) == [l EXCEPT !.agent = Remembered(@, xs), !.memory = @ \o xs]

\* A pending transition, completed by the state or terminal state `next`.
Completed(t, next, done) == Experience(t.state, t.action, t.reward, next, done)

-----------------------------------------------------------------------------
(* _periodic_maintenance, as the learner's state after it *)

ExpiredDeploys(l, now) ==
  {ip \in IPs : l.deploys[ip] # None /\ now - l.deploys[ip].time > HoneypodTtl}

StaleTransitions(l, now) ==
  {ip \in IPs : l.transitions[ip] # None
                  /\ now - l.transitions[ip].time > IdleTimeout}

Without(f, S) == [ip \in IPs |-> IF ip \in S THEN None ELSE f[ip]]

Penalties(l, now) ==
  [ip \in ExpiredDeploys(l, now) |->
     Experience(l.deploys[ip].state, "deploy", FalseDeployPenalty, Terminal, TRUE)]

Finals(l, now) ==
  [ip \in StaleTransitions(l, now) |-> Completed(l.transitions[ip], Terminal, TRUE)]

\* The learner after all these experiences of attackers, in some order.
LearnAll(l, experiences) ==
  LET order == SetToSeq(DOMAIN experiences)
  IN Learn(l, [k \in DOMAIN order |-> experiences[order[k]]])

\* Mutant: expired deploys are penalised, and stay pending.
PenaltyKeepsDeploy(l, now) ==
  LET trained == [l EXCEPT !.agent = Trained(@, TrainIterations)]
      penalised == LearnAll(trained, Penalties(l, now))
      finalised == LearnAll(penalised, Finals(l, now))
  IN [finalised EXCEPT !.transitions = Without(@, StaleTransitions(l, now))]

\* Train, penalise expired deployments, finalise stale transitions.
Maintained(l, now) ==
  LET trained == [l EXCEPT !.agent = Trained(@, TrainIterations)]
      penalised == LearnAll(trained, Penalties(l, now))
      finalised == LearnAll(penalised, Finals(l, now))
  IN [finalised EXCEPT !.deploys = Without(@, ExpiredDeploys(l, now)),
                       !.transitions = Without(@, StaleTransitions(l, now))]

\* cleanup_expired_pods(honeypod_ttl_sec), when Kubernetes is there.
CleanedUp(p, now) ==
  Without(p, {ip \in IPs : p[ip] # None /\ now - p[ip] > HoneypodTtl})

-----------------------------------------------------------------------------
(* _process_event *)

\* Mutant: the reward of the completed transition is carried over to the next.
StoredAccumulates(l, ip, t) ==
  LET old == l.transitions[ip]
  IN IF old = None THEN [l EXCEPT !.transitions[ip] = t]
     ELSE [Learn(l, <<Completed(old, t.state, FALSE)>>)
             EXCEPT !.transitions[ip] = [t EXCEPT !.reward = @ + old.reward]]

\* Mutant: the new decision is stored before the pending one is completed.
StoredFirst(l, ip, t) ==
  [Learn(l, <<Completed(t, t.state, FALSE)>>) EXCEPT !.transitions[ip] = None]

\* Lines 266-273: complete the previous transition, keep this one pending.
Stored(l, ip, t) ==
  LET old == l.transitions[ip]
      completed == IF old = None THEN l ELSE Learn(l, <<Completed(old, t.state, FALSE)>>)
  IN [completed EXCEPT !.transitions[ip] = t]

\* The experience of a hit: the pending transition with the reward added.
HitExperience(t) == Experience(t.state, "deploy", t.reward + AttackReward, t.state, FALSE)

\* Mutant: a hit reads the pending transition without taking it.
RewardedKeepsTransition(l, ip, hit) ==
  IF ~hit \/ l.deploys[ip] = None THEN l
  ELSE [Learn(l, <<HitExperience(l.transitions[ip])>>) EXCEPT !.agent = Trained(@, 1),
                                                          !.deploys[ip] = None]

\* Mutant: the training step comes before the experience.
RewardedAfterTraining(l, ip, hit) ==
  IF ~hit \/ l.deploys[ip] = None THEN l
  ELSE [Learn([l EXCEPT !.agent = Trained(@, 1)], <<HitExperience(l.transitions[ip])>>)
          EXCEPT !.deploys[ip] = None, !.transitions[ip] = None]

\* _check_pending_deploys: a hit takes both pending entries of the attacker.
Rewarded(l, ip, hit) ==
  IF ~hit \/ l.deploys[ip] = None THEN l
  ELSE [Learn(l, <<HitExperience(l.transitions[ip])>>) EXCEPT !.agent = Trained(@, 1),
                                                          !.deploys[ip] = None,
                                                          !.transitions[ip] = None]

\* What every event that is not aborted does after the action was executed.
\* Times are those of the start of the event; maintenance reads the clock again.
Finish(ip, action, reward, hit, deploysNow, podsNow) ==
  LET t == [state |-> <<ip, events + 1>>, action |-> action, reward |-> reward,
            time |-> clock]
      before == [agent |-> agent, memory |-> memory, deploys |-> deploysNow,
                 transitions |-> transitions]
      after == Rewarded(Stored(before, ip, t), ip, hit)
      due == (processed + 1) % MaintenanceEvery = 0
      final == IF due THEN Maintained(after, clock') ELSE after
  IN /\ agent' = final.agent
     /\ memory' = final.memory
     /\ deploys' = final.deploys
     /\ transitions' = final.transitions
     /\ pods' = IF due THEN CleanedUp(podsNow, clock') ELSE podsNow
     /\ processed' = processed + 1

NextEvent == /\ events < MaxEvents
             /\ events' = events + 1
             /\ UNCHANGED <<arity, k8s>>

\* deploy_honeypod waits for the pod while the loop holds its lock.
Blocks == \E w \in Waits : clock' = clock + w

CoolingDown(ip) == lastDeploy[ip] # None /\ clock - lastDeploy[ip] < Cooldown

\* Action "wait".
Wait(ip, hit) ==
  /\ NextEvent /\ clock' = clock
  /\ Finish(ip, "wait", 0, hit, deploys, pods)
  /\ UNCHANGED <<lastDeploy, triggered>>

\* Action "deploy" during the cooldown, or without enough cluster resources.
Refuse(ip, hit) ==
  /\ CoolingDown(ip) \/ k8s
  /\ NextEvent /\ clock' = clock
  /\ Finish(ip, "deploy", CooldownPenalty, hit, deploys, pods)
  /\ UNCHANGED <<lastDeploy, triggered>>

\* The deployment exists already, or is created now.
NewPod(ip) == [pods EXCEPT ![ip] = IF @ = None THEN clock ELSE @]

\* Action "deploy" without Kubernetes, or reported as failed: the reward is 0.
NoDeploy(ip, hit) ==
  /\ ~CoolingDown(ip)
  /\ NextEvent
  /\ IF k8s THEN arity = 2 /\ Blocks ELSE clock' = clock
  /\ \E p \in {pods} \cup (IF k8s THEN {NewPod(ip)} ELSE {}) :
       Finish(ip, "deploy", 0, hit, deploys, p)
  /\ UNCHANGED <<lastDeploy, triggered>>

\* Lines 305-325, when the caller can unpack the result.
Deploy(ip, hit) ==
  /\ k8s /\ arity = 2 /\ ~CoolingDown(ip)
  /\ NextEvent /\ Blocks
  /\ lastDeploy' = [lastDeploy EXCEPT ![ip] = clock]
  /\ triggered' = triggered + 1
  /\ Finish(ip, "deploy", 0, hit,
            [deploys EXCEPT ![ip] = [state |-> <<ip, events + 1>>, time |-> clock]],
            NewPod(ip))

\* has_sufficient_resources or deploy_honeypod raises, or the result of a
\* deployment cannot be unpacked: nothing after line 264 happens.
Abort(ip) ==
  /\ k8s /\ ~CoolingDown(ip)
  /\ NextEvent /\ Blocks
  /\ pods' \in {pods, NewPod(ip)}
  /\ UNCHANGED <<processed, triggered, lastDeploy, deploys, transitions,
                 agent, memory>>

\* The features of the event cannot be extracted (Observation.tla).
Unreadable == /\ NextEvent
              /\ UNCHANGED <<clock, processed, triggered, lastDeploy, deploys,
                             transitions, agent, memory, pods>>

Tick == /\ clock < MaxClock
        /\ clock' = clock + 1
        /\ UNCHANGED <<arity, k8s, events, processed, triggered, lastDeploy, deploys,
                       transitions, agent, memory, pods>>

Event(ip) == \/ \E hit \in BOOLEAN : \/ Wait(ip, hit) \/ Refuse(ip, hit)
                                     \/ NoDeploy(ip, hit) \/ Deploy(ip, hit)
             \/ Abort(ip)

Next == Tick \/ Unreadable \/ \E ip \in IPs : Event(ip)

Spec == Init /\ [][Next]_vars

\* Time passes.  Nothing makes the next event of an attacker arrive.
FairSpec == Spec /\ WF_vars(Tick)

-----------------------------------------------------------------------------
(* Properties *)

Rewards == {0, CooldownPenalty, FalseDeployPenalty, AttackReward,
            AttackReward + CooldownPenalty}

Experiences == [state : States, action : {"wait", "deploy"}, reward : Rewards,
                next : States \cup {Terminal}, done : BOOLEAN]

\* The variables range over the values the code can give them.
TypeOK ==
  /\ arity \in Arities /\ k8s \in BOOLEAN
  /\ {clock, events, processed, triggered} \subseteq Nat
  /\ lastDeploy \in [IPs -> Nat \cup {None}]
  /\ deploys \in [IPs -> [state : States, time : Nat] \cup {None}]
  /\ transitions \in [IPs -> [state : States, action : {"wait", "deploy"},
                              reward : Rewards, time : Nat] \cup {None}]
  /\ agent \in Agents(Experiences)
  /\ memory \in Seq(Experiences)
  /\ pods \in [IPs -> Nat \cup {None}]

\* The penalty of an expired deployment is a second experience of one decision.
IsPenalty(x) == x.done /\ x.action = "deploy" /\ x.reward = FalseDeployPenalty

\* An experience of a honeypod hit, also when the decision was penalised.
IsHit(x) == x.reward >= AttackReward - 1

(***************************************************************************)
(* A decision enters the replay memory once: its pending transition is     *)
(* completed by the next event, by a hit or by the idle timeout, whichever *)
(* comes first, and no later event completes it again, also when events    *)
(* in between were aborted (event_loop.py:266-273, 343-346, 378-387).      *)
(***************************************************************************)
RememberedOnce ==
  LET regular == {i \in DOMAIN memory : ~IsPenalty(memory[i])}
  IN /\ \A i, j \in regular : memory[i].state = memory[j].state => i = j
     /\ \A i \in regular, ip \in IPs :
          transitions[ip] # None => memory[i].state # transitions[ip].state

(***************************************************************************)
(* The transitions of one attacker form a chain: a completed one leads to  *)
(* a later state of the same attacker, and no decision remembered or       *)
(* pending lies between the two (a hit, rewarded at once, leads to the     *)
(* state it was made in: event_loop.py:343-346).                           *)
(***************************************************************************)
Chained ==
  \A i \in DOMAIN memory : ~memory[i].done =>
    LET s == memory[i].state
        n == memory[i].next
        between(u) == u[1] = s[1] /\ s[2] < u[2] /\ u[2] < n[2]
    IN /\ n[1] = s[1]
       /\ n[2] > s[2] \/ (n = s /\ IsHit(memory[i]))
       /\ \A j \in DOMAIN memory : ~between(memory[j].state)
       /\ \A ip \in IPs : transitions[ip] # None => ~between(transitions[ip].state)

(***************************************************************************)
(* A successful deployment is judged at most once: rewarded for a hit or   *)
(* penalised when its time is over, never both (event_loop.py:340, 371).   *)
(***************************************************************************)
JudgedOnce ==
  LET judged == {i \in DOMAIN memory : \/ IsPenalty(memory[i])
                                      \/ IsHit(memory[i])}
      waiting == {ip \in IPs : deploys[ip] # None}
  IN Cardinality(judged) + Cardinality(waiting) <= triggered

(***************************************************************************)
(* "Immediate training on positive examples" (event_loop.py:351): in the   *)
(* event of a hit the model makes a training step with the experience of   *)
(* the hit in the replay memory, unless there are too few experiences for  *)
(* a batch, whatever else the event remembered before or forgets after.    *)
(***************************************************************************)
HitsAreTrained ==
  [][\A i \in DOMAIN memory' \ DOMAIN memory :
       IsHit(memory'[i]) => \/ agent'.steps > agent.steps
                            \/ Min({i, Capacity}) < BatchSize]_vars

(***************************************************************************)
(* "Periodically run maintenance tasks in a separate thread"               *)
(* (event_loop.py:176): a transition pending for longer than the idle      *)
(* timeout is finalised, whether or not another event arrives.  No thread  *)
(* runs _maintenance_loop, so it waits for the MaintenanceEvery-th event.  *)
(***************************************************************************)
StaleTransitionsFinalised ==
  \A ip \in IPs :
    (transitions[ip] # None /\ clock - transitions[ip].time > IdleTimeout)
      ~> (transitions[ip] = None \/ clock - transitions[ip].time <= IdleTimeout)

(***************************************************************************)
(* "Store current decision as pending (to be completed with next_state on  *)
(* next event)" (event_loop.py:271): the decision that made a honeypod is  *)
(* pending, or already remembered, after its event.  It is neither: the    *)
(* result of deploy_honeypod does not unpack, and the event is aborted.    *)
(***************************************************************************)
DeploymentsAreLearned ==
  [][\A ip \in IPs : (pods[ip] = None /\ pods'[ip] # None) =>
       LET s == <<ip, events'>>
       IN \/ transitions'[ip] # None /\ transitions'[ip].state = s
          \/ \E i \in DOMAIN memory' : memory'[i].state = s]_vars
=============================================================================
