# ADLAH in TLA+

A verification project for [ADLAH](https://github.com/JohannesLks/ADLAH/), a
honeynet in which a reinforcement-learning agent watches the logs of
low-interaction sensors, decides for which attackers a high-interaction honeypot
("honeypod") is worth its resources, deploys it on Kubernetes and has the sensor
redirect the attacker to it. The modules here model the parts of the program
that keep state and run concurrently, TLC checks them on small instances, and
TLAPS proves their safety properties for all instances.

Paths below are relative to the repository; `rl_agent/` stands for
`hive/rl-agent/rl_agent/`.

## 1. The system

```
 sensor                         hive                                cluster
 ------                         ----                                -------
 MADCAT --logs--> filebeat --> logstash --> Elasticsearch
   ^                                           | polls (EventSource)
   | honeypod-map                              | start-up and restarts (Startup)
   |                                           v
   |                                       profile, features, state (Observation)
   |                                           |                    all three: Ingest
   |                                           v
 redirector.py (MadcatRedirector)          EventLoop <--- one lock, one event at a time
 agent.py (RedirectorAgent) <--Redis-- publisher |  \
   ^  redirection-commands   (Redirection)       |   \--> HoneypodManager --> Kubernetes API
   |                                             v                             (Honeypods)
 iptables NAT chains                     InferenceService --> DQN model
                                            (Inference)
                                         orchestrator.py (own consumer, watches pods)
                                            (Orchestrator)
```

| component | state it keeps | operations | hard behaviour | what makes it correct |
|---|---|---|---|---|
| Inference service, `rl_agent/inference.py` | request queue, one response queue per request, the worker's batch, the model lock shared with `agent.py` | `get_action`, worker: collect, predict, respond | client and worker threads, timeouts against late answers, a batch that fails | a call returns its own action; no request is stuck; the model is never used twice at a time |
| Event loop, `rl_agent/event_loop.py` | pending transitions, pending deployments, cooldowns, statistics, replay memory | one event: decide, act, complete the previous transition, reward; every 1000 events maintenance | events aborted half way, hits against expiry, blocking deployments | each decision enters the memory once, transitions chain, a deployment is judged once |
| Event source, `event_loop.py:64-109`, `es.py:95-114` | `last_timestamp`, the rest of a batch | search, yield, advance | late documents, equal timestamps, times that do not parse | nothing twice, nothing out of order, nothing missed without a cause |
| Honeypod manager, `rl_agent/k8s.py` | none of its own: deployments and pods live in the cluster | deploy (four paths), wait for ports, clean up | the cluster moves between two requests, and may lose and replace any pod; every request may fail | success means a deployment; the node returned was found by the present poll and is the attacker's; only old ones are deleted; calls return |
| Redirector agent, `sensor/redirector-agent/agent.py` | `active_rules`, kernel NAT chains | add, remove, cleanup thread, flush at start | two threads, a lock, commands that fail, crashes | table and chains agree; entries expire, and not early |
| MADCAT redirector, `sensor/madcat/dist/redirector.py` | `rules`, kernel NAT chains | map a source, gc thread | two threads without a lock, commands that raise, restarts without a flush | one rule per source, every rule has an entry, expired ones go |
| Start-up, `rl_agent/main.py`, `es.py:36-54,78-93,136-218` | the transform in Elasticsearch, counters of three nested loops | get, create and start the transform; connect to Redis; exit and restart | requests that fail with or without effect, a source index that is missing for long | the loop runs only with what it needs, and every start comes to an end |
| Features and profiles, `rl_agent/features.py`, `connection_tracker.py:32-96`, `event_loop.py:202-244` | per attacker a window of events and a buffer of rows, per feature a normaliser | one document: count, extract and learn, keep the row | documents that break off half-way and may come again | every history and statistic holds exactly what it says it counts |
| Learning agent, `rl_agent/agent.py` | replay memory, two networks, epsilon | remember, replay, train, act | training while predicting; a memory that overflows | see event loop and inference |
| Orchestrator, `orchestrator/orchestrator.py` | Redis hash `attacker_map` | one request at a time: create pod, watch, store, publish | crash between create and store, a pod that moves before the watch begins, a watch that never ends | a created pod is mapped |
| Redirection, `event_loop.py:301-328,398-444`, `es.py:56-72`, `connection_tracker.py:150-187` | active connections | look up the pod, publish, look up again, record and announce | the cluster moves between the steps | an attacker is led to, and recorded with, a pod of its own that was there after the deployment, never one known from before |

What is not modelled, and why, is section 6.

Four facts about the code as committed that a reader must know:

* `SystemConfig` (`rl_agent/config.py:60-96`) has no `redis_host`.
  `RedisPublisher` raises `AttributeError`, the constructor of `EventLoop`
  catches `ConnectionError` only (line 133), and the agent exits, to be restarted by the container, forever.
  `Startup` has a variable `redisHost`: FALSE is the code as it is; the loop of
  the other modules is reached with TRUE, the setting `es.py:45` was written for.
* `deploy_honeypod` returns three values and the loop unpacks two
  (`event_loop.py:304`), so that every deployment aborts its event. `EventLoop`
  has a variable `arity`: 3 is the code as it is, 2 the contract the lines after
  304 were written for. Every property of `EventLoop` is checked for both;
  `Redirection`, which only begins after line 304, is checked for 2.
* The orchestrator never deletes a pod (`POD_TTL_SECONDS`, `orchestrator.py:18`,
  is unused): once an attacker's pod has ended, every further request for the
  attacker is skipped at line 100 while `attacker_map` keeps the old address.
* What the publisher sends on `redirection-commands` lacks fields the redirector
  agent requires (`es.py:58-62`, `agent.py:94`). `RedirectorAgent` is modelled
  from what the agent accepts.

## 2. The modules

**`RequestReply`** is the abstract specification of the inference service: a
sequence of open requests served oldest first, at most once, and callers that
return with an answer to their own call or with a fallback of their own.

**`Inference`** is the service in detail. `pc[c]` is where client thread `c`
stands, `calls[c]` counts its calls (so that `<<c, calls[c]>>` names a request),
`queue` is `request_queue`, `slot[r]` the response queue of size one, `wpc`,
`batch` and `rows` the worker's control and data, `lock` the agent's
`_model_lock`. `GetAction`, `Receive` and `Timeout` are `get_action`; `Take` and
`CloseBatch` are `_collect_batch`; `StartPredict` to `Respond` are
`_process_batch`, `PredictFails` and `Wake` the catch-all of `_worker_loop`.
`StartTraining` and `EndTraining` are `DQNAgent.replay` in the same threads. A row of
Q-values is the request it was computed from. The code has one calling thread;
the module allows any number, as the service was written for.

**`EventLoop`** makes one event one step, because the loop holds its lock for
the whole event and no other thread takes it. A step is one of `Wait`, `Refuse`
(cooldown or no resources), `NoDeploy`, `Deploy` and `Abort` (an exception);
each but the last ends in `Finish`, which is the rest of `_process_event`:
`Stored`, `Rewarded`, and `Maintained` with `CleanedUp` when the count says so. A state tensor
is named by the event it was built at. `Unreadable` is an event that ends before
a decision (see `Observation`). The action of the agent, the resources
and the outcome of a deployment are free choices (see `Inference`, `Honeypods`).
`agent` is the `DQNAgent`, by the operators of **`Learning`**: `Remembered` (a
bounded memory that keeps the `Newest`), `Replayed` and `Trained` (training steps, copies of the target
network), where weights are named by the step that made them; `memory` is the
history of all that was remembered. The order in which `_periodic_maintenance` goes through a dictionary is fixed to
one order; no property depends on it.

**`EventSource`** is the polling generator. `visible` grows at any time in any
order, `Answers` is what Elasticsearch may return, `Yield` is the moment the
event loop gets the document and `Advance` the code after `yield`. Only the order
of times matters, so that `stamp` has no gaps.

**`Startup`** is `main` up to the event loop. `phase` is the request to be made
(`get`, `put` or `start` the transform), the constructor (`build`), or the end
(`run`, `exit`); `attempt`, `tries` and `waited` count the rounds of `main`, of
`create_es_client` and of `_start_transform`. `Raised` says what a failed
request may have done, `NextTry` and `NextAttempt` who tries again,
`StartAgain` is the container's restart policy.

**`Observation`** is the first half of `_process_event`: `Observe(d)` counts the
event in its attacker's profile (`flows`, `window`), learns the features
extraction comes to (`Reached`, `Learned`), and keeps the row if it came to the
end (`KeepRow`). `PassOver` and `BreakOff` are documents that do not get so far.
`fault[d]` is the set of what is wrong with a document: no address; a `proto`
that is no string, which ends `IPProfile.update` before it keeps the event; and
what ends `extract`, at five places: a number that is none (lines 225, 230), a
port that cannot be compared (250 by way of 145-149), a time that does not parse
(254), a list where `get_historical_features` makes sets (265,
`connection_tracker.py:81-83`), a payload that is not hexadecimal (273). A time
without a zone `extract` accepts and only the source cannot compare. The list is
kept by the profile, so that one such event ends the extraction of every event of
the attacker as long as it is in the window: `Reached`, `Accepted` and `Hashable`
depend on the documents of the profile. A row is named by its document, padding
and clipping are left out. Four features stand for the groups between two of
these places: one learned before the port and the time are read, one after them
from the caller, one from the profile, and one for a payload; a number that is
bad further on in the first group ends `extract` where a bad port does. Means are
kept in units of `1/Unit`, where `Unit` is a multiple of every count that occurs,
so that Welford's divisions are exact; rounding of floating-point numbers is not modelled.

**`Ingest`** composes the three: `Prepare` and `BuildLoop` are start-up,
`Poll` and `Process` the running loop, in which a document is handled between
the two halves of the generator, and `Restart` loses all but the transform.
`Arrive` and `Pass` are Elasticsearch and the clock.
`MCIngest` gives it documents of two attackers with their faults.

**`Honeypods`** makes every request to the API server a step, with the cluster's
own steps (`SpawnPod`, `RunPod`, `LosePod`, `EndPod`, `FillPool`) in between.
`deployments`, `pods` and `warm` are the API server's; `pc`, `ip`, `node`,
`path`, `deadline`, `host`, `expired` belong to the one call that is running. The
four paths of `deploy_honeypod` differ in their timeout and in what a missing port
means (`path`). A poll of `_get_pod_host_ports` is two requests: `Poll` asks for
the pods, `Answer` looks at the first one that is listed, and `ReadNode` reads the
node of it, by when the pod may be gone. Any pod may be lost at any time (it
fails, is evicted or deleted: `LosePod`), stays listed for a while, is replaced
by another one of the same deployment, and disappears (`EndPod`); a pod is named by
its attacker, the generation of its deployment and the number of pods lost
before. `hosts` is history: where a pod of the attacker was ready since the poll
began. All pods are made from one specification, so that all have host ports or
none (`hasPorts`). Deployments, unlike pods, are assumed to be made and deleted by this
manager only.

**`Redirection`** extends it with what the event loop does with a honeypod it
got: `loop` says which step of `event_loop.py:302-325` is next, `found` is the
address of the last look-up, `active` is `active_connections`, `seen` (history)
are the attacker's pods that have been there since the call returned. `Manage` hands
over from `deploy_honeypod`, and `Call` keeps the next call, clean-up included,
behind the event lock. `LookUp` takes any pod with the attacker's label, as the
order of the API's answer is not defined. `MCHoneypods` gives it its timeouts.
`Proceed` is what the return of a call makes of the event, `Noticed` keeps `seen`.

**`RedirectorAgent`** and **`MadcatRedirector`** have a program counter per
thread, a table, and the kernel's chains as sequences in matching order. A step
is what a thread does between two accesses to shared state, an iptables command
being one of them; every command may fail. In `RedirectorAgent` a failed command
is logged and skipped, in `MadcatRedirector` it raises. `Crash` keeps the chains
and loses the table.

**`Orchestrator`** is the handler of one request at a time: `Take`, `Read`,
`Create`, `Begin` (the watch is asked for, and starts with the pod as it is by
then: it may have run or ended since it was made, and of one that is gone nothing
is ever reported), `Look` (one event of the watch), `Store`, `Publish`. `inbox` is the
Redis subscription, which a restart loses; `pods` is the API server's, changed by
`StartPod`, `AddressPod`, `EndPod` and `RemovePod` between any two requests;
`events` are states the watch has reported and the code not yet looked at;
`map` is the hash `attacker_map`. An address is named by the pod's generation.
`ran`, `announced` and `orphans` are history.

## 3. What is checked

`tlc -config X.cfg M`, one line per run of `PROJECT.json`.

| run | distinct states | what it shows |
|---|---|---|
| `inference` | 30 235 | Two clients with two calls each and batches of two: a late answer meets the client's next call, and batches mix clients. `OwnAnswer`: no call gets another call's action. `NeverFull`: the branch `queue.Full` ("Client already timed out") is dead; a late answer goes into an abandoned queue. `ModelExclusive`; `ImplementsRequestReply`, the refinement; `EveryCallReturns`, `EveryRequestLeaves`. |
| `redirector_agent` | 287 831 | Two attackers, two pods, failing commands, a malformed ttl, one crash. `RedirectedAsRecorded`, `ChainsAgree`: between updates kernel and table agree unless a command failed. `NeverDroppedEarly`: although the time is read before the lock. `ExpiredEntriesGo`. |
| `redirector_agent_leak` | violation | Two adds for one attacker: the first pair of rules outlives its entry (`agent.py:102` against the comment at 120). |
| `event_loop` | 1 122 452 | Four events of two attackers, maintenance after every second, a memory of three experiences and batches of two. `RememberedOnce`, `Chained`, `JudgedOnce`, with aborted events and blocking deployments in between. `HitsAreTrained`: the training step of a hit comes after its experience is in the memory. |
| `event_loop_deploy` | violation | The decision that made a honeypod never reaches the learner (`event_loop.py:304`). |
| `event_loop_stale` | violation | Without further events a stale transition is never finalised: no thread runs `_maintenance_loop`. |
| `madcat_redirector` | 556 819 | Two sources that may share a destination, three messages, failing commands, one restart. Without a lock `OneRulePerSource`, `EveryRuleRecorded` and `ChainsAgree` still hold until a command fails for no reason or a restart forgets rules; `ExpiredRulesGo`. |
| `madcat_redirector_leads` | violation | A known source with a new destination is led to the old one, and that rule is never removed (`redirector.py:51`). |
| `honeypods` | 990 924 | `MCHoneypods`: two attackers, two deployments and a clean-up in any order, a warm pod, failing requests, one pod lost: all four paths, and a honeypod that is made, expires, and is made again while the old pod still runs. `SuccessMeansDeployed`. `MappingOfAttacker`: the node returned is one where a pod of this attacker was ready during the very poll that found it, although the pod may be gone before its node is read. `YoungDeploymentsStay`. `RedirectsToSeenPod`: what is published or recorded is a pod of the attacker that has been there since the call returned, never one that an earlier event knew, and because clean-up waits for the event the attacker then has a deployment; that the pod is still there is not promised, as it may be lost between look-up and message. `EveryCallReturns`, also when no pod ever runs or has host ports. |
| `event_source` | 191 272 | `MCIngest`: start-up with two rounds of two tries, then three documents of two attackers, two per answer, with four assignments of faults, in which each kind occurs. `OnceAndInOrder`, `SkippedOnlyLateOrTied`, `InTimeDelivered` for the source; `HistoriesExact`: buffer and profile of an attacker are exactly its last accepted and its recent deliveries, whatever broke off in between; `StatisticsExact`: every normaliser holds mean and squared differences of exactly the values that `extract` came to, also while a list left in the profile makes it raise for good documents; `RunsPrepared`, `StartupSettles` for the start. |
| `orchestrator` | 183 898 | Two attackers, three messages, two pods each, one restart, any request failing, with or without effect. `MappedPodsRan`: no address comes from a pod that never had it, and whoever is told of a pod finds the mapping. `MadePodsAreMapped`: only a request cut short between creation and `hset` leaves a running pod without one (and then every later request for that attacker is skipped). `WatchEnds`: no pod that runs or has ended while it is watched is missed, also if it came to that between its creation and the watch. |
| `event_source_missed` | violation | Equal timestamps at the end of an answer: the second document is never found (`es.py:103`). |

Every property of a passing run is shown to have teeth by a mutant, a plausible
bug written next to the definition it would replace (`\* Mutant:`).

**Bounds.** Two of everything that can compete (clients, attackers, pods,
sources, destinations) is the least number at which answers can be
confused, rules shared or batches mixed; each run has at least the calls, commands or
messages of the shortest interleaving of the hazard it is about. `MaxClock`
lets every deadline pass at least once before the last event.
`MaintenanceEvery` is 1000 in the code and 2 in the run: what matters is that
some events trigger maintenance and some do not. In `EventSource` and `Ingest` the bound on
yields only cuts the endless repetition of an unreadable document. Three
documents are one more than an answer holds, and two of one attacker let times
and windows matter; four yields overflow a buffer of two rows; one `Step` of the
clock is longer than the `Window`, so that an event is recent or gone. Two of
each retry are enough to tell the nested loops apart. A restart leaves only the
transform behind, so that the runs before it differ in nothing else. In
`Honeypods` the clock moves while a call waits, which is when a deadline can pass
and a deployment grow too old; `MaxLost` counts only pods lost while their
deployment is there. One node is enough there for a poll to find another
attacker's pod and none of its own, and for a pod to be replaced; any number of
nodes is what the theorems add. Rewards are the
code's in hundredths.

**Fairness.** Weak fairness of the steps of running threads (Python threads are
scheduled, `queue.get` and polls have timeouts) and of the clock. Never assumed:
that an event, message or command arrives, that a request fails, that the
cluster starts a pod. `Ingest` asks for fairness of the main thread's steps,
in start-up and in the loop, where a request that fails is such a step too.
Where a lock is contended weak fairness is enough because
the bounded number of calls or commands ends the competition. CHECK_DEADLOCK is
off because every behaviour ends when its bounds are reached.

## 4. What is proved

Each of the modules `*_proofs` proves the safety properties of one run for every
value of the constants. The proofs have one shape: an invariant `IInv` that
contains the property and what it rests on, one lemma for each part of it or
each kind of step, and theorems that read the properties off. They assume of
the constants what the modules state (`...Assumption`): that bounds are numbers,
limits positive, the sets of attackers of the event loop and of documents finite,
the model values for "none" no members of the sets they are missing from, and
`Unit` a multiple of every count up to `MaxYields`. A ttl may be any integer, as
`int()` in both redirectors allows. Failing requests and commands, crashes and
restarts are steps of the specifications, so that the theorems hold in spite of
them.

**`Inference_proofs`**: `TypeCorrect`, `CallersGetTheirOwnAnswer`,
`ResponseQueueNeverFull`, `ModelIsExclusive`, for any clients, calls and batch
size, and `Refinement`.
`OwnAnswer` and `NeverFull` are not inductive: they rest on `batch \o queue`, the
requests not yet answered in the order they were made, which holds no request
twice, none whose answer is in its slot, and only requests that were made; on
`rows = batch` while the worker responds; and on the lock being held exactly by
the thread whose counter says so (`Inductive`). `Refinement` is
`Spec => ImplementsRequestReply` under `open <- batch \o queue`: `Take` moves a
request from one part of the sequence to the other and is a stutter, `Respond`
serves the head, `PredictFails` loses a prefix.

**`EventLoop_proofs`**: `TypeCorrect`, `RememberedOnceAlways`, `ChainedAlways`,
`JudgedOnceAlways`, for any attackers, deadlines, memory and batch sizes and both
values of `arity`, and the action property `HitsAreTrainedAlways`. An event takes
memory, pending deployments and pending transitions through up to four steps, so
that the invariant (`LearnerInv`) is an operator of these, kept by `Storing`,
`Hitting` and `Maintaining` and put together in `Finishing`. `Chained` needs that
a pending transition is the newest decision of its attacker (`LatestInv`) and
that no decision, remembered or still open to a penalty, lies between the two of
a completed transition (`GapInv`); `RememberedOnce` that a pending one is not in
the memory (`OnceInv`); `JudgedOnce` that verdicts and waiting deployments
together never exceed the deployments made (`JudgedInv`); the type invariant
that the target network was last copied at a multiple of the period (`InPhase`).

**`RedirectorAgent_proofs`**: `TypeCorrect`, `RedirectedAsRecordedAlways`,
`ChainsAgreeAlways`, and the action property `NeverDroppedEarlyAlways`. The
properties speak of the states between updates; the invariant says what holds
half way: who has the lock (`LockInv`), that what was found expired stays so while it is held
(`ExpiredInv`), how far the kernel has followed an add (`LedInv`), and that the
chains would agree if the update in progress were over (`AgreeInv`).

**`MadcatRedirector_proofs`**: `TypeCorrect`, `OneRulePerSourceAlways`,
`EveryRuleRecordedAlways`, `ChainsAgreeAlways`. There is no lock. What keeps the
threads apart is the dictionary (`EntriesInv`): the main thread adds only for a
source without an entry, the gc thread deletes only for one with an entry, and a
source changes sides only at the end of either. `DnatInv` and `SnatInv` count the
rules, with those on their way.

**`Redirection_proofs`**: `TypeCorrect`, and the action properties
`SuccessMeansDeployedAlways`, `MappingOfAttackerAlways`,
`YoungDeploymentsStayAlways`, `RedirectsToSeenPodAlways`. Each is about something
read earlier and acted on later: the deployment a call waits for is there
(`PortsInv`), the ready pods of the attacker, and the pod whose node is being
read, are on nodes that the present poll has seen (`HostsInv`), the listed
deployments are there and as old as when listed (`ExpiredInv`), no call runs and
the deployment stays while the event goes on (`LoopInv`), so that every pod of
the attacker in the cluster has been seen since the call returned (`SeenInv`), and
with it the one that was looked up (`FoundInv`). What cannot be proved, because
the code does not see to it, is that this pod is still there, or that the pod
recorded is the one published.

**`Orchestrator_proofs`**: `TypeCorrect`, `MappedPodsRanAlways`,
`MadePodsAreMappedAlways`. The handler acts on what a watch reported while the
cluster moved on. `EventInv` says what a report is worth: it is about the latest
pod, one it shows running did run, and one it shows ended stays so.
`LivePodInv` strengthens `MadePodsAreMapped` to pods that have yet to start.

**`Ingest_proofs`**: `TypeCorrect`, `RunsPreparedAlways`, `OnceAndInOrderAlways`,
`SkippedOnlyLateOrTiedAlways`, `HistoriesExactAlways`, `StatisticsExactAlways`, for
start-up, source and observation composed, through restarts. The batch was sorted and free of repetitions when it was
found, and `last_timestamp` has followed it document by document (`BatchInv`,
`DeliveredInv`); everything in time that a search went past is tied to something
in what was delivered or still in the batch (`ReachedInv`); before the loop runs
the source has done nothing (`IdleInv`).
The histories are compared with lists: the sequence `q` of the numbers of an
attacker's deliveries, upwards. The deque holds the last of it (`RowsInv`), the
profile all but the first `o`, which are too old for its last one
(`ProfilesInv`); pruning from the front is right only because deliveries are
handled at times that do not decrease (`TakenInv`), and no two rows are the same
document in the wrong order because of `OnceAndInOrder`. The statistics
(`NormInv`) need the histories, because `time_since_last_min` and `ev_5m` are read
from them, and because what an earlier event left in the profile may break off
this one: the documents of the profile are those of the recent deliveries
(`Company`, `CompanySame`). Each normaliser learns what `Sample` says of the
delivery, and one that `extract` does not come to learns nothing. Welford's two updates keep
`n * mean = Unit * sum` and `n * m2 = Unit^2 * (n * squares - sum^2)`
(`MeanUpdate`, `SquaresUpdate`), the first because `Unit` is a multiple of every
count; sums are functions by recursion, which exist and agree with those of a
longer sequence (`SumsExist`, `SumsAgree`).

**`CommonLemmas`** holds the lemmas that several of them need: what inserting,
appending and deleting do to the positions, the first element and the number of
elements of a kind in a sequence (`OneMore`, `FirstIs`, `Count`); a fact carried
step by step up to a bound (`UpTo`); sets of numbers and the sequences that list
them (`Lists`); and the arithmetic of Welford's updates.

Only model-checked: liveness, which is out of the proof system's reach
(`EveryCallReturns` of clients and of the manager, `EveryRequestLeaves`, `ExpiredEntriesGo`,
`ExpiredRulesGo`, `WatchEnds`, `InTimeDelivered`, `StartupSettles`), and so every result that
involves fairness; and the runs that expect a violation. Every invariant and
every action property of the passing runs is a theorem.

## 5. Plan

1. Done: `RequestReply`, `Inference` with proofs, `RedirectorAgent`, `EventLoop`
   with `Learning`, `MadcatRedirector`, `Honeypods` with `Redirection`,
   `Orchestrator`, and `Ingest` of `Startup`, `EventSource` and `Observation`.
2. Done: the proofs of section 4, one module after the other.
3. Open as models: the message contract between the publisher and the redirector
   agent, which as committed has no redirect to model.

## 6. Not modelled

* `event_loop.py:463-613`, the asynchronous batch path, has no caller; every
  deployment in it ends in an exception, because `remember` is called without
  `done`. `_maintenance_loop` and `_cleanup` are never started or registered.
* `delete_honeypod`, `get_pod_ip` and `setup_kubernetes` of `k8s.py`,
  `count_logs` of `es.py`, and `cleanup_connection_tracking`, `periodic_cleanup`
  and the listings of `connection_tracker.py` have no caller.
* `has_sufficient_resources` and `_parse_resource` (`k8s.py:233-315`) keep no
  state; their answer is a free choice in `EventLoop` (`Refuse`).
* Saving: `agent.save()` names a global that does not exist
  (`event_loop.py:395`) and raises, so that neither the model nor the feature
  statistics (line 396) are ever written; the event loop loads no model, and
  `load_stats` finds no file.
* Values without a history: one-hot vectors, hashes, compression ratios, the
  clipping of normalised values, the weights of the network, and what a batch
  holds.
* `simulate.py` and `simulation_runner.py`, the offline evaluation:
  `simulate.py` passes a time where the feature functions take a profile
  (`features.py:336`), so that its first row raises.
* The shell scripts, the configuration of the log pipeline, the manifests and
  logging: sequential set-up of machines, or declarations.
