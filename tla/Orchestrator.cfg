\* Two attackers, three messages, two pods each, one restart: a pod is made,
\* disappears and is made again, and a request for a pod left by a crash comes.
CONSTANTS
  Attackers = {a1, a2}
  NoAttacker = NoAttacker
  NoPod = NoPod
  MaxRequests = 3
  MaxPods = 2
  MaxCrashes = 1
SPECIFICATION FairSpec
INVARIANTS
  TypeOK
  MappedPodsRan
  MadePodsAreMapped
PROPERTY
  WatchEnds
\* The orchestrator waits for messages when there are none.
CHECK_DEADLOCK FALSE
