\* Two attackers, two deployments and a clean-up in any order: a honeypod is
\* made, expires, is deleted and is made again while the pod of the first one
\* still runs; one pod is lost and replaced at any moment of a call or of a
\* redirection, and a warm pod may be taken.  The clock moves while a call waits.
CONSTANTS
  IPs = {ip1, ip2}
  Nodes = {n1}
  NoNode = NoNode
  NoDeployment = NoDeployment
  PortTimeout <- Timeouts
  MaxAge = 0
  ApiOutcomes = {TRUE, FALSE}
  MaxClock = 0
  MaxCalls = 2
  MaxCleanups = 1
  MaxWarm = 1
  MaxLost = 1
  Arity = 2
  NoAddress = NoAddress
SPECIFICATION RedirectionFairSpec
INVARIANT
  RedirectionTypeOK
PROPERTIES
  SuccessMeansDeployed
  MappingOfAttacker
  YoungDeploymentsStay
  RedirectsToSeenPod
  EveryCallReturns
\* Every behaviour ends when the bounds are reached.
CHECK_DEADLOCK FALSE
