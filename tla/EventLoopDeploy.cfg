\* One attacker, the code as it is: the first deployment aborts its event.
CONSTANTS
  Capacity = 3
  BatchSize = 2
  TrainIterations = 2
  TargetEvery = 2
  IPs = {ip1}
  Arities = {3}
  Cooldown = 2
  HoneypodTtl = 1
  IdleTimeout = 1
  MaintenanceEvery = 2
  MaxEvents = 2
  MaxClock = 3
  Waits = {0, 1}
  None = None
SPECIFICATION FairSpec
PROPERTY
  DeploymentsAreLearned
CHECK_DEADLOCK FALSE
