\* Two attackers and four events, maintenance after every second one.  Every
\* deadline lies within the clock's bound, so that each may pass or not.
CONSTANTS
  Capacity = 3
  BatchSize = 2
  TrainIterations = 2
  TargetEvery = 2
  IPs = {ip1, ip2}
  Arities = {2, 3}
  Cooldown = 2
  HoneypodTtl = 1
  IdleTimeout = 1
  MaintenanceEvery = 2
  MaxEvents = 4
  MaxClock = 3
  Waits = {0, 1}
  None = None
SPECIFICATION Spec
INVARIANTS
  TypeOK
  RememberedOnce
  Chained
  JudgedOnce
PROPERTY
  HitsAreTrained
\* Every behaviour ends when the bounds on events and clock are reached.
CHECK_DEADLOCK FALSE
