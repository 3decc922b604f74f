\* One attacker redirected twice, no failure and no crash: the first rule stays.
CONSTANTS
  Attackers = {a1}
  Pods = {p1, p2}
  BadTtl = BadTtl
  Ttls = {1}
  NoRule = NoRule
  CommandOutcomes = {TRUE}
  MaxClock = 4
  MaxCommands = 2
  MaxCrashes = 0
SPECIFICATION Spec
INVARIANTS
  ExpiredRulesAreRemoved
CHECK_DEADLOCK FALSE
