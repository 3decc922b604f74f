\* Two sources that may share a destination, three messages, one restart, and
\* every iptables command may fail.
CONSTANTS
  Sources = {s1, s2}
  Dests = {d1, d2}
  Ttls = {0}
  NoRule = NoRule
  CommandOutcomes = {TRUE, FALSE}
  MaxClock = 2
  MaxMessages = 3
  MaxCrashes = 1
SPECIFICATION FairSpec
INVARIANTS
  TypeOK
  OneRulePerSource
  EveryRuleRecorded
  ChainsAgree
PROPERTY
  ExpiredRulesGo
\* Every behaviour ends when the bounds are reached and both threads wait.
CHECK_DEADLOCK FALSE
