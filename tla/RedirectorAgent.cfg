\* Two attackers, two honeypods, failing and timed-out iptables commands, a ttl
\* that int() refuses, one crash: an entry can be replaced, expire while a
\* command waits for the lock, and outlive its kernel rules.
CONSTANTS
  Attackers = {a1, a2}
  Pods = {p1, p2}
  BadTtl = BadTtl
  Ttls = {1, BadTtl}
  NoRule = NoRule
  CommandOutcomes = {TRUE, FALSE}
  MaxClock = 2
  MaxCommands = 2
  MaxCrashes = 1
SPECIFICATION FairSpec
INVARIANTS
  TypeOK
  RedirectedAsRecorded
  ChainsAgree
PROPERTIES
  NeverDroppedEarly
  ExpiredEntriesGo
\* The system stops when the clock, the commands and the crashes are used up.
CHECK_DEADLOCK FALSE
