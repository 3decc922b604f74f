\* One source that is mapped to a second destination before its rule expired.
CONSTANTS
  Sources = {s1}
  Dests = {d1, d2}
  Ttls = {0}
  NoRule = NoRule
  CommandOutcomes = {TRUE}
  MaxClock = 2
  MaxMessages = 2
  MaxCrashes = 0
SPECIFICATION FairSpec
INVARIANT
  LedWhereRecorded
CHECK_DEADLOCK FALSE
