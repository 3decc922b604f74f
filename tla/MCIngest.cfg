\* Three documents of two attackers with two of them in one batch, histories of
\* SeqLen 2 that overflow, a Step of the clock that leaves Window behind, and
\* start-up with two rounds of two tries and a wait of two.
CONSTANTS
  d1 = d1
  d2 = d2
  d3 = d3
  ip1 = ip1
  ip2 = ip2
  Docs = {d1, d2, d3}
  MaxTime = 3
  Limit = 2
  MaxYields = 4
  Unparsables = {{}, {d1}}
  IPs = {ip1, ip2}
  IpOf <- Addresses
  Number <- Numbers
  PayloadLen <- Lengths
  SeqLen = 2
  Window = 1
  Cap = 1
  MaxClock = 2
  Step = 2
  Unit = 60
  Never = Never
  FaultMaps <- SomeFaults
  Attempts = 2
  Tries = 2
  MaxWait = 2
  RedisHosts = {TRUE, FALSE}
  Starts = {0, 1}
SPECIFICATION IngestFairSpec
INVARIANTS
  IngestTypeOK
  OnceAndInOrder
  SkippedOnlyLateOrTied
  HistoriesExact
  StatisticsExact
  RunsPrepared
PROPERTIES
  InTimeDelivered
  StartupSettles
\* The agent idles once no document is left and the clock stands.
CHECK_DEADLOCK FALSE
