\* Two client threads, two calls each, batches of at most two: a late answer can
\* meet the client's next call, and a batch can mix two clients or two calls of one.
CONSTANTS
  Clients = {c1, c2}
  MaxBatch = 2
  MaxCalls = 2
SPECIFICATION FairSpec
INVARIANTS
  TypeOK
  OwnAnswer
  NeverFull
  ModelExclusive
PROPERTIES
  ImplementsRequestReply
  EveryCallReturns
  EveryRequestLeaves
\* A behaviour ends when every client has made its MaxCalls calls.
CHECK_DEADLOCK FALSE
