\* Documents that share their time, and an answer that ends between them.
CONSTANTS
  Docs = {d1, d2}
  MaxTime = 1
  Limit = 1
  MaxYields = 2
  Unparsables = {{}}
SPECIFICATION FairSpec
INVARIANT
  NothingMissed
CHECK_DEADLOCK FALSE
