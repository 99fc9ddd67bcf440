SPECIFICATION FairSpec
CONSTANTS
  j1 = j1
  j2 = j2
  Jobs = {j1, j2}
  Children <- Fork
  MaxThreads = 3
  PoolSize = 1
  AutoscaleMax = 2
  NumRetries = 0
  ChanSize = 1
  Options <- TimedOrDefault
  MaxFailures = 2
  MaxScalings = 2
  DeRegisters = TRUE
INVARIANTS PoolInvariant JobsInvariant
PROPERTIES ImplementsResults EveryJobAnswered
CHECK_DEADLOCK FALSE
