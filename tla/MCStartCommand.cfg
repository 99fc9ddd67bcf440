SPECIFICATION FairStartSpec
CONSTANTS
  None = None
  Launches = {l1, l2}
  Ports = {p1, p2}
  MaxInstances = 2
  FailLimit = 0
  MaxMishaps = 1
INVARIANTS InstancesInvariant AllCancelled
PROPERTIES DeadIsReplaced CommandReturns
CHECK_DEADLOCK FALSE
