SPECIFICATION FairSpec
CONSTANTS
  Requests = {r1, r2}
  Plans <- OneStep
  MaxSteps = 1
PROPERTY EveryExecuteReturns
CHECK_DEADLOCK FALSE
