SPECIFICATION FairSpec
CONSTANTS
  Requests = {r1, r2}
  Plans <- AnySteps
  MaxSteps = 2
INVARIANTS RegistryInvariant SuccessHasEveryOutput FailureEndsSequence
PROPERTIES ReturnsUnlessLate
CHECK_DEADLOCK FALSE
