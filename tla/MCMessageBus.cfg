SPECIFICATION BusSpec
CONSTANTS
  NumPods = 3
  Msgs = {"a", "b"}
  Sender <- FromHub
  MsgType <- Types
  Wants <- ThirdWantsT
  AnyType = "any"
  Replayers = {3}
  Failing = {2}
  Leaving = {2}
  HighWaterMark = 2
  BufferLimit = 1
  MaxHandled = 2
INVARIANTS RingInvariant FailedIsNotLost
PROPERTIES RemovedForCause WalkIsExact
CHECK_DEADLOCK FALSE
