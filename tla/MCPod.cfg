SPECIFICATION FairPodSpec
CONSTANTS
  Msgs = {"a", "ra", "n"}
  Limit = 2
  UniqueUUIDs = TRUE
  None = "none"
  Asks = {"a"}
  ReplyTo <- Replies
  Timed = {"a"}
  Listens = TRUE
  WantsReplay = TRUE
  FeedbackSize = 2
INVARIANTS MapMatchesRing PodInvariant NoBounce ReplayCoversRecent
PROPERTIES ImplementsRecent WaitReturns
CHECK_DEADLOCK FALSE
