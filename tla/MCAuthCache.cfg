SPECIFICATION FairSpec
CONSTANTS
  Keys = {k1}
  Entries = {e1}
  Loads = {l1, l2}
  Callers = {c1, c2}
  Values = {0, 1, 2, 3}
  None = None
  TTL = 1
  MaxTime = 2
  MaxCalls = 2
INVARIANTS NoNilDereference FirstLoadIsShared GrantedOnLiveDecision
PROPERTIES EveryRequestAnswered
CHECK_DEADLOCK FALSE
