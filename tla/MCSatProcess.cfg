SPECIFICATION FairSatSpec
CONSTANTS
  p1 = p1
  c1 = c1
  None = None
  Peers = {p1}
  Conns = {c1}
  PeerOf <- ToPeer
  Dialled = {}
  Broadcasts = {m1}
  Tunnels = {t1}
  RetryCount = 1
  Breaks = TRUE
  PeersLeave = TRUE
INVARIANTS ExitIsOrderly
PROPERTIES FailedIsRemoved ProcessEnds
CHECK_DEADLOCK FALSE
