SPECIFICATION Spec
CONSTANTS
  p1 = p1
  p2 = p2
  c1 = c1
  c2 = c2
  c3 = c3
  None = None
  Peers = {p1, p2}
  Conns = {c1, c2, c3}
  PeerOf <- Doubled
  Dialled = {c1}
  Broadcasts = {}
  Tunnels = {t1}
  RetryCount = 2
  Breaks = TRUE
  PeersLeave = TRUE
INVARIANTS MeshInvariant NoOrphanHandler
PROPERTIES RemovedIsClosed
CHECK_DEADLOCK FALSE
