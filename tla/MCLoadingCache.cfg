SPECIFICATION CacheSpec
CONSTANTS
  Keys = {k1}
  Entries = {e1, e2}
  Loads = {l1, l2}
  Callers = {c1, c2}
  Values = {v1}
  None = None
SYMMETRY Symmetry
INVARIANTS NoLostWakeup SettledEntryConsistent
