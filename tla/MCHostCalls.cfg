SPECIFICATION HSpec
CONSTANTS
  None = None
  Jobs = {j1, j2}
  Insts = {i1, i2, i3, i4}
  Idents = {d1, d2}
  FreshIdents = TRUE
  MaxThreads = 1
  Cap = 2
INVARIANTS EngineInvariant OwnOutput
PROPERTIES EveryUseServed
CHECK_DEADLOCK FALSE
