SPECIFICATION SFairSpec
CONSTANTS
  None = None
  Tenants = {t1, t2}
  Runs = {r1}
  MaxVersion = 2
  Sync = every
  Afters = {after}
  EverySeconds = 1
  AfterSeconds = 1
  Resolution = 2
  MaxPending = 2
INVARIANTS ListInvariant
PROPERTIES Converges AfterRunsOnce
CHECK_DEADLOCK FALSE
