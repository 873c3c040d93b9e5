SPECIFICATION Spec
CONSTANTS
  NPROC = 3
  NCPU = 1
  NCONT = 2
  MaxPid = 3
  KillPids = {0}
  JoinIds = {0, 1}
  DestroyIds = {1}
  Lists = TRUE
  Polite = TRUE
INVARIANTS
  UniquePids
  KilledNotInWait
  DestroyedIsEmpty
CHECK_DEADLOCK FALSE
