SPECIFICATION Spec
CONSTANTS
  NPROC = 3
  NCPU = 2
  NCONT = 1
  MaxPid = 4
  KillPids = {2, 3, 4}
  JoinIds = {}
  DestroyIds = {}
  Lists = FALSE
  Polite = FALSE
INVARIANTS
  TypeOK
  OneCpuPerProcess
  NoLostExit
  ParentAlive
  EmbryoPrivate
CHECK_DEADLOCK FALSE
