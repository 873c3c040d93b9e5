SPECIFICATION FairSpec
CONSTANTS
  Procs = {p1, p2}
  Blocks = {b1, b2}
  Vals = {0, 1}
  LOGSIZE = 3
  NLOG = 3
  MAXOPBLOCKS = 1
  NoVal = NoVal
INVARIANTS
  WaiterHasWaker
PROPERTIES
  ImplementsAtomicLog
  WaiterWoken
