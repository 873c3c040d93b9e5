SPECIFICATION Spec
CONSTANTS
  Procs = {p1, p2}
  Blocks = {1, 2, 3}
  Vals = {0, 1}
  NBUF = 2
  NoProc = NoProc
INVARIANTS
  OneBufferPerBlock
  CountsUsers
  
  SleeperHasHolder
PROPERTIES
  RequestCompletes
CHECK_DEADLOCK FALSE
