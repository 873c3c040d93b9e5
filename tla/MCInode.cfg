SPECIFICATION Spec
CONSTANTS
  Procs = {1, 2}
  Names = {"f", "f1"}
  NINODES = 4
  NINODE = 3
  NBLOCKS = 2
  MAXFILE = 1
  Calls <- FileCalls
  Container <- TwoContainers
  Tagged <- Digits
  MaxCalls <- FileLimits
INVARIANTS
  RefsCounted
  InUseExists
  LinksMatch
  BlocksOwned
  CirclesNeedPut
CHECK_DEADLOCK FALSE
