SPECIFICATION Spec
CONSTANTS
  MemSizes = {7, 16}
  NPROC = 2
  PGSIZE = 2
  NPTE = 2
  NUDIR = 2
  UINT = 16
  Programs <- SomePrograms
  ArgSizes = {1, 3}
  SbrkSizes <- SomeSizes
  StoreAddrs = {0}
  MaxContPages = 1
INVARIANTS
  PagesAccounted
  SizeMapped
PROPERTIES
  ImplementsSpaces
CHECK_DEADLOCK FALSE
VIEW PageNamesForgotten
