SPECIFICATION Spec
CONSTANTS
  NPROC = 7
  NFILE = 5
  NOFILE = 6
  NPIPE = 2
  Limits <- SomeLimits
  PIPESIZE = 1
  Used = {}
  NullWord = 1
  Cmds <- SomeCmds
  Garbage <- SomeGarbage
  CATBUF = 2
  MAXARGS = 4
  MaxJobs = 0
PROPERTY PromptReturns
CHECK_DEADLOCK FALSE
