SPECIFICATION Spec
CONSTANTS
  Readers = {r1, rw}
  Writers = {rw, w1}
  Vals = {0, 1}
  PIPESIZE = 2
  UINT = 4
  Messages <- Writes
  NoProc = NoProc
INVARIANTS
  SleepersWait
PROPERTIES
  ImplementsFifo
  ReadsReturn
