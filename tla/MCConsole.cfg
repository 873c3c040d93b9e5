SPECIFICATION Spec
CONSTANTS
  Readers = {r1, r2}
  Writers = {w1}
  Kbd = kbd
  Cpu = cpu
  Letters = {"a"}
  INPUT_BUF = 2
  UINT = 4
  ReadSizes = {3}
  MsgLen = 2
  NoOne = NoOne
INVARIANTS
  LockHeldByUser
  SleeperHasNoInput
PROPERTIES
  ImplementsTty
CHECK_DEADLOCK FALSE
SYMMETRY AnyReader
