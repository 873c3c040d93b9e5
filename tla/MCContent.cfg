SPECIFICATION Spec
CONSTANTS
  BSIZE = 2
  NDIRECT = 1
  UINT = 16
  nmeta = 1
  FSSIZE = 8
  Files = {1, 3}
  Root = 1
  Dots <- SomeDots
  FileOf <- TwoOpens
  Images <- OneImage
  CHUNK = 3
  Writes <- SomeWrites
  Reads = {4}
  Names = {4, 5}
  Probes = {1, 15}
INVARIANTS
  BlocksReferencedOnce
  SizeIsMapped
PROPERTIES
  ImplementsByteFile
VIEW ResultForgotten
CHECK_DEADLOCK FALSE
