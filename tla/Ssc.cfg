SPECIFICATION SscSpec
CONSTANTS
  Cards = 1
  Capacity = 2
  Chunk = 1
  MaxByte = 2
  Bytes <- MCBytes
CHECK_DEADLOCK FALSE
INVARIANTS
  SscTypeOK
  InOrder
  EmptyMeansRoom
  UsedIsAlive
PROPERTIES
  DataInterrupts
  DisposeReturns
