SPECIFICATION DrainSpec
CONSTANTS
  MaxExec = 2
  MaxRows = 3
  FetchSize = 2
  SharedStmt = FALSE
INVARIANTS
  TypeOK
  InOrder
  CompleteAtEOF
PROPERTIES
  Drains
CHECK_DEADLOCK FALSE
