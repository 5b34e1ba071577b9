SPECIFICATION CancelSpec
CONSTANTS
  MaxExec = 1
  MaxRows = 2
  FetchSize = 2
  SharedStmt = FALSE
PROPERTY CancelledOperationReturns
CHECK_DEADLOCK FALSE
