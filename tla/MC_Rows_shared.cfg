SPECIFICATION Spec
CONSTANTS
  MaxExec = 2
  MaxRows = 4
  FetchSize = 2
  SharedStmt = TRUE
INVARIANT RowsOfOwnExecution
CHECK_DEADLOCK FALSE
