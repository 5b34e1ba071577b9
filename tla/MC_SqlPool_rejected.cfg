SPECIFICATION Spec
CONSTANTS
  Clients = {c1, c2}
  MaxConns = 1
  MaxStmts = 2
  MaxTx = 1
  MaxOrphans = 1
  Levels = {0}
SYMMETRY ClientSymmetry
INVARIANT ReturnsNeutral
CHECK_DEADLOCK FALSE
