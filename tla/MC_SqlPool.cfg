SPECIFICATION Spec
CONSTANTS
  Clients = {c1, c2}
  MaxConns = 2
  MaxStmts = 3
  MaxTx = 1
  MaxOrphans = 1
  Levels = {0, 4}
SYMMETRY ClientSymmetry
INVARIANTS
  TypeOK
  ExecutedOnce
  TxOutcome
  OnlyCommitCommits
  AutocommitDurable
  HandedOutNeutral
CHECK_DEADLOCK FALSE
