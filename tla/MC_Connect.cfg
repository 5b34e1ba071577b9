SPECIFICATION LiveSpec
CONSTANT MaxHosts = 3
INVARIANTS
  NoSocketLeak
  SweepInOrder
PROPERTIES
  ConnectReturns
  CancelledConnectReturns
CHECK_DEADLOCK FALSE
