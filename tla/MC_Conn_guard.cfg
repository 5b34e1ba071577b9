SPECIFICATION Spec
CONSTANT MaxCalls = 2
CONSTANTS
  u = u
  d = d
  close = close
  bg = bg
  Ctx <- MCCtx
  DeadlineCtx <- MCDeadlineCtx
  CloseCtx <- MCCloseCtx
  Background <- MCBackground
INVARIANT FailureHasCause
CHECK_DEADLOCK FALSE
