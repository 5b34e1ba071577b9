SPECIFICATION LiveSpec
CONSTANT MaxCalls = 3
CONSTANTS
  u = u
  d = d
  close = close
  bg = bg
  Ctx <- MCCtx
  DeadlineCtx <- MCDeadlineCtx
  CloseCtx <- MCCloseCtx
  Background <- MCBackground
INVARIANTS
  ReplyIsOwn
  QuietWhenValid
  BadConnNeverSent
  ConnInv
PROPERTIES
  PoisonIsFinal
  RefinesRpc
  CancelledCallReturns
  CloseReturns
CHECK_DEADLOCK FALSE
