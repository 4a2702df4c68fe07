SPECIFICATION Spec
CONSTANTS
  Kinds = {"TCPClient"}
  Requests = {r1}
  Notifies = {}
  Timeouts = {TRUE}
  AnyTime = FALSE
  CallsBack = TRUE
  MaxConnects = 1
  NcWrap = 2
INVARIANT NoLockCycle
CHECK_DEADLOCK FALSE
