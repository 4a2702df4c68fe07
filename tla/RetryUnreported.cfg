SPECIFICATION Spec
CONSTANTS
  Kinds = {"WSClient"}
  Requests = {}
  Notifies = {}
  Timeouts = {TRUE}
  AnyTime = FALSE
  CallsBack = FALSE
  MaxConnects = 2
  NcWrap = 2
INVARIANT DisconnectReported
CHECK_DEADLOCK FALSE
