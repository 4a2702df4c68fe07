SPECIFICATION Spec
CONSTANTS
  Kinds = {"TCPClient"}
  Requests = {}
  Notifies = {}
  Timeouts = {TRUE}
  AnyTime = FALSE
  CallsBack = FALSE
  MaxConnects = 1
  NcWrap = 2
INVARIANT DisconnectReason
CHECK_DEADLOCK FALSE
