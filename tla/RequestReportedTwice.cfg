SPECIFICATION Spec
CONSTANTS
  Kinds = {"TCPClient"}
  Requests = {r1}
  Notifies = {}
  Timeouts = {TRUE}
  AnyTime = FALSE
  CallsBack = FALSE
  MaxConnects = 1
  NcWrap = 2
INVARIANT OneErrorPerRequest
CHECK_DEADLOCK FALSE
