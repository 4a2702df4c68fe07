SPECIFICATION Spec
CONSTANTS
  Kinds = {"TCPClient", "WSClient"}
  Requests = {r1}
  Notifies = {}
  Timeouts = {TRUE, FALSE}
  AnyTime = FALSE
  CallsBack = FALSE
  MaxConnects = 5
  NcWrap = 2
INVARIANTS PoolHoldsLive DiscardExclusive RetryOncePerConnect
CHECK_DEADLOCK FALSE
