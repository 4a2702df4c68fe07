SPECIFICATION Spec
CONSTANTS
  Kinds = {"TCPClient", "WSClient", "TCPServer", "WSServer"}
  Requests = {r1, r2}
  Notifies = {n1}
  Timeouts = {TRUE}
  AnyTime = TRUE
  CallsBack = FALSE
  MaxConnects = 2
  NcWrap = 2
SYMMETRY RequestSymmetry
INVARIANTS
  TypeOK CloseOnce LiveStream AtMostOneSettlement NoLostMessage NothingLeftBehind
  EveryAttemptReported PoolNoLeak OnlyFlushReorders
PROPERTIES CallbackAlternation ImplementsRpc
CHECK_DEADLOCK FALSE
