SPECIFICATION FairSpec
CONSTANTS
  Kinds = {"TCPClient"}
  Requests = {r1}
  Notifies = {n1}
  Timeouts = {TRUE, FALSE}
  AnyTime = TRUE
  CallsBack = FALSE
  MaxConnects = 2
  NcWrap = 2
PROPERTIES RequestSettles DisconnectCompletes
CHECK_DEADLOCK FALSE
