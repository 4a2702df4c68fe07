SPECIFICATION Spec
CONSTANTS
  Kinds = {"TCP"}
  Sockets = {s1}
  Groups = {}
  Broadcast = broadcast
  Limits = {0}
INVARIANT StopReported
CHECK_DEADLOCK FALSE
