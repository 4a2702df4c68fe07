SPECIFICATION FairSpec
CONSTANTS
  Kinds = {"TCP", "WS"}
  Sockets = {s1, s2}
  Groups = {}
  Broadcast = broadcast
  Limits = {}
PROPERTY StopDisconnects
CHECK_DEADLOCK FALSE
