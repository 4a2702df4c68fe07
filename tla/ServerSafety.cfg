SPECIFICATION ProcessSpec
CONSTANTS
  Kinds = {"TCP", "WS"}
  Sockets = {s1, s2}
  Groups = {g1}
  Broadcast = broadcast
  Limits = {1}
  Threads = {t1, t2, t3}
  MaxEnables = 2
  ClientSockets = {k1, k2}
SYMMETRY ProcessSymmetry
INVARIANTS
  TypeOK ClosedLeavesGroups StopEmpties LogTargetsLive NoSilentEnd
PROPERTIES ImplementsHosting
CHECK_DEADLOCK FALSE
