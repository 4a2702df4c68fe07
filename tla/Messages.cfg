SPECIFICATION MCSpec
CONSTANTS
  MaxRequests = 3
  MaxCalls = 2
  IdMod = 2
  MaxOthers = 1
  MaxConns = 2
  Anys = {"a", "b"}
  MaxStarts = 3
  Received <- MCReceived
INVARIANTS
  AnswersItsCall NoDanglingTimer DeliversWhole
  ValueSemantics OrderAgrees OptionalShowsLast
  TimerHandles OneShot
PROPERTY CallReported
CHECK_DEADLOCK FALSE
