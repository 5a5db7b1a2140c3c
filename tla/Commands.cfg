SPECIFICATION Spec
CONSTANTS
  Conns = {"c1", "c2"}
  Kinds = {"plain", "silent", "bad", "continue", "haltNow", "loadFile", "available", "functions", "profile", "execute"}
  Reentrant = TRUE
  Modes = {"debug", "pause", "browse"}
INVARIANTS TypeOK NoCircularWait NoWaitInHalt EngineExclusive OvertakenOnce
PROPERTIES NetReturns
CHECK_DEADLOCK FALSE
