SPECIFICATION Spec
CONSTANTS
  Conns = {"c1"}
  Kinds = {"continue", "loadFile"}
  Reentrant = TRUE
  Modes = {"careless"}
PROPERTIES LoadFileReturns
CHECK_DEADLOCK FALSE
