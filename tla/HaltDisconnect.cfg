SPECIFICATION Spec
CONSTANTS
  MaxConns = 1
  Requests = {"continue"}
  Eager = FALSE
  MayDisconnect = TRUE
  LateAttach = FALSE
INVARIANTS NoNullDereference
CHECK_DEADLOCK FALSE
