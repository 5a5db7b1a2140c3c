SPECIFICATION Spec
CONSTANTS
  MaxConns = 2
  Requests = {"continue", "step", "query", "haltNow"}
  Eager = TRUE
  MayDisconnect = TRUE
  LateAttach = TRUE
INVARIANTS NoDanglingInstruction
PROPERTIES PauseIsKept AbandonedHaltEnds ImplementsContract
CHECK_DEADLOCK FALSE
