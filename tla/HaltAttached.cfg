SPECIFICATION Spec
CONSTANTS
  MaxConns = 1
  Requests = {"continue", "step", "query", "haltNow"}
  Eager = FALSE
  MayDisconnect = FALSE
  LateAttach = FALSE
INVARIANTS TypeOK NoNullDereference NotifiedMeansHalted BreakStateIsHalted StepIsArmed
PROPERTIES AnsweredHaltEnds
