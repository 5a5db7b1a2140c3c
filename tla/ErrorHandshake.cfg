SPECIFICATION Spec
CONSTANTS
  Plugins = {"plugin"}
  ErrorTypes = {"error"}
  MayExecute = TRUE
  Nice = FALSE
INVARIANTS TypeOK HandlerHoldsRequest ContinueReachesHalts
PROPERTIES ImplementsContract FilterDecides LoneRequestIsAnswered
CHECK_DEADLOCK FALSE
