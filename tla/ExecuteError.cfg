SPECIFICATION Spec
CONSTANTS
  Plugins = {}
  ErrorTypes = {"error"}
  MayExecute = TRUE
  Nice = TRUE
PROPERTIES ExecuteReturns
CHECK_DEADLOCK FALSE
