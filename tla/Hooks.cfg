SPECIFICATION Spec
CONSTANTS
  Size = 8
  Bytes = {"a", "b"}
  Any = "?"
  PatchLength = 2
  Jobs <- MCJobs
  Claimed = {"worldSimulate"}
  Startups = 2
INVARIANTS TypeOK ScanIsExact HooksAreSound
CHECK_DEADLOCK FALSE
