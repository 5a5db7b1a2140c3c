SPECIFICATION Spec
CONSTANTS
  Paths = {"a.sqf"}
  Lines = {1, 2}
  Counts = {0, 2}
  MaxAdds = 2
  MaxInstructions = 4
INVARIANTS TypeOK AtMostOneTrigger NoEmptyList HitCountIsPeriodic OneLateHit
PROPERTIES ImplementsTable CommandsFinish
