SPECIFICATION Spec
CONSTANTS
  Paths = {"a.sqf"}
  Lines = {1}
  Counts = {2}
  MaxAdds = 1
  MaxInstructions = 1
INVARIANTS HitcountCountsHits
