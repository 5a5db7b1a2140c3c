SPECIFICATION Spec
CONSTANTS
  Contexts = {"c", "d"}
  Files = {"f"}
  Lines = {1, 2}
  MaxDepth <- Depths
INVARIANTS TypeOK
PROPERTIES StepOverStaysOut
