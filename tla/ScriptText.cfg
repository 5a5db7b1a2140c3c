SPECIFICATION Spec
CONSTANTS
  MaxLines = 3
  MaxIncluded = 2
INVARIANTS TypeOK LinesKeepTheirNumbers OnlyTheWantedFile OffsetIsColumn
CHECK_DEADLOCK FALSE
