SPECIFICATION AFSpec
CONSTANTS
  MaxFiles = 2
  MaxBytes = 4
  MaxRecords = 4
  Sizes <- MCSizes
INVARIANTS
  KeepsGenerations
CHECK_DEADLOCK FALSE
