SPECIFICATION AFSpec
CONSTANTS
  MaxFiles = 2
  MaxBytes = 4
  MaxRecords = 4
  Sizes <- MCSizes
INVARIANTS
  EveryLossReported
CHECK_DEADLOCK FALSE
