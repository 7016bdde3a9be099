SPECIFICATION AFSpec
CONSTANTS
  MaxFiles = 2
  MaxBytes = 4
  MaxRecords = 4
  Sizes <- MCSizes
INVARIANTS
  AFTypeOK
  GenerationsInOrder
  KeptIsReadable
  FileBudget
PROPERTIES
  NothingOverwritten
CHECK_DEADLOCK FALSE
