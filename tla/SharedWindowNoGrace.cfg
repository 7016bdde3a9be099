SPECIFICATION SWSpec
CONSTANTS
  i1 = i1
  i2 = i2
  a1 = a1
  a2 = a2
  a3 = a3
  k1 = k1
  Instances <- MCInstances
  Askers <- MCAskers
  Keys <- MCKeys
  WindowSeconds <- MCWindowSeconds
  Lag <- MCLag
  GraceSeconds = 0
  MaxDelay = 1
  MaxTime = 5
INVARIANTS
  NeverOverLimit
CHECK_DEADLOCK FALSE
