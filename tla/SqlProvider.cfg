SPECIFICATION SqFairSpec
CONSTANTS
  c1 = c1
  c2 = c2
  c3 = c3
  k1 = k1
  Checker = Checker
  Nobody = Nobody
  Calls <- MCCalls
  Clients <- MCClients
  ClaimSets <- MCClaimSets
INVARIANTS
  SqTypeOK
  RunsAsItsCaller
  OnlySafeRolesServe
  IdleClientsClean
  ClientsAccounted
PROPERTIES
  EveryCallAnswered
CHECK_DEADLOCK FALSE
