SPECIFICATION SqCodeFairSpec
CONSTANTS
  c1 = c1
  c2 = c2
  c3 = c3
  k1 = k1
  Checker = Checker
  Nobody = Nobody
  Calls <- MCTwoCalls
  Clients <- MCClients
  ClaimSets <- MCClaimSets
PROPERTIES
  NoSilentHang
CHECK_DEADLOCK FALSE
