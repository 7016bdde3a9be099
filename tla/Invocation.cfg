SPECIFICATION FairSpec
CONSTANTS
  c1 = c1
  c2 = c2
  alice = alice
  bob = bob
  nobody = nobody
  noTool = noTool
  Anonymous = nobody
  AnonymousName = anonymousName
  Unknown = noTool
  MaxTime = 2
  Calls <- MCCalls
  Principals <- MCPrincipals
  Tools <- MCTools
  Requests <- MCRequests
  Hosts <- MCHosts
INVARIANTS
  TypeOK
  OneRecordPerAttempt
  DispatchAuthorised
  HttpActsForItsOwnCaller
  WithinLimit
  RefusedOnlyOverOwnBudget
  RecordTellsTheOutcome
  FirstGateNamed
PROPERTIES
  AnswersOnce
  EveryRequestAnswered
  KeepsPromise
CHECK_DEADLOCK FALSE
