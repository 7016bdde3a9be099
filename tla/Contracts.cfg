SPECIFICATION Spec
CONSTANTS
  None = None
  Torn = Torn
  ana = ana
  bob = bob
  Anonymous = Anonymous
  MaxEdits = 1
  MaxDrifts = 1
  MaxCommands = 2
  Manifests <- MCManifests
  AuthorEdits <- MCAuthorEdits
  Bodies <- MCBodies
  HandWritten <- MCHandWritten
  Principals <- MCPrincipals
INVARIANTS
  GreenIsServed
  AdoptionBreaksNobody
  AdoptionCanStopAnywhere
  AcceptedIsWhole
  LockoutIsReported
  OneNameOneCapability
PROPERTIES
  WarnedOnlyAfterTrial
CHECK_DEADLOCK FALSE
