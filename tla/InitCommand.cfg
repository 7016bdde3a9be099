SPECIFICATION Spec
CONSTANTS
  None = None
  Torn = Torn
  MaxSaves = 1
  MaxDrifts = 1
  Cases <- MCCases
  Words <- MCWords
  AnsweredIds <- MCAnsweredIds
  Backend <- MCBackend
  Unaddressable <- MCUnaddressable
  Unbalanced <- MCUnbalanced
  PascalCase <- MCPascalCase
  Singular <- MCSingular
  BadWords <- MCBadWords
  MaxNesting = 4
INVARIANTS
  ContractsAreEarned
  CommittedOrUntouched
  EmittedKeepsItsWord
CHECK_DEADLOCK FALSE
