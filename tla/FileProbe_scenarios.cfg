SPECIFICATION FairSpec
CONSTANTS
  MaxLines = 1
  Backlog = 2
  Scenarios <- AllScenarios
  MaxEvents = 4
INVARIANTS
  TypeOK
  InOrderOnce
  WholeLines
PROPERTIES
  CatchesUp
