SPECIFICATION Spec
CONSTANTS
  MaxLines = 1
  Backlog = 0
  Scenarios <- OneScenario
  MaxEvents = 2
PROPERTIES
  ClosedOnlyWhenReplaced
