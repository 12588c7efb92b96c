SPECIFICATION FairSpec
CONSTANTS
  c1 = c1
  c2 = c2
  c3 = c3
  c4 = c4
  None = None
  Command <- TwoCommands
  Kind <- StartRestart
  Crashing = {}
  Failing = {}
PROPERTIES
  RestartRestarts
CHECK_DEADLOCK FALSE
