SPECIFICATION FairSpec
CONSTANTS
  N = 1
  o1 = o1
  o2 = o2
  Output <- TwoOutputs
  OutputList <- OneEach
  Kind <- File1
  LazyStart = {o2}
  ThreadStart = {o1}
  Faults = {}
  Overrunning = {}
  Modes = {TRUE}
  MaxMsg = 1
PROPERTIES
  EveryMessageEmitted
