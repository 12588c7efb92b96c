SPECIFICATION FairSpec
CONSTANTS
  N = 2
  o1 = o1
  o2 = o2
  Output <- TwoOutputs
  OutputList <- Shared
  Kind <- TimedTimed
  LazyStart = {o2}
  ThreadStart = {o1}
  Faults = {}
  Overrunning = {1}
  Modes = {TRUE}
  MaxMsg = 1
PROPERTIES
  EveryProbeRuns
