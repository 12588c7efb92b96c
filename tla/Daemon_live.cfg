SPECIFICATION FairSpec
CONSTANTS
  N = 2
  o1 = o1
  o2 = o2
  Output <- TwoOutputs
  OutputList <- Shared
  Kind <- TimedTimed
  LazyStart = {o2}
  ThreadStart = {o1}
  Faults <- FaultsBeforeStop
  Overrunning = {}
  Modes = {TRUE}
  MaxMsg = 2
INVARIANTS
  StoppedCleanly
PROPERTIES
  FailStop
  EveryProbeRuns
  ImplementsFairDelivery
CHECK_DEADLOCK FALSE
