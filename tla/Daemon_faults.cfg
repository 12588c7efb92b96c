SPECIFICATION Spec
CONSTANTS
  N = 3
  o1 = o1
  o2 = o2
  Output <- TwoOutputs
  OutputList <- SharedAndNone
  Kind <- TimedPlainFile
  LazyStart = {}
  ThreadStart = {o1}
  Faults <- AllFaults
  Overrunning = {1}
  Modes = {TRUE, FALSE}
  MaxMsg = 2
INVARIANTS
  TypeOK
  BacklogBounded
  LossBounded
  FanOut
  TaskHeldOnce
PROPERTIES
  InOrder
  EmitAfterStart
  ImplementsDelivery
CHECK_DEADLOCK FALSE
