SPECIFICATION Spec
CONSTANTS
  h1 = "h1"
  h2 = "h2"
  Host <- TwoHosts
  GroupList <- TwoGroups
  Count = 2
  Time = {1, 2}
  MaxCycles = 3
  MaxLines = 3
INVARIANTS
  TypeOK
  StatisticsAgree
  OneRowPerHost
  CounterCounts
CHECK_DEADLOCK FALSE
