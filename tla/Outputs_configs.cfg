SPECIFICATION Spec
CONSTANTS
  Configs <- AllConfigs
  Metric <- Dots
  MaxSecond = 3
  MaxMessages = 3
INVARIANTS
  TypeOK
  NeverUnready
  ValuesKeptApart
  ValuesReachDatabase
  SocketsGivenBack
  VodkaStartsOnce
  OneObjectPerName
CHECK_DEADLOCK FALSE
