SPECIFICATION FairSpec
CONSTANTS
  c1 = c1
  c2 = c2
  c3 = c3
  c4 = c4
  None = None
  Command <- FourCommands
  Kind <- FourKinds
  Crashing <- FourCommands
  Failing <- FourCommands
INVARIANTS
  TypeOK
  OneMain
  PidFileNamesDaemon
  LockInv
PROPERTIES
  CommandsEnd
CHECK_DEADLOCK FALSE
