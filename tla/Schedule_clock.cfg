SPECIFICATION Spec
CONSTANTS
  Spellings <- AllSpellings
  Starts = {0, 900}
  EmitTimes = {0, 400}
  StampTimes = {0, 300}
  ProbeTimes = {0, 2500}
  Delays = {0, 200}
  MaxEmit = 400
  MaxStamp = 300
  MaxProbe = 2500
  MaxDelay = 200
  Hour = 3600000
  MaxChanges = 1
  MaxCycles = 3
INVARIANTS
  TypeOK
  RefusedOnlyWhenClose
PROPERTIES
  PeriodKept
  StampsApart
CHECK_DEADLOCK FALSE
