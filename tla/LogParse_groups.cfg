SPECIFICATION Spec
CONSTANTS
  Counts = {0, 1, 2, 3}
  Orders <- AllOrders
  MaxLine = 7
  MaxBatch = 3
INVARIANTS
  TypeOK
  NothingLost
  EvalConsistent
  DiesOnlyForCause
CHECK_DEADLOCK FALSE
