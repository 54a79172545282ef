CONSTANT MaxTransactions = 5
SPECIFICATION ClientSpec
INVARIANTS
  ClientTypeOK
  CounterInSync
  RepetitionIsSafe
PROPERTY LateInclusionIsFatal
CHECK_DEADLOCK FALSE
