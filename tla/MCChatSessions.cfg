SPECIFICATION Spec
SYMMETRY Symmetry
CONSTANTS
  Ops = {o1, o2}
  Temp = {t}
  Durable = {d}
  MaxStops = 1
  NoOne = NoOne
INVARIANTS
  TypeOK
  PrivateUntilCleared
  EndReachesEveryOperation
  TemporaryRunsIsolated
  RejectedLeavesNoMessage
  FinishedIsTerminal
CHECK_DEADLOCK FALSE
