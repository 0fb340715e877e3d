SPECIFICATION Spec
CONSTANTS
  FirstOfMonth <- MCFirstOfMonth
  Now <- MCNow
  Deal = {d1, d2}
  Timestamp <- MCTimestamp
  startPeriodDay = 1
INVARIANTS
  WindowCurrent
  NoFutureDeals
PROPERTIES
  CurrentDealsKept
  IgnoredForAReason
  CatchesUp
  StopCompletes
CHECK_DEADLOCK FALSE
