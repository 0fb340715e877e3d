SPECIFICATION Spec
CONSTANTS
  FirstOfMonth <- MCFirstOfMonth
  Now <- MCNow
  Deal = {d1}
  Timestamp <- MCTimestamp
  startPeriodDay = 1
PROPERTY
  OnlyDealsOfThePeriod
CHECK_DEADLOCK FALSE
