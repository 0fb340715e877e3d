SPECIFICATION Spec
CONSTANTS
  m1 = m1
  m2 = m2
  c1 = c1
  c2 = c2
  Message = {m1, m2}
  Connection = {c1, c2}
  To <- MCTo
  Ids = 2
  resendNumber = 2
INVARIANTS
  SendsBounded
  BlockedWithNothingToDo
PROPERTIES
  GivenUpForAReason
  StoreDrains
  StopCompletes
CHECK_DEADLOCK FALSE
