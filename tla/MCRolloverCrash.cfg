SPECIFICATION Spec
CONSTANTS
  User = {u1, u2}
  SortKey <- MCSortKey
  Modify <- MCModify
  Worker = {w1}
  Broadcaster = broadcaster
  nRatingPositions = 1
  Environments <- MCRollover
INVARIANT
  OrderlyClientsNeverCrashIt
CHECK_DEADLOCK FALSE
