SPECIFICATION Spec
CONSTANTS
  User = {u1, u2}
  SortKey <- MCSortKey
  Modify <- MCModify
  Worker = {w1}
  Broadcaster = broadcaster
  nRatingPositions = 1
  Environments <- MCEnvironments
INVARIANTS
  NamedUsersRegistered
PROPERTIES
  PushesSucceed
  ZeroDealIsHarmless
  PushedAgainAndAgain
CHECK_DEADLOCK FALSE
