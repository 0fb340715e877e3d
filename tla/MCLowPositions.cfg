SPECIFICATION Spec
CONSTANTS
  AccessKey = {k1, k2, k3, k4}
  SortKey <- MCSortKey
  Modify <- MCModify
  MaxPositions = 4
INVARIANT
  LowPositionsNearest
