SPECIFICATION Spec
CONSTANTS
  User = {u1, u2, u3}
  Worker = {w1, w2}
INVARIANTS
  BlockedWithNothingToDo
  AtMostOneLatePush
PROPERTIES
  ServedAgainAndAgain
  StopCompletes
