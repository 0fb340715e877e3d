SPECIFICATION Spec
CONSTANTS
  User = {u1, u2}
  Connection = {c1, c2}
  Sender = {broadcaster}
INVARIANTS
  KeysPointToConnections
  SentToOwnConnection
  OneWriterPerStream
  NoRouteToEndedStream
  LoyalUserRouted
PROPERTIES
  ConnectReturns
  ImplementsRouting
CHECK_DEADLOCK FALSE
