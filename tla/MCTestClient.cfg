SPECIFICATION ClientSpec
CONSTANTS
  MaxNumber = 8
  UserNumbers = {1, 5}
  MaxRequests = 2
  Ratings <- MCRatings
INVARIANTS
  WireMeansMessage
  OnlyNewestUnannounced
PROPERTY
  GetsGoing
CHECK_DEADLOCK FALSE
