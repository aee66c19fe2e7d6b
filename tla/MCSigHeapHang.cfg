CONSTANTS
  PageSize = 144
  Requests = {5, 20}
SPECIFICATION FairSpec
PROPERTY FindReturns
CHECK_DEADLOCK FALSE
