CONSTANTS
  PageSize = 144
  Requests = {5, 20, 40}
SPECIFICATION FairSpec
INVARIANTS TypeOK Disjoint FreeListExact LiveFits BestFit NullMeansFull
PROPERTY FreeReturns
CHECK_DEADLOCK FALSE
