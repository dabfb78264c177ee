SPECIFICATION FairSpec
CONSTANTS
  MaxNumPairs = 4
  MaxMgmt = 1
  MaxUplink = 1
  MaxVF = 5
PROPERTY CancelledRunReturns
CHECK_DEADLOCK FALSE
