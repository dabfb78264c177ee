SPECIFICATION FairSpec
CONSTANTS
  MaxNumPairs = 6
  MaxMgmt = 4
  MaxUplink = 3
  MaxVF = 7
INVARIANTS AcceptedConfigStarts ReservedNeverAdvertised EveryVFHasUse TypeOK
PROPERTY EndsOnceUnwatched
CHECK_DEADLOCK FALSE
