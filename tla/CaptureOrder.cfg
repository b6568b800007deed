SPECIFICATION FairCapture
CONSTANTS
  CAPACITY = 2
  MaxTime = 2
  MaxReports = 3
CHECK_DEADLOCK FALSE
INVARIANTS
  TimeOrdered NothingLost
PROPERTIES
  FaultDelivered JoinReturns
