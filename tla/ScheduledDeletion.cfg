SPECIFICATION FairSpec
CONSTANTS
  w1 = w1  w2 = w2
  NoRow = NoRow
  Worker = {w1, w2}
  MaxRows = 2
  MaxRequests = 4
  MaxFaults = 2
CHECK_DEADLOCK FALSE
INVARIANTS TypeOK PendingIsScheduled OneTaskWorks
PROPERTIES RestoredIsKept EventuallySettled
