SPECIFICATION FairSpec
CONSTANTS
  o1 = o1  w1 = w1  w2 = w2
  Null = Null  Absent = Absent
  Object = {o1}
  Setups <- BothSetups
  Worker = {w1, w2}
  BatchSize = 1
  ChunkSize = 1
  MaxRow = 2
  MaxTombstone = 2
  MaxFaults = 1
CHECK_DEADLOCK FALSE
INVARIANTS TypeOK NoOrphanSkipped
PROPERTIES LivingKeepTheirRows OrphansGo
