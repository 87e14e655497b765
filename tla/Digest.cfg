SPECIFICATION FairSpec
CONSTANTS
  t1 = t1  t2 = t2
  NoTask = NoTask
  Task = {t1, t2}
  MaxRecord = 2
  Capacity = 1
  MaxAdds = 3
  MaxQueued = 2
  MaxFaults = 2
CHECK_DEADLOCK FALSE
INVARIANTS TypeOK NonEmptyIsScheduled NoRecordLost NotSentTwice
PROPERTIES EventuallySent
