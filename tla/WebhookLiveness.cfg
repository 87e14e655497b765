SPECIFICATION FairSpec
CONSTANTS
  w1 = w1  w2 = w2  a = a
  MaxId = 2
  Box <- OneBox
  Worker = {w1, w2}
  MaxAttempts = 2
  MaxDrain = 2
  ParallelAt = 2
  Slice = 2
  Threads = 1
  LateCommit = FALSE
  MaxCrashes = 1
CHECK_DEADLOCK FALSE
INVARIANTS IInv OrderInv
PROPERTIES EventuallyGone
