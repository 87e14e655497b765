SPECIFICATION Spec
CONSTANTS
  w1 = w1  w2 = w2  a = a
  MaxId = 3
  Box <- OneBox
  Worker = {w1, w2}
  MaxAttempts = 1
  MaxDrain = 2
  ParallelAt = 2
  Slice = 3
  Threads = 2
  LateCommit = FALSE
  MaxCrashes = 0
CHECK_DEADLOCK FALSE
INVARIANTS NothingLost
PROPERTIES OrderKept GoneStaysGone ImplementsMailbox
SYMMETRY Symmetry
