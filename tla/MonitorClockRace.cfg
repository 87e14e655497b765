SPECIFICATION Spec
CONSTANTS
  p1 = p1  p2 = p2
  Partition = {p1, p2}
  MaxMinute = 2
  MaxLen = 2
  MaxFaults = 0
CHECK_DEADLOCK FALSE
INVARIANTS NoTickSkipped
