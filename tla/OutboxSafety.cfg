SPECIFICATION Spec
CONSTANTS
  o1 = o1  o2 = o2  s1 = s1  s2 = s2  r1 = r1  r2 = r2  w1 = w1  w2 = w2
  None = None
  Object = {o1, o2}
  Shard = {s1}
  ShardOf <- OneShard
  Request = {r1, r2}
  Worker = {w1}
  Kinds = {"save"}
  OptionMayChange = FALSE
  BatchSize = 2
  MaxId = 3
  Poison = {}
CHECK_DEADLOCK FALSE
INVARIANTS OneDrainPerObject FlushIsReplicated NoLostSave IInv
PROPERTIES SentNeverRegresses ImplementsAbstract
SYMMETRY Symmetry
