SPECIFICATION FairSpec
CONSTANTS
  o1 = o1  o2 = o2  s1 = s1  s2 = s2  r1 = r1  r2 = r2  w1 = w1  w2 = w2
  None = None
  Object = {o1, o2}
  Shard = {s1,s2}
  ShardOf <- TwoShards
  Request = {r1}
  Worker = {w1}
  Kinds = {"save"}
  OptionMayChange = FALSE
  BatchSize = 3
  MaxId = 2
  Poison = {o1}
CHECK_DEADLOCK FALSE
PROPERTIES EventuallyReplicated
