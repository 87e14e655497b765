SPECIFICATION FairSpec
CONSTANTS
  w1 = w1
  NTables = 2
  Worker = {w1}
  Rate = 2
  Ids <- TwoSmall
  MaxVersion <- TwoThenOne
  MaxCrashes = 1
CHECK_DEADLOCK FALSE
INVARIANTS DoneMeansCovered CursorIsCovered UpgradeCoversAll IInv
PROPERTIES EventuallyCovered
