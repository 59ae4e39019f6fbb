CONSTANTS
  MaxReports = 3
  MaxRepeat = 1
  MaxPerMsg = 2
  TailWindow = 2
  Capacity = 3
  FeedCap = 1
  MaxDrops = 1
  UnlockedTeardown = FALSE
SPECIFICATION FairSpec
INVARIANT NothingSkipped
PROPERTY Delivered
CHECK_DEADLOCK FALSE
