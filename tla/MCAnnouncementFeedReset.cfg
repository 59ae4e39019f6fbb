CONSTANTS
  MaxReports = 2
  MaxRepeat = 0
  MaxPerMsg = 1
  TailWindow = 2
  Capacity = 2
  FeedCap = 1
  MaxDrops = 1
  UnlockedTeardown = TRUE
SPECIFICATION Spec
INVARIANT NothingSkipped
CHECK_DEADLOCK FALSE
