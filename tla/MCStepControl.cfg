CONSTANTS
  Ticks = {1}
  MaxCalls = 2
  MaxFrame = 0
  MaxAlarms = 1
  MaxFaults = 2
  EntityCap = 1
  None = None
SPECIFICATION FairSpec
INVARIANT TruthfulReport
PROPERTY StepEnds
CHECK_DEADLOCK FALSE
