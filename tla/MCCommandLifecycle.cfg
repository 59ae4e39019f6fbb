CONSTANTS
  Callers = {c1, c2}
  MaxOps = 2
  MaxFaults = 1
  AckCap = 1
  None = None
SPECIFICATION FairSpec
PROPERTY ContractKept
PROPERTY CallsReturn
CHECK_DEADLOCK FALSE
