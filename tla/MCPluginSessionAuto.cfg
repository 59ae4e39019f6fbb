CONSTANTS
  MaxQueue = 2
  MaxSessions = 2
SPECIFICATION FairSpec
PROPERTY ConsoleReturns
CHECK_DEADLOCK FALSE
