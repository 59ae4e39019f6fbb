CONSTANTS
  MaxQueue = 2
  MaxSessions = 3
SPECIFICATION FairSpec
INVARIANT TeardownOfOwnSession
INVARIANT ConnectedIsServed
PROPERTY NoThreadReplaced
PROPERTY ConsoleReturnsManual
PROPERTY RequestsAreServed
CHECK_DEADLOCK FALSE
