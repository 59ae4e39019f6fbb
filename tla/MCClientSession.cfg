SPECIFICATION Spec
CONSTANTS
    MaxConns = 2
    MaxBeats = 3
    MaxFaults = 1
PROPERTIES SilenceNoticed StopReturnsElsewhere
CHECK_DEADLOCK FALSE
