CONSTANTS
  Phrases <- MCPhrases
  Objects <- MCObjects
  MaxPhrases = 1
SPECIFICATION Spec
CHECK_DEADLOCK FALSE
INVARIANT ZonesAreNamed
