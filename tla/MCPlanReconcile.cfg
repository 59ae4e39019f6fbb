CONSTANTS
  dig1 = dig1
  dig2 = dig2
  other = other
  t1 = t1
  t2 = t2
  None = None
  Nodes <- MCNodes
  Tiles <- MCTiles
  Digs <- MCDigs
  Region <- MCRegion
  Descending = {}
  MaxCloses = 1
SPECIFICATION FairSpec
INVARIANT TypeOK
INVARIANT OverlayExact
INVARIANT DoneIsDugElsewhere
PROPERTY ProgressKept
PROPERTY StallReported
CHECK_DEADLOCK FALSE
