CONSTANTS
  ReportIds = {1, 2, 3, 4}
  Capacity = 3
  MaxRepeat = 1
  FortTiles = {t1, t2}
  Values = {rock, floor}
  TileCap = 2
  MaxChanges = 3
  MaxPushes = 3
  MaxBreaks = 1
  None = None
  Anchors = {1, 2}
  Tools = {c1, c2}
  MaxCalls = 2
  MaxFullStates = 2
  MaxGameChanges = 1
  MaxRestarts = 1
  Width = 3
  Height = 2
  Depth = 3
  ByteBits = 2
  MinKnownOpenTiles = 2
  Callers = {c1, c2}
  connectorLiveRecheckMaxZSpan = 2
  MaxUpdates = 3
  FullStates <- MCFull
  UpdatedTiles <- MCUpdated
  TileFlags <- MCFlags
  Digs <- MCDigs
  HazardTiles <- MCHazardTiles
  UnitTiles <- MCUnitTiles
  TileTypes = {0, 45, 100, 119, 120, 149}
  HazardFlags = {0, 1, 3}
  Units <- MCUnits
  MaxTold = 3
  ModTiles <- MCModTiles
  Inside <- MCInside
  Seen <- MCSeen
  MaxSeen = 3
  Start <- MCStart
  Changes <- MCChanges
  ToolInput <- MCToolInput
  ToolValues <- MCToolValues
  MaxFields = 2
  MaxCut = 24
  Setups <- MCSetups
  Answers <- MCAnswers
  Sequences <- MCSequences
  Decisions <- MCDecisions
  Library <- MCLibrary
  Walls <- MCWalls
  Reach <- MCReach
  Window = 2
  Phrases <- MCPhrases
  Objects <- MCObjects
  MaxPhrases = 2
SPECIFICATION MCSpec
CHECK_DEADLOCK FALSE
INVARIANT IndexConsistent
INVARIANT GroundedElsewhere
INVARIANT NamesKeptElsewhere
INVARIANT LookupsAgree
INVARIANT RegionsAreComponents
INVARIANT SuggestionConnects
INVARIANT LayersMatchTold
INVARIANT ModificationsMatchHistory
INVARIANT ChambersExact
INVARIANT ReadersAgree
INVARIANT CutIsNotMisread
INVARIANT ToolReachesPlugin
INVARIANT HistoryIsTrue
 
INVARIANT PromptIsUnderstood
PROPERTY DismissalKept
