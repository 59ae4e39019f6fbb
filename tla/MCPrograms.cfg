CONSTANTS
  MaxLoops = 2
  MaxTicks = 1
  Configs <- MCConfigs
  Calls = {q1, q2}
  MaxConns = 2
  MaxID = 3
  MaxPasses = 2
  MaxTurns = 2
  MaxLength = 2
  Plans <- MCPlans
  Depends <- MCDepends
SPECIFICATION MCSpec
CHECK_DEADLOCK FALSE
INVARIANT DecisionsInOrder
INVARIANT PlanIsFollowed
PROPERTY LoopsAnswer
PROPERTY QueryContractKept
PROPERTY QueriesReturn
PROPERTY NothingHangs
