SPECIFICATION MCSpec
CONSTANTS
  Nodes = {1, 2, 3}
  Unmeasured = Unmeasured
  Unit = 2
  Dearer = {3}
  Rows <- AllRows
  MaxRounds = 7
  DisturbedRounds = 3
  MinimumGain = 0
  MaxSkipRounds = 2
  BootstrapUnmeasured = TRUE
  BudgetShare <- DefaultShare
  Root = Root
  Gains = {0, 1, 4}
  Delta = 2
  MaxIts = 7
  StallPatience = 5
  GuidedRounds = 2
  Edges <- MCEdges
  Rank <- MCPath
  Path <- MCPath
  BaseCost <- MCBaseCost
INVARIANTS
  SchedulerTypeOK
  BudgetUsedUp
  BoundedStarvation
  LocalTypeOK
  TurnsComeRound
  StallsAfterTryingAll
CHECK_DEADLOCK FALSE
