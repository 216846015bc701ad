SPECIFICATION MCSpec
CONSTANTS
  Nodes = {1, 2}
  Unmeasured = Unmeasured
  Unit = 7
  Dearer = {2}
  Rows = {}
  MaxRounds = 0
  DisturbedRounds = 0
  GuidedRounds = 0
  MinimumGain = 0
  MaxSkipRounds = 1
  BootstrapUnmeasured = TRUE
  BudgetShare <- DefaultShare
  Root = Root
  Gains = {0, 4}
  Delta = 0
  MaxIts = 6
  StallPatience = 3
  Edges <- MCEdges
  Rank <- MCPath
  Path <- MCPath
  BaseCost <- UnevenCost
INVARIANTS
  TurnsComeRound
CHECK_DEADLOCK FALSE
