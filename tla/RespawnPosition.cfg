SPECIFICATION Spec
CONSTANTS
  WorldSize = 2
  MaxSteps = 2
  MaxCheckpoints = 2
  MaxDeaths = 0
INVARIANT
  RespawnReadsLast
CHECK_DEADLOCK FALSE
