SPECIFICATION Spec
CONSTANTS
  WorldSize = 2
  MaxSteps = 2
  MaxCheckpoints = 2
  MaxDeaths = 1
INVARIANTS
  ElasticTypeOK
  CurrentComplete
  NoBatchSkipped
  NoStepInFlight
PROPERTY
  CallsReturn
CHECK_DEADLOCK FALSE
