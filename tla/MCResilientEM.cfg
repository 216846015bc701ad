SPECIFICATION Spec
CONSTANTS
  NumWorkers = 3
  MaxRetries = 2
  MaxFaults = 4
  MaxRequests = 3
INVARIANTS
  PoolTypeOK
  OneHolder
  ReadyAfterAnswer
  OnlyOwedShardsRedone
PROPERTIES
  ImplementsShardedStep
  BlacklistIsForever
  RequestsEnd
CHECK_DEADLOCK FALSE
