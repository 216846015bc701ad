SPECIFICATION LateSpec
CONSTANTS
  NumWorkers = 2
  MaxRetries = 1
  MaxFaults = 2
  MaxRequests = 3
INVARIANT
  AnswersAreExact
CHECK_DEADLOCK FALSE
