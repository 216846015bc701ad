SPECIFICATION Spec
CONSTANTS
  NumWorkers = 2
  MaxErrors = 1
  MaxRequests = 2
INVARIANT
  AnswersAreExact
CHECK_DEADLOCK FALSE
