\* Two jobs of at most three and two calls, one predict job with a repair.
SPECIFICATION FairSpec
CONSTANTS
  PredictIds = {"p"}
  MaxParseRetries = 1
  AnswerUsages = {1}
  Jobs = {"a", "o"}
  Operation <- MCOperation
  MaxCalls <- MCCalls
  MaxDepth = 4
INVARIANTS
  CancelHonoured
  AnswersCounted
PROPERTIES
  CancelledJobsComplete
CHECK_DEADLOCK FALSE
