\* Runs over two validation examples, stopped at any moment and resumed.
SPECIFICATION FairSpec
CONSTANTS
  Valset = {1, 2}
  TrainSize = 2
  Scores = {0, 1}
  MaxMetricCalls = 11
  MinibatchSize = 1
  EnableMerge = TRUE
  MaxStarts = 2
INVARIANTS
  WasteBounded
  StopsRecoverable
  LoopFindsFrontier
  BestAndFrontierCurrent
PROPERTIES
  SavedWorkKept
  RunReturns
CHECK_DEADLOCK FALSE
