\* Ten steps, of two or three levels; the run may be cancelled or out of budget at any moment.
SPECIFICATION Spec
CONSTANT
  Trees <- MCTrees
INVARIANTS
  CommittedIsWhatStands
  EachReportedOnce
  FailureIsReal
PROPERTIES
  NothingStartsAfterEnd
  StepTreeEnds
CHECK_DEADLOCK FALSE
