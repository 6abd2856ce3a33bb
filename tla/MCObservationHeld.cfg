\* Of a step in two wrappers, the outer timeout may end with the inner result on its way.
SPECIFICATION Spec
CONSTANTS
  Key = {"x", "y", "z", "v"}
  Step <- MCSteps
  NestedSteps <- MCNestedSteps
  Children <- MCChildren
  ProgramSteps = {"b"}
  Wrappers <- MCWrappers
  RewindStep = "w"
  Reads <- MCReads
  Writes <- MCWrites
  Inputs <- MCInputs
  TransitionObserver = {"trace", "inner", "evaluation"}
  ResolvedObserver = {"resolver", "inner"}
  Recorder = {"trace", "evaluation"}
  Evaluator = "evaluation"
  Worlds <- MCWorlds
  MaxAttempts = 2
  MaxVisits = 2
INVARIANTS
  AttemptsResolve
