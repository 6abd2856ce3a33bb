\* One run with every way a visit may end, at most two attempts and two visits
\* of a wrapped step.
SPECIFICATION Spec
CONSTANTS
  Key = {"x", "y", "z", "v"}
  Step <- MCSteps
  NestedSteps <- MCNestedSteps
  Children <- MCChildren
  ProgramSteps = {"b"}
  Wrappers <- MCWrappers
  RewindStep = "w"
  Reads <- MCReads
  Writes <- MCWrites
  Inputs <- MCInputs
  TransitionObserver = {"trace", "inner", "evaluation"}
  ResolvedObserver = {"resolver", "inner"}
  Recorder = {"trace", "evaluation"}
  Evaluator = "evaluation"
  Worlds <- MCWorlds
  MaxAttempts = 2
  MaxVisits = 2
INVARIANTS
  EventsInOrder
  AudienceTold
  TracesAgree
  RedactedStaysOut
  ReflectionHides
