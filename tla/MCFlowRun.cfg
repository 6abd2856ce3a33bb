\* Pipelines with a rewind, a Fallback in a range and a skip into one, and every small pipeline
\* that Build accepts, run to the end.
SPECIFICATION FairSpec
CONSTANTS
  Pipelines <- MCPipelines
  Cancellable <- RichPipelines
INVARIANTS
  StateIsStandingVisits
  DroppedWorkIsGone
  BuildKept
PROPERTIES
  RejectionRestores
  RunEnds
CHECK_DEADLOCK FALSE
