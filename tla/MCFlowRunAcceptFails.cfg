\* A rewind whose Accept may panic, in a step that skips another writer of its key on success.
SPECIFICATION Spec
CONSTANTS
  Pipelines <- SkipOnly
  Cancellable <- SkipOnly
INVARIANTS
  NeverUnmerged
CHECK_DEADLOCK FALSE
