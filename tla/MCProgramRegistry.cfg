\* Calls that load or train one artifact in two processes, which crash at any moment.
SPECIFICATION RegistryFairSpec
CONSTANTS
  Callers = {"c1", "c2", "c3"}
  Processes = {"p", "q"}
  ProcessOf <- MCProcessOf
  OpsOf <- MCOpsOf
  FactoriesOf <- MCFactoriesOf
  Versions = {"", "v"}
  Shapes = {"a", "b", "c"}
  Unprinted = {"c"}
  None = "none"
  Stale = "stale"
  MaxCalls = 1
INVARIANTS
  LoadsFit
PROPERTIES
  ArtifactStands
  EndedCallsReturn
CHECK_DEADLOCK FALSE
