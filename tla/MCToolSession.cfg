\* Four concurrent calls through three sessions, one created later than the one it encloses.
SPECIFICATION FairSpec
CONSTANTS
  t = t
  u = u
  byPredict = byPredict
  byAgent = byAgent
  atRight = atRight
  again = again
  NoCall = NoCall
  NoStep = NoStep
  Sessions = {1, 2, 3}
  Tools = {t, u}
  Calls <- MCCalls
  Steps = {"par", "left", "right", "inner"}
  SessionOf <- MCSessionOf
  Env <- MCEnv
  ToolOf <- MCToolOf
  StepOf <- MCStepOf
  Parent <- MCParent
  OwnSession <- MCOwnSession
  TopLevel = {"par", "inner"}
  Staging = {1, 2}
  Allow <- MCAllow
  MaxCalls <- MCMaxCalls
  MaxCallsPerTool <- MCMaxCallsPerTool
  Caches = {1, 3}
INVARIANTS
  LimitsExact
  RecordsComplete
PROPERTIES
  HitsStand
  CallsEnd
CHECK_DEADLOCK FALSE
