\* Three fair callers of two steps and a nested run, every limit set; the nested run's context may
\* also end for another reason.
SPECIFICATION FairSpec
CONSTANTS
  Callers <- MCCallers
  Frames <- MCFrames
  Accounts <- MCAccounts
  Runs <- MCRuns
  Chain <- MCChain
  AccountOf <- MCAccountOf
  FrameOf <- MCFrameOf
  MaxTokens <- TightTokens
  MaxModelCalls <- TightCalls
  Timed = {"N"}
  MaxAttempts <- NestedAttempts
  Usages <- OneToken
  CallBound = 1
  Watched = "R"
  Interrupted = {"fN"}
INVARIANTS
  QuietLedgerExact
  OverspendStops
PROPERTIES
  SpentNeverFalls
  RunIsLedger
  CallsEnd
CHECK_DEADLOCK FALSE
