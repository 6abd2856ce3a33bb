\* One call whose attempts report their usage in two ways: with a total, and without.
SPECIFICATION Spec
CONSTANTS
  Callers <- OneCaller
  Frames <- MCFrames
  Accounts <- MCAccounts
  Runs <- MCRuns
  Chain <- MCChain
  AccountOf <- MCAccountOf
  FrameOf <- OneFrameOf
  MaxTokens <- NoTokens
  MaxModelCalls <- NoCalls
  Timed = {}
  MaxAttempts <- OneAttempts
  Usages <- Mixed
  CallBound = 1
  Watched = "R"
  Interrupted = {}
INVARIANTS
  QuietLedgerExact
CHECK_DEADLOCK FALSE
