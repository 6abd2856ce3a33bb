\* An agent run of at most two turns, a Predict that chats and one that sends prompts.
SPECIFICATION CallersSpec
CONSTANTS
  agent = agent
  chat = chat
  prompt = prompt
  Runs = {agent}
  MaxTurns = 2
  Batches <- MCBatches
  FinishReasons = {"stop"}
  ChatUsages = {1}
  ToolUsages <- MCToolUsages
  Predicts = {chat, prompt}
  Chats = {chat}
  OfferedCalls = {1, 2}
  MaxParseRetries = 2
  MaxToolTurns = 1
  Answers <- MCAnswers
  CallLimit = 4
INVARIANTS
  CallsAnswered
  LedgerAddsUp
  SummaryTellsRun
  LastReplyDecides
CHECK_DEADLOCK FALSE
