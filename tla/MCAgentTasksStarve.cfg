SPECIFICATION FairSpec
CONSTANTS
  Tasks = 2
  Write = {}
  w1 = w1
  w2 = w2
  Worker = {w1}
  NoWorker = NoWorker
  Operator = Operator
  Budget = 1
  Usages = {0, 2}
  ReserveTokens <- NoReserve
  MaxAttempts = 2
  PromptReadBack = TRUE
  MaxGen = 0
  MaxVersion = 3
PROPERTY QueuedIsClaimed
CHECK_DEADLOCK FALSE
