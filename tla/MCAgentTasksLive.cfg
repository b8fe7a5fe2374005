SPECIFICATION FairSpec
CONSTANTS
  Tasks = 2
  Write = {2}
  w1 = w1
  w2 = w2
  Worker = {w1}
  NoWorker = NoWorker
  Operator = Operator
  Budget = 1
  Usages = {0, 2}
  ReserveTokens <- W1Reserves
  MaxAttempts = 2
  PromptReadBack = TRUE
  MaxGen = 0
  MaxVersion = 2
PROPERTY RunningEnds
CHECK_DEADLOCK FALSE
