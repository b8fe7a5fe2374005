SPECIFICATION Spec
CONSTANTS
  Tasks = 1
  Write = {1}
  w1 = w1
  w2 = w2
  Worker = {w1, w2}
  NoWorker = NoWorker
  Operator = Operator
  Budget = 1
  Usages = {0, 2}
  ReserveTokens <- OneReserves
  MaxAttempts = 2
  PromptReadBack = FALSE
  MaxGen = 0
  MaxVersion = 4
INVARIANT NeverDuplicated
CHECK_DEADLOCK FALSE
