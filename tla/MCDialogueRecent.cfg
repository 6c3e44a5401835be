CONSTANTS
  Asking = {x1, x2}
  NoAsking = NoAsking
  ContextLimit = 2
  PromptLimit = 1
  StateTtl = 1
  ClarifyTtl = 0
  MaxTime = 2
SPECIFICATION DialogSpec
INVARIANT ContextIsRecent
CHECK_DEADLOCK FALSE
