CONSTANTS
  Engines = {e1}
  Registered = {e1}
  DayLength = 2
  ReviewEvery = 2
  Window = 2
  LoopCooldown = 1
  BudgetCooldown = 1
  GradeCooldown = 1
  ManualCooldowns <- MCManualCooldowns
  ThrottleLimit = 2
  MaxLog = 5
  MaxOfType <- MCMaxOfType
  MaxLoops = 1
  MaxNow = 2
  MaxCycle = 2
SPECIFICATION Spec
PROPERTY IsolationNeedsManualRestore
