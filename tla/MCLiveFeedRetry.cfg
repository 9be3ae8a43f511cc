SPECIFICATION ConnectionSpec
CONSTANTS
  Capacity = 1
  SampleEvery = 2
  Budgets <- MCBudgets
CHECK_DEADLOCK FALSE
PROPERTY SignalRetries
