SPECIFICATION Spec
CONSTANTS
  Items = {1, 2, 3, 4}
  None = None
  InitialRows <- MCRows
  Origin <- MCOrigin
  PlayedLimit = 1
  Budgets <- MCBudgets
INVARIANTS StoreIsTrue OnlyPassedConsumed
PROPERTIES TrimsOnlyPassed
