SPECIFICATION FairSpec
CONSTANTS
  Items = {1, 2, 3}
  None = None
  InitialRows <- MCRows
  MaxCommands = 2
  MaxEdits = 1
  MaxFaults = 1
  MaxInputs = 3
  MaxAttempts = 6
  Races <- SurvivedRaces
CHECK_DEADLOCK FALSE
INVARIANTS NothingPendingForever
PROPERTIES PlaysOn
