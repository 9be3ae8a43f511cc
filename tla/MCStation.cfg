SPECIFICATION Spec
CONSTANTS
  Items = {1, 2, 3}
  None = None
  InitialRows <- MCRows
  MaxCommands = 3
  MaxEdits = 1
  MaxFaults = 1
  MaxInputs = 5
  MaxAttempts = 30
  Races = {}
CHECK_DEADLOCK FALSE
INVARIANTS OneStation StagedIsSuccessor EndedTrackMovesOn PauseHolds
PROPERTIES NeverReplayed
