SPECIFICATION Spec
CONSTANTS
  Tracks = {a, b, c}
  None = None
  MaxGens = 2
  MaxRolls = 2
  MaxFaults = 2
  MaxErrors = 2
  MinOverlap = 2
CHECK_DEADLOCK FALSE
INVARIANTS PlanIsSound NothingLeftBehind BlameIsJust
PROPERTIES KeepsPromise
