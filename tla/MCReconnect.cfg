SPECIFICATION FairSpec
CONSTANTS
  Capacity = 2
  MaxCommands = 4
  MaxDrops = 2
  MaxFaults = 2
CHECK_DEADLOCK FALSE
INVARIANTS ChainsAreSound
PROPERTIES OutputRecovers
