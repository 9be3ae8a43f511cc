\* Three calls of any kind and a channel with room for one, without symmetry.
CONSTANTS
    Calls = {c1, c2, c3}
    None = none
    Capacity = 1
SPECIFICATION FairSpec
INVARIANTS
    AnswersHold
PROPERTIES
    ShutdownOvertakesCommands
    EveryCallerAnswered
