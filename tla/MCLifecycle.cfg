\* Two requests, two runtimes, a crash and a lost command loop.
CONSTANTS
    Requests = {q1, q2}
    Boot = boot
    Runtimes = {r1, r2}
    None = none
    MaxCrashes = 1
    MaxLost = 1
SPECIFICATION FairSpec
INVARIANTS
    OneRuntime
    DeletedHasNoRuntime
    StoppedHasNoRuntime
    SyncReachesRuntime
    AnnouncedAtRest
PROPERTIES
    AnswersAreTrue
    EveryRequestEnds
    IntentIsRestored
