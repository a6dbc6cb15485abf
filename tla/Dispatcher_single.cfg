SPECIFICATION Spec
CONSTANTS
    NumWorkers = 3
    RunMode = "SINGLE_LOOP"
    MaxBatch = 1
INVARIANTS
    LoopSafe
    EventsNotStranded
    JoinedMeansStopped
    IInv
PROPERTIES
    EventsHandled
    CallsCollected
    FollowersReturn
    ShutdownCompletes
    LeaderFollowersSpec
