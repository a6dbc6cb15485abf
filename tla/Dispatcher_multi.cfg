SPECIFICATION Spec
CONSTANTS
    NumWorkers = 2
    RunMode = "MULTI_LOOP"
    MaxBatch = 2
PROPERTIES
    CallsCollected
    ShutdownCompletes
