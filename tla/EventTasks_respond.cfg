SPECIFICATION Spec
CONSTANTS
    w1 = w1 w2 = w2 a = a s = s
    None = None
    Workers = {w1, w2}
    RunMode = "SINGLE_LOOP"
    IoTasks = {a}
    AsyncTasks = {a}
    Reconnecting = {}
    Timers = {}
    DiskTasks = {}
    Signals = {s}
    OutsideRemoval = TRUE
    NDebug = FALSE
INVARIANTS NoUseAfterFree ResponseWatched
\* The system rests when every task is deleted.
CHECK_DEADLOCK FALSE
SYMMETRY Symmetry
