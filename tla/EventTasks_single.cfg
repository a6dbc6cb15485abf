SPECIFICATION Spec
CONSTANTS
    w1 = w1 w2 = w2 a = a
    None = None
    Workers = {w1, w2}
    RunMode = "SINGLE_LOOP"
    IoTasks = {a}
    AsyncTasks = {a}
    Reconnecting = {}
    Timers = {}
    DiskTasks = {}
    Signals = {}
    OutsideRemoval = FALSE
    NDebug = FALSE
INVARIANTS OneHandler
PROPERTIES NeverForgotten EndedDeleted
\* The system rests when every task is deleted.
CHECK_DEADLOCK FALSE
