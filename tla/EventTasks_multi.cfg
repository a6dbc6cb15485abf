SPECIFICATION Spec
CONSTANTS
    w1 = w1 w2 = w2 a = a b = b d = d t = t
    None = None
    Workers = {w1, w2}
    RunMode = "MULTI_LOOP"
    IoTasks = {a, b}
    AsyncTasks = {}
    Reconnecting = {b}
    Timers = {t}
    DiskTasks = {d}
    Signals = {}
    OutsideRemoval = FALSE
    NDebug = FALSE
INVARIANTS StaysAssigned OneHandler
\* The system rests when every task is deleted.
CHECK_DEADLOCK FALSE
SYMMETRY Symmetry
