SPECIFICATION Spec
CONSTANTS
    Clients = {c1, c2}
    Executors = {e1, e2, e3}
    Tasks = {t1, t2, t3}
    IdleRuns = 2
    None = None
INVARIANTS ExclusiveClaim ExecutedOnce NoDanglingRef RunningTaskSafe
SYMMETRY Symmetry
