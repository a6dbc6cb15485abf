SPECIFICATION Spec
CONSTANTS
    Clients = {c1, c2}
    Executors = {e1, e2}
    Tasks = {t1, t2}
    IdleRuns = 2
    None = None
PROPERTIES StoredTaskRuns CallsReturn IdleExecutorsEnd DestroyCompletes
