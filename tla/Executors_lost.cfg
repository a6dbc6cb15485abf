SPECIFICATION Spec
CONSTANTS
    Clients = {c1}
    Executors = {e1, e2}
    Tasks = {t1, t2}
    IdleRuns = 2
    None = None
PROPERTY
    EveryTaskRuns
