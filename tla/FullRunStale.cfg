SPECIFICATION Spec
CONSTANTS
    Workers = {w1, w2}
    Jobs = {j1, j2}
    Clients = {c1}
    w1 = w1
    w2 = w2
    j1 = j1
    j2 = j2
    c1 = c1
    NoWorker = NoWorker
    NoJob = NoJob
    MaxRetries = 2
    CallbackOnRetry = FALSE
    Overlap = TRUE
    Faults = {"error"}
SYMMETRY Symmetry
PROPERTY StaleLockIsDead
