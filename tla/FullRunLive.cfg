SPECIFICATION FairSpec
CONSTANTS
    Workers = {w1}
    Jobs = {j1, j2}
    Clients = {c1}
    w1 = w1
    j1 = j1
    j2 = j2
    c1 = c1
    NoWorker = NoWorker
    NoJob = NoJob
    MaxRetries = 2
    CallbackOnRetry = FALSE
    Overlap = FALSE
    Faults = {"error", "crash"}
PROPERTY JobsSettle
PROPERTY RunSettles
