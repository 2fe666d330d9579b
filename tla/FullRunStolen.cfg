SPECIFICATION Spec
CONSTANTS
    Workers = {w1, w2}
    Jobs = {j1, j2, j3}
    Clients = {c1}
    w1 = w1
    w2 = w2
    j1 = j1
    j2 = j2
    j3 = j3
    c1 = c1
    NoWorker = NoWorker
    NoJob = NoJob
    MaxRetries = 0
    CallbackOnRetry = TRUE
    Overlap = TRUE
    Faults = {"lostReply", "error"}
CONSTRAINT Kept
SYMMETRY Symmetry
INVARIANT TypeOK
INVARIANT TraceBacksStatus
