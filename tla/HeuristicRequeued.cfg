SPECIFICATION Spec
CONSTANTS
    Posts = {p1}
    Batches = {b1}
    Cells <- OneBatch
    MaxRequeues = 1
    Deletions = FALSE
    EmptyFor = {p1}
    p1 = p1
    b1 = b1
    b2 = b2
INVARIANT HeuristicIsNotRequeued
CHECK_DEADLOCK FALSE
