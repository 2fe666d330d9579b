SPECIFICATION FairSpec
CONSTANTS
    Posts = {}
    Batches = {b1}
    Cells <- OneBatch
    MaxRequeues = 1
    Deletions = FALSE
    EmptyFor = {b1}
    b1 = b1
    b2 = b2
PROPERTY EmptyIsAMiss
CHECK_DEADLOCK FALSE
