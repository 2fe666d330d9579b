SPECIFICATION FairSpec
CONSTANTS
    Posts = {p1}
    Batches = {b1, b2}
    Cells <- TwoBatches
    MaxRequeues = 1
    Deletions = TRUE
    EmptyFor = {p1}
    p1 = p1
    b1 = b1
    b2 = b2
CONSTRAINT Paired
INVARIANT TypeOK
INVARIANT CompletedHasTrace
INVARIANT BatchAccounts
 
CHECK_DEADLOCK FALSE
