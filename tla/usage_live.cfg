SPECIFICATION LiveSpec
CONSTANTS
    k1 = k1  k2 = k2  w1 = w1  t1 = t1  t2 = t2
    NoOwner = "none"
    Collectors = {"a"}
    Keys = {k1, k2}
    Tokens = {t1, t2}
    Owners = {"u1"}
    TokenOwner <- SameOwner
    Excluded = {k2}
    Receipts = {TRUE}
    MaxBytes = 1
    Chunk = 1
    BatchSize = 1
    DrainBatches = 1
    MaxStamp = 2
    MaxRev = 2
    MaxRemovals = 0
    MaxSeq = 4
PROPERTY JournalDrains
PROPERTY RollupCatchesUp
PROPERTY JobsFinish
CHECK_DEADLOCK FALSE
