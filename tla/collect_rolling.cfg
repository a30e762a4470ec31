SPECIFICATION Spec
CONSTANTS
    a = a  b = b  k1 = k1  k2 = k2  t1 = t1  t2 = t2  u1 = u1  u2 = u2  other = other
    NoOwner = NoOwner
    Collectors = {a, b}
    Keys = {k1}
    Tokens = {t1}
    Owners = {u1}
    TokenOwner <- OneOwner
    Excluded = {}
    Receipts = {TRUE, FALSE}
    MaxBytes = 1
    Chunk = 1
    BatchSize = 1
    DrainBatches = 1
    MaxStamp = 1
    MaxRev = 1
    MaxRemovals = 0
    MaxSeq = 2
CHECK_DEADLOCK FALSE
PROPERTY CleanedOnlyConfirmed
