SPECIFICATION Spec
CONSTANTS
    a = a  b = b  k1 = k1  k2 = k2  t1 = t1  t2 = t2  u1 = u1  u2 = u2  other = other
    NoOwner = NoOwner
    Collectors = {a, b}
    Keys = {k1}
    Tokens = {t1, t2}
    Owners = {u1, u2, other}
    TokenOwner <- TwoOwners
    Excluded = {}
    Receipts = {TRUE}
    MaxBytes = 1
    Chunk = 1
    BatchSize = 1
    DrainBatches = 1
    MaxStamp = 1
    MaxRev = 3
    MaxRemovals = 1
    MaxSeq = 2
INVARIANT RequestsStayWithAccount
PROPERTY RowsLeaveOnlyDelivered
CHECK_DEADLOCK FALSE
