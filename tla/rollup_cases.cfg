SPECIFICATION CaseSpec
CONSTANTS
    k1 = k1  k2 = k2  w1 = w1  w2 = w2
    Keys = {k1, k2}
    BucketOf <- TwoBuckets
    NBuckets = 2
    Span = 2
    MaxBuckets = 4
    Retractable = {k1}
    Repairable = {k1, k2}
    Workers = {w1, w2}
    JobLimit = 1
    MaxLosses = 1
    MaxKills = 0
    FlushFailures = TRUE
    SlowWorkers = TRUE
SYMMETRY Symmetry
INVARIANT TypeOK
INVARIANT CoveredNotStale
INVARIANT ServedExact
CHECK_DEADLOCK FALSE
