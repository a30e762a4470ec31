SPECIFICATION Spec
CONSTANTS
    k1 = k1  k2 = k2  w1 = w1  w2 = w2
    Keys = {k1, k2}
    BucketOf <- TwoBuckets
    NBuckets = 2
    Span = 2
    MaxBuckets = 2
    Retractable = {}
    Repairable = {k2}
    Workers = {}
    JobLimit = 1
    MaxLosses = 0
    MaxKills = 0
    FlushFailures = FALSE
    SlowWorkers = FALSE
INVARIANT ServedExact
CHECK_DEADLOCK FALSE
