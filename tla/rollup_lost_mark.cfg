SPECIFICATION Spec
CONSTANTS
    k1 = k1  k2 = k2  w1 = w1  w2 = w2
    Keys = {k1}
    BucketOf <- OneKey
    NBuckets = 1
    Span = 1
    MaxBuckets = 2
    Retractable = {}
    Repairable = {}
    Workers = {}
    JobLimit = 1
    MaxLosses = 0
    MaxKills = 0
    FlushFailures = FALSE
    SlowWorkers = FALSE
INVARIANT ServedAlwaysExact
CHECK_DEADLOCK FALSE
