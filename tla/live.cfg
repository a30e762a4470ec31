SPECIFICATION FairServicesSpec
CONSTANTS
    Services = {"outbox", "admission", "history", "repair", "coordinator", "device", "tool", "team"}
    k1 = k1  k2 = k2  f1 = f1  f2 = f2  p1 = p1  c1 = c1  c2 = c2
    o1 = o1  o2 = o2  o3 = o3  e1 = e1  e2 = e2  m1 = m1  m2 = m2  d1 = d1  d2 = d2  d3 = d3
    OutboxKeys = {k1, k2}
    Unpriced = {k1}
    Flushers = {f1}
    BatchLimit = 2
    Window = 4
    MaxBatches = 2
    MaxFlushFails = 2
    SlowFlushers = FALSE
    CacheUsers = {"u1"}
    Pods = {p1}
    Changers = {c1, c2}
    AllUsers = "all"
    Org = "org"
    MaxChanges = 2
    MaxFaults = 1
    Operations = {o1, o2, o3}
    RetryOverloadOps = {o1, o2}
    RetryTransientOps = {o1}
    MaxConcurrent = 1
    OverloadAttempts = 2
    NetworkAttempts = 3
    HistModels = {m1}
    HistPrices = {1}
    NoPrice = 0
    HistTicks = 2
    HistDay = 2
    CommitTime <- TwoTimes
    HistPage = 1
    HistStep = 2
    HistSkipAfter = 1
    Steppers = {"s1"}
    MaxHistJobs = 1
    MaxHistUsage = 1
    LateEvents = {e1, e2}
    EventModel <- OneModelEach
    Repairers = {"r1"}
    RepairLimit = 1
    MaxStamps = 3
    MaxReplays = 1
    SlowRepair = FALSE
    FastEvents = FALSE
    HealthyMinutes = 1
    MaxTransient = 1
    HardDisabled = {}
    SlowValidation = FALSE
    TicksPerMinute = 3
    FreeLayers = {}
    CoordWorkers = {"timezone", "pricing_repair"}
    CollectCommands = {"c1"}
    DoctorCommands = {}
    Runs = {"r1"}
    MaxPolicies = 1
    MaxDevFaults = 1
    ToolDevices = {d1, d2}
    Cohorts <- CanaryThenRest
    MaxVersions = 2
    MaxDeploys = 2
    MaxChoices = 0
    MaxMishaps = 1
    OldProvider = "A"
    PendingEvents = {"e1"}
    RawEvents = {"r1"}
    OldBuckets = {1, 2}
    TeamLimit = 2
    BucketLimit = 1
    MaxTeamFaults = 1
    ContentUsers = {"u1", "u2"}
    KeyPods = {"w1", "w2"}
    KeyProviders = {"A", "B"}
    Migrators = {"cli1", "cli2"}
    MaxKeyFaults = 2
    MaxMigrations = 2
    CacheKeys = {"k1", "k2"}
    KeyCallers = {c1, c2, p1}
    CacheCapacity = 1
    MaxLoads = 3
    MaxEvictions = 1
    MaxReconcileKills = 1
PROPERTY OutboxDelivers
PROPERTY CallsSettle
PROPERTY HistoryEnds
PROPERTY LatePriced
 
PROPERTY PolicyArrives
PROPERTY RollbackArrives
 
PROPERTY BackfillEnds
CHECK_DEADLOCK FALSE
