SPECIFICATION FairSpec
CONSTANTS
    Schedule <- FireTimes
    MaxSleep = 2
    MaxTime = 8
    MaxJumps = 3
    Migrations <- Catalog
    MultiStaged <- StagedOnes
    MaxFailedRuns = 2
    Others = {"retry"}
    Homeservers = {1, 2, 3, 4}
    Primary = 3
    HsBlacklist = {4}
    PollLimit = 1
    PollInterval = 1
    InitialBackoff = 2
    MaxBackoff = 3
    MaxPanics = 1
    Users = {u1}
    Hss = {h1, h2}
    Blacklist = {h2}
    Ingestors = {i1, i2}
    None = None
    InitialWait = 1
    Ttl = 3
    MaxPublishes = 2
    MaxLookupFaults = 2
\* A task ends at a shutdown or in a panic: the system may rest.
CHECK_DEADLOCK FALSE
INVARIANTS
    PhasesInOrder
PROPERTIES
    
    NoRunAfterShutdown
    SchedulerStops
    MigrationsFinish
    WatcherStops
    WatcherPolls
    ResolverSettles
    RankingSettles
