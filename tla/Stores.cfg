SPECIFICATION StoresSpec
CONSTANTS
    Uris = {u1}
    Procs = {p1, p2}
    NoEntry = NoEntry
    MaxRetries = 1
    MaxDepRetries = 2
    InitBackoff = 1
    MaxBackoff = 2
    InitDepBackoff = 2
    MaxDepBackoff = 2
    Width = 4
    BatchSize = 1
    MaxEnqueues = 2
    MaxTime = 3
    MaxFaults = 1
    Ranked = {1, 2}
    Changing = {1}
    Askers = {1, 2}
    ScanPage = 1
    MaxRequests = 2
    MaxChanges = 2
    MaxLosses = 1
    Authors = {1, 2, 3}
    MayOverlap = FALSE
    MaxToggles = 3
    MaxRankings = 2
    MaxPosts = 1
    MaxBreaks = 1
    Clients = {1, 2, 3}
    Capacities = {0, 1}
    MaxWaitingPerPermit = 1
    MaxUpsets = 1
\* A request is answered and a queue is empty: the system may rest.
CHECK_DEADLOCK FALSE
SYMMETRY Symmetry
INVARIANTS
    StateIsIndexed
    NoLostEvent
    RebuildOncePerLoss
    DeletedNotServed
    SettledSetsAgree
    HiddenIsFlagged
    GateAccounts
    PublishedIsWhole
    KillsAreRemembered
PROPERTY LedgerSpec
