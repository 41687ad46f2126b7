SPECIFICATION Spec
CONSTANTS
    Places <- MCPlaces
    Dist <- MCDist
    Between <- MCBetween
    Bearing <- MCBearing
    Free <- MCFree
    Home <- MCHome
    SemanticPlaces <- MCSemanticPlaces
    Zones = {}
    SavedMaps = {}
    Budgets <- MCBudgets
    ViewRange = 2
    EdgeMin = 0
    EdgeMax = 2
    NearestRange = 2
    OdomDist = 1
    OdomRadius = 1
    ShortcutRadius = 3
    AnchorLimit = 1
    HistoryRadius = 0
    VisitRadius = 1
    WaypointRange = 1
    SparseRadius = 1
    QueueMax = 1
    MaxSeeds = 1
    MaxSamples = 1
    StartupReach = 1
    AugmentTimes = 1
    ReachRange = 1
    MaxLowGainIters = 2
    GoHome = TRUE
    AutoHoming = TRUE
    RegionCount = 1
    EntryTolerance = 1
    SpareTime = 1
    Batch = FALSE
    MaxTriggers = 1
    MaxVertices = 7
    MaxMoves = 3
    MaxQueries = 0
INVARIANTS HomeIsReachable
CHECK_DEADLOCK FALSE
